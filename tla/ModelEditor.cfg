CONSTANTS
  c1 = c1  c2 = c2  i1 = i1  i2 = i2
  CvTags = {c1, c2}
  InputTags = {i1, i2}
  Zero = Zero
  None = None
  MaxVars = 2
  MaxOps = 5
  MdlFiles <- MCMdlFiles
  JsonFiles <- MCJsonFiles
  History <- MCHistory
  CvTimes = {1, 2}
  Times = {1, 3}
  Baselines = {1, 2}
  FirstBaseline = 2
  Hour = 3
  Zone = 1
  Threshold = 1
  Shortly = 1
  ToolOpens = 1
  MaxToolOps = 7
SPECIFICATION GeneratorSpec
INVARIANT EditorInv
INVARIANT ToolInv
PROPERTY MovesKeepData
 
PROPERTY UploadsFill
CHECK_DEADLOCK FALSE
