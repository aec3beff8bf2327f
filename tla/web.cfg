\* The smaller parts of the web app: clip list, precise cut, bar, submission, blog form; face form, mock API.
SPECIFICATION Spec
CONSTANTS
  MaxFiles = 3
  MaxResets = 2
  MinClips = 2
  MaxClips = 3
  FileSizes = {1, 2, 3}
  MaxFileSize = 2
  MaxTotalSize = 4
  MaxSeconds = 9
  Durations = {40, 55, 96, 196, 206, 304, 498, 506, 730}
  Inputs = {0, 4, 10, 30, 55, 120, 196, 200, 206, 210, 305, 400, 498, 506, 600, 900}
  Reported = {0, 1, 13, 26, 40, 45, 52, 75, 80, 95, 100}
  Jobs = {j1, j2}
  NoJob = NoJob
  MaxEdits = 2
  MaxPolls = 2
  Patience = {TRUE}
  Categories = {perm, dye}
  NoCategory = NoCategory
  Products = {oil, balm, wax}
  NoProduct = NoProduct
  MaxProducts = 2
  Shops = {salon}
  NoShop = NoShop
  Faces = {f1, f2}
  Bases = 2
  Details = 1
  None = None
  MockIds = {m1, m2}
INVARIANTS WebTypeOK CaptionsFollowClips SentAsShown ReadyIsAccepted ResultIsOfSubmission RangeAccepted PostIsOfForm FaceAccepted
PROPERTIES BusyEnds BarNeverBackwards MockKeepsContract
\* Ids and files run out.
CHECK_DEADLOCK FALSE
