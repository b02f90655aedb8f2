CONSTANTS
  r1 = r1
  r2 = r2
  r3 = r3
  Nil = Nil
  Users = {"adm", "mnt"}
  Requests = {r1, r2, r3}
  Texts = {"home", "other", "fresh", "c1", "c2", "old", "new"}
  Menu <- MCMenu
  InitBoards <- MCBoards
  InitMembers <- MCMembers
  InitAdmins = {"adm"}
  Switched = {"adm"}
  InitCategories <- MCCategories_
  InitLinks <- MCLinks
  InitPosts <- MCPosts
  InitTags <- MCTags
SPECIFICATION Spec
INVARIANTS TypeOK RightsHeld OneSucceeds StrayOnlyByOverlap OneRequestsBoards
PROPERTY UpdatesKeep
SYMMETRY RequestSymmetry
VIEW MCView
CHECK_DEADLOCK FALSE
