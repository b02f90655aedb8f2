SPECIFICATION Spec
CONSTANTS
  Users = {alice}
  Moderators = {}
  Boards = {b1}
  Posts = {p1}
  Comments = {1}
  Bodies = {x, y, z}
  Requests = {r1, r2}
  None = None
  MaxRevisions = 2
  Ops = {"CreatePost", "EditPost"}
CHECK_DEADLOCK FALSE
SYMMETRY Symmetric
INVARIANT EveryEditPreserved
