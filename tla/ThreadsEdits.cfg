SPECIFICATION Spec
CONSTANTS
  Users = {alice}
  Moderators = {}
  Boards = {b1}
  Posts = {p1}
  Comments = {1}
  Bodies = {x, y}
  Requests = {r1, r2}
  None = None
  MaxRevisions = 2
  Ops = {"CreatePost", "CreateComment", "EditPost", "EditComment", "DeletePost", "DeleteComment"}
CHECK_DEADLOCK FALSE
SYMMETRY Symmetric
INVARIANT HistoryAnchored
PROPERTY TombstonesStay
