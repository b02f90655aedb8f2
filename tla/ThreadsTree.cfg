SPECIFICATION Spec
CONSTANTS
  Users = {alice}
  Moderators = {}
  Boards = {b1}
  Posts = {p1}
  Comments = {1, 2, 3}
  Bodies = {x}
  Requests = {r1, r2}
  None = None
  MaxRevisions = 1
  Ops = {"CreatePost", "CreateComment", "EditPost", "DeleteComment", "ArchiveBoard", "GetThread"}
CHECK_DEADLOCK FALSE
SYMMETRY Symmetric
INVARIANTS TypeOK TreeShape ThreadSound CountCoherent
PROPERTY ImplementsCommentTree
