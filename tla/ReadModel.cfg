\* One user marks, pins and subscribes, both comment; each of two requests can
\* be overtaken by the other and by both comments.
CONSTANTS
  reader = reader
  writer = writer
  home = home
  other = other
  post = post
  Users = {reader, writer}
  Boards = {home, other}
  Posts = {post}
  Comments = {1, 2}
  Readers = {reader}
  Writers = {writer}
  Followed = {other}
  Requests = {r1, r2}
  None = None
  MaxClock = 4
  MaxChanges = 2
  AuthorOf <- MCAuthorOf
  HomeOf <- MCHomeOf
  SharedTo <- MCSharedTo

SPECIFICATION Spec
INVARIANTS
  TypeOK
  OnlyFlyingIsMissed
PROPERTIES
  MarkReadSettles
  UnreadAccounted
SYMMETRY SameRequests
CHECK_DEADLOCK FALSE
