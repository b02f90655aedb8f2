CONSTANTS
  alice = alice
  bob = bob
  home = home
  other = other
  post = post
  c1 = c1
  c2 = c2
  Users = {alice, bob}
  Boards = {home, other}
  Posts = {post}
  Comments = {c1, c2}
  HomeOf <- Home
  PostOf <- Thread
  PathOf <- Path
  AuthorOf <- Writer
  Bodies <- NobodyOrAll
  Fickle = {bob}
  Requests = {q1, q2}
  MaxChanges = 2
SPECIFICATION Spec
SYMMETRY Symmetric
INVARIANTS TypeOK ToldOnce
PROPERTY EverybodyGetsTheirDue
CHECK_DEADLOCK FALSE
