SPECIFICATION Spec
CONSTANTS
  alice = alice
  bob = bob
  carol = carol
  post = post
  home = home
  away = away
  Users = {alice, bob, carol}
  Domains = {home, away}
  DomainOf <- Domain
  Targets = {post}
  AuthorOf <- Writer
  Requests = {r1, r2}
  MaxRows = 2
  Ops = {"Endorse", "Retract", "AddTrustedDomain", "RemoveTrustedDomain", "SoftDelete"}
CHECK_DEADLOCK FALSE
SYMMETRY Symmetric
INVARIANTS TypeOK NoticePerEndorsement NeverInflated
PROPERTY RetractsWhatItFound
