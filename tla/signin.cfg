SPECIFICATION Spec
CONSTANTS
  founder = founder
  guest = guest
  User = {founder, guest}
  Founder = {founder}
  MaxSessions = 2
  MaxLinks = 2
  Slots = 2
  MaxRequests = 4
CHECK_DEADLOCK FALSE
INVARIANTS
  EndedIsOver
  LinksWorkOnce
  InvitedOnce
