SPECIFICATION Spec
CONSTANTS
  a = a b = b s = s
  g = g h = h
  q1 = q1 q2 = q2
  r1 = r1 r2 = r2 r3 = r3 r4 = r4 r5 = r5
  None = None
  Users = {a, b, s}
  Agencies = {g, h}
  Approved = {g}
  Staff <- StaffOfG
  Requests <- MCRequests
  Loads <- MCLoads
  Script <- MCScript
  AtOnce <- MCAtOnce
  FriendsBefore <- MCFriendsBefore
  Creator = a
  Amounts = {1, 2}
  Verified = {a}
  HighValue = 2
INVARIANTS
  TypeOK
PROPERTIES
  ConsentOfAddressee
  PostedByParticipants
  ConversationsAreReused
  UnreadIsCounted
  OneGroupChat
  RemovedIsOutOfChat
  StagesAreNotSkipped
