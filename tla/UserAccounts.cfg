SPECIFICATION Spec
CONSTANTS
  anaGoogle = anaGoogle
  anaLink = anaLink
  dan = dan
  anaMail = anaMail
  anaWork = anaWork
  danMail = danMail
  r1 = r1
  r2 = r2
  Uids <- MCUids
  Emails <- MCEmails
  SignupEmail <- MCSignupEmail
  Requests <- TwoRequests
  MaxProfiles = 1
  MaxUpsets = 1
SYMMETRY RequestSymmetry
INVARIANTS
  TypeOK
  ProvisionedOnce
  CapOvershootBounded
  LoginsSerialised
PROPERTIES
  ConfiguredProfilesSurvive
