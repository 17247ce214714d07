SPECIFICATION FairSpec
CONSTANTS
  Emails = {a, b}
  MaxCalls = 2
INVARIANTS
  TypeOK
  DialogHasText
  SpinnerMeansWork
  MailUnlessDisturbed
  
  ScreensInv
PROPERTIES
  MessageOpensDialog
  SignUpIsAnswered
