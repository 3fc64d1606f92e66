SPECIFICATION MixSpec
CONSTANTS
  m1 = m1  m2 = m2  m3 = m3  ann = ann
  e1 = e1  e2 = e2  github1 = github1  google1 = google1  NoEmail = NoEmail
  Emails = {e1, e2}
  Idents = {github1, google1}
  ProviderOf <- Providers
  AdminEmails = {e2}
  Requests <- AllRequests
  Mixes <- SmallMixes
  MaxAttempts = 2
  RecoveryCodes = 2
  Mails = {m1, m2, m3}
  UserOf <- Users
  AddressOf <- Addresses
  NoUser = NoUser
  NoMail = NoMail
  Limit = 1
  Window = 1
  Tries = 2
  MaxLog = 2
  MaxTime = 2
  MaxBreaks = 2
  MaxStops = 1
INVARIANTS
  CodesLetOneThrough
  AlwaysALogin
  SerialIsConsistent
  AnAdminStays
  LogIsTrue
  RateHolds
PROPERTIES
  EntryIsVerified
  MailsSettle
CHECK_DEADLOCK FALSE
