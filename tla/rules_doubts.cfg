SPECIFICATION RulesSpec
CONSTANTS
  Half = 2048
  FullRate = 100
  MostAsked = 95
  Secret = {"secret"}
  Unset = Unset
  Unanswered = Unanswered
  MostFailures = 7
  LongestThrottle = 20
  Price <- Prices
  Rate <- Rates
  Environment <- Environments
  Header <- Headers
  ConnectionString <- ConnectionStrings
  CookieHeader <- CookieHeaders
  InvoiceTable <- InvoiceTables
  PayoutTable <- PayoutTables
  AlertAge <- AlertAges
  LastMoment = 9
  HourLength = 2
  MostHours = 4
  UsualHours = 2
  NoAge = NoAge
  NoRate = NoRate
INVARIANTS
  FeeIsTheRate
  BackoffAsDocumented
  DsnIsRedacted
  SessionsHaveASecret
CHECK_DEADLOCK FALSE
