SPECIFICATION Spec
CONSTANTS
  Methods = {"GET", "POST"}
  ImplicitApi = "Rest"
  DefaultTimeout = 3
  MaxDebugTimeout = 36000
  TemplateChoices <- MCTemplateChoices
  SettingChoices <- MCSettings
CHECK_DEADLOCK FALSE
INVARIANTS
  TypeOK
  RoutesAsDeclared
  ImplicitWins
  PathsRoundTrip
  ValidBeforeSent
  TriggersAsDeclared
  EnvironmentAsDeclared
