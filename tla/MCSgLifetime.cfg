CONSTANTS
  Flow = {f1, f2}
  PIM_SG_TIMEOUT = 5
  PIM_SG_CHECK = 2
  MaxCount = 3
SPECIFICATION LifetimeSpec
PROPERTIES DeletedWhenIdle IdleEntryGoes
