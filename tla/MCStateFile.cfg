SPECIFICATION PartsSpec
CONSTANTS
  Values = {v1, v2}
  Faults <- CallsFail
PROPERTIES ImplementsRegister FutureKept DamageSurvived
