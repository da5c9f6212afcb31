SPECIFICATION Spec
CONSTANTS
  Inputs <- InputNames
  Proxy = "proxy"
  Choices <- InputChoices
  Direct = "direct"
  Strip <- Stripped
  Defaults <- PageDefaults
  l1 = l1
  l2 = l2
  Loads = {l1, l2}
  Untyped = Untyped
  LastVersion = 1
INVARIANTS DraftKept FormIsServers
PROPERTIES UntouchedKept CredentialsKept AccountsForward
SYMMETRY LoadSymmetry
