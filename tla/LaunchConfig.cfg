SPECIFICATION Spec
CONSTANTS
  NoURL = NoURL
  Configs <- MCConfigs
  Runes <- MCRunes
INVARIANTS
  ProxyReachesUpstream
  CommandIsAsWritten
