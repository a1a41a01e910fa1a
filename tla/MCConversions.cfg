SPECIFICATION AllSpec
CONSTANTS
  Calls = {c1, c2}
  Docs = {a}
  Texts = {"one", "two", "bad"}
  MaxEdits = 2
  MaxTokens = 5
  MaxSafe = 9000
  MaxBuffer = 4
  Versions <- TwoVersions
INVARIANTS IndexIsWhole FilesAreAnswered InputsAreChecked McpIsAnswered SessionsAreFound PluginsAreWhole
SYMMETRY Perms
CHECK_DEADLOCK FALSE
