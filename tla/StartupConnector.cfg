SPECIFICATION Spec
CONSTANTS
  Files <- AllFiles
  KeyVars = {"MAIN_API_KEY", "SPARE_TOKEN"}
  ApiKeyVars = {"MAIN_API_KEY"}
  ChatIdLists <- Lines
  Chats = {"c1", "c2"}
INVARIANT
  FailuresAreLines
