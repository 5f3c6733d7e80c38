\* Two conversations, a migration that copies one; a new chat and a sign-in.
CONSTANTS
  MigrateLimit = 1  ChatLimit = 2  MaxTurns = 2  MaxMessages = 4  MaxCalls = 2
  None = None
SPECIFICATION Spec
INVARIANT SignInForgetsNothing
CHECK_DEADLOCK FALSE
