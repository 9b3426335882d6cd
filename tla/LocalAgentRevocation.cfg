SPECIFICATION AgentSpec
CONSTANTS
  Browsers = {b1}
  Handlers = {h1, h2}
  Nobody = Nobody
  MAX_PAIRINGS = 1
  MAX_CODE_ATTEMPTS = 2
  MaxIds = 3
  MaxEvents = 1
INVARIANT RevocationsStick
CHECK_DEADLOCK FALSE
