SPECIFICATION MCSpec
CONSTANTS
  c1 = c1
  c2 = c2
  Clients = {c1, c2}
  P1 = s1
  P2 = s2
  Lines = {s1, s2}
  MAXSER = 2
  MAX_LINES = 2
  MAX_REQUESTS = 1
  Programs <- AllPrograms
  Talkers = {1, 2}
  MAX_TEXTS = 3
  Members = {1, 2, 3}
  MAX_WORDS = 3
  Mortal = {1}
  QUEUE_MAX = 2
  GROUPS = {0, 1}
  OPEN_MAX = 3
  MAX_TALK = 3
  Runs = {1, 2}
  OldTexts = 1
  Pieces = {1, 2}
  MAX_ASKED = 3
SYMMETRY Alike
INVARIANTS
  MCTypeOK
  LabAnswers
  Chats
  HandedOver
CHECK_DEADLOCK FALSE
