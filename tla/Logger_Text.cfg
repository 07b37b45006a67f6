SPECIFICATION Spec
CONSTANTS
  Clients = {c1, c2}
  Callbacks = {f}
  Levels = {10, 20}
  MaxMessages = 3
INVARIANTS
  QueuesWhatItFormatted
