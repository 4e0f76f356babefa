CONSTANTS
  Orders = {o1}
  Payments = {a}
  Handlers = {h1}
  Crons = {c1}
  None = None
SPECIFICATION FairSpec
PROPERTIES
  CancellationCompletes
  CaptureCompletes
