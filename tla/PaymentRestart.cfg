CONSTANTS
  Orders = {o1}
  Payments = {a, b}
  Handlers = {h1, h2}
  Crons = {}
  None = None
SPECIFICATION Spec
INVARIANTS
  PaymentCanRestart
