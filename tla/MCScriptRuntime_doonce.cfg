CONSTANTS
  Idle = Idle
  Pcs <- ShippedPcs
  Code <- Shipped
  Main = "start"
  Uses = {"box", "door"}
  Letters <- MCLetters
  x0 = 30
  y0 = 400
  w0 = 740
  h0 = 200
SPECIFICATION ScriptSpec
PROPERTIES DoOnce
CHECK_DEADLOCK FALSE
