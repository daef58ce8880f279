SPECIFICATION Spec
CONSTANTS
  r1 = r1
  w1 = w1
  Reader = {r1}
  Writer = {w1}
  INPUT_BUF_SIZE = 3
  UINT = 6
  UART_TX_BUF_SIZE = 2
  TXUINT = 6
  FIFO = 2
  Start = 5
  RXFIFO = 1
  Keys <- AllKeys
  Loads <- InOrOut
  ReadLen = {2}
INVARIANT OutputInOrder
PROPERTIES ImplementsLineDiscipline CallsProgress
CHECK_DEADLOCK FALSE
