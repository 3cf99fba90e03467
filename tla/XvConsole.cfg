\* Two processes; an input buffer and a transmit buffer of two characters, whose
\* counters wrap after two rounds and are about to: three characters have passed
\* since boot.  The processes are alike, and so are the characters.
CONSTANTS
  p1 = p1
  p2 = p2
  cpu = cpu
  c1 = c1
  c2 = c2
  Callers = {p1, p2}
  Handler = cpu
  INPUT_BUF_SIZE = 2
  UART_TX_BUF_SIZE = 2
  Span = 4
  Output = {c1, c2}
  FirstCount = 3
  MaxN = 2
  MaxKeys = 3
  MaxUses = 2
SYMMETRY Alike
SPECIFICATION ConsoleSpec
INVARIANTS NobodyStranded
PROPERTIES IsLineInput OutputInOrder
CHECK_DEADLOCK FALSE
