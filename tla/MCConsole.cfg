\* Two readers share a line of two characters, and a writer has a one-character
\* transmit ring, with indices that wrap; the UART queues one typed character and
\* two to be sent.
CONSTANTS
    Readers = {r1, r2}
    Victims = {r1, w1}
    Writers = {w1}
    Keys = {"x", "nl", "^D", "^U", "^H", "cr", "nul"}
    INPUT_BUF_SIZE = 2
    UART_TX_BUF_SIZE = 1
    UINT32 = 4
    UINT64 = 2
    RXFIFO = 1
    TXFIFO = 2
    None = None
SPECIFICATION FairSpec
VIEW MCView
INVARIANTS SleepersBlocked FifoHolds
PROPERTIES KeepsLines OutputDrains
