SPECIFICATION Spec
CONSTANT MaxMessages = 3
INVARIANTS NoLostWakeup Accounting
PROPERTIES EveryMessageTried DestroyReturns ImplementsChannel
CHECK_DEADLOCK FALSE
