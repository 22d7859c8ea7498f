--------------------------- MODULE MCErrorQueueIrq ----------------------------
EXTENDS ErrorQueueIrq

CONSTANT e1

MCErrors == {e1}
=============================================================================
