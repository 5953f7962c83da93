\* A receipt by SMS and a staff message by WhatsApp, two overlapping workers.
SPECIFICATION OutboxFairSpec
CONSTANTS
    Row = {"sms", "staff_whatsapp"}
    Worker = {w1, w2}
    MaxAttempts = 3
    MaxRenders = 2
    MaxTrouble = 3
INVARIANTS OutboxTypeOK SentWasDelivered RepeatedForReason
PROPERTIES SentIsFinal RowEnds
CHECK_DEADLOCK FALSE
