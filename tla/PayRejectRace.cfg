SPECIFICATION Spec
CONSTANTS
    u1 = u1
    u2 = u2
    s1 = s1
    s2 = s2
    s3 = s3
    w1 = w1
    w2 = w2
    w3 = w3
    rcpt = rcpt
    Users = {u1, u2}
    Opening <- MCOpening
    OwnerOf <- MCOwnerOf
    AmountOf <- MCAmountOf
    Submissions = {s1, s2}
    Receipts <- MCReceipts
    ReceiptOf <- MCReceiptOf
    Withdrawals = {}
    Legacy = {}
    Admins = {a1, a2}
INVARIANT ReceiptCreditedOnce
CHECK_DEADLOCK FALSE
