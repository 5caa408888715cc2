SPECIFICATION Spec
CONSTANTS
    u1 = u1
    u2 = u2
    s1 = s1
    s2 = s2
    s3 = s3
    w1 = w1
    w2 = w2
    w3 = w3
    rcpt = rcpt
    Users = {u1, u2}
    Opening <- MCOpening
    OwnerOf <- MCOwnerOf
    AmountOf <- MCAmountOf
    Submissions = {s1, s2, s3}
    Receipts <- MCReceipts
    ReceiptOf <- MCReceiptOf
    Withdrawals = {w1, w2, w3}
    Legacy = {w3}
    Admins = {a1, a2}
INVARIANTS
    TypeOK
    LedgerChains
    HeldIsLocked
    SettledAsDecided
    OneStandingCredit
PROPERTIES
    RejectionStands
    EscrowSpec
CHECK_DEADLOCK FALSE
