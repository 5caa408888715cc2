----------------------------- MODULE MCPayments -----------------------------
(* Instances of Payments for TLC.                                          *)
EXTENDS Payments, TLC

CONSTANTS u1, u2, s1, s2, s3, w1, w2, w3, rcpt

\* Three submissions of one receipt: one of them is by another user.
MCReceipts == {rcpt}
MCReceiptOf == [s \in Submissions |-> rcpt]

MCOwnerOf == [x \in Submissions \cup Withdrawals |->
                IF x \in {s3, w3} THEN u2 ELSE u1]
MCAmountOf == [x \in Submissions \cup Withdrawals |-> IF x = w2 THEN 2 ELSE 1]

MCOpening == [u \in Users |->
    [balance |-> 2,
     locked |-> Cardinality({w \in Legacy : OwnerOf[w] = u}),
     bonus |-> 0]]
=============================================================================
