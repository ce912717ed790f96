--------------------------- MODULE MCWalletLedger ---------------------------
(* WalletLedger on small instances: two users, and one without a wallet.    *)
EXTENDS WalletLedger

CONSTANTS a, h, n

M(op, u, amt) == [op |-> op, user |-> u, amt |-> amt]
Tx(moves)     == [tx |-> TRUE, moves |-> moves]
Auto(moves)   == [tx |-> FALSE, moves |-> moves]

MCUser == {a, h, n}

MCOpening == [u \in MCUser |-> CASE u = a -> [bal |-> 3, frz |-> 1]
                                  [] u = h -> [bal |-> 1, frz |-> 0]
                                  [] u = n -> NoWallet]

Gift       == Tx(<<M("debit", a, 2), M("credit", h, 1)>>)
GiftBack   == Tx(<<M("debit", h, 1), M("credit", a, 1)>>)
SelfAgency == Tx(<<M("debit", a, 2), M("credit", h, 1), M("credit", h, 1)>>)
Withdraw   == Tx(<<M("debit", a, 2)>>)
FirstGift  == Tx(<<M("debit", a, 2), M("credit", n, 1)>>)
Deposit    == Auto(<<M("credit", n, 2)>>)
Charge     == Auto(<<M("debit", a, 2)>>)
CallTick   == Auto(<<M("debit", a, 1), M("credit", h, 1)>>)
FreezeReq  == Auto(<<M("freeze", a, 2)>>)
Release    == Auto(<<M("unfreeze", a, 1)>>)
Show       == Auto(<<M("read", n, 0)>>)

MCPlan == {Gift, GiftBack, SelfAgency, FirstGift, Withdraw, Deposit, Charge, CallTick,
           FreezeReq, Release, Show}
=============================================================================
