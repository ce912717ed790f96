----------------------------- MODULE MCPaidCall -----------------------------
(* PaidCall with one request for the call and three messages about it.     *)
EXTENDS PaidCall, TLC

CONSTANTS p1, p2, p3, p4

MCPurses == (Caller :> [bal |-> 25, frz |-> 0]) @@ (Host :> EmptyWallet)

Run(a, b, c) == (p1 :> "request") @@ (p2 :> a) @@ (p3 :> b) @@ (p4 :> c)

\* Two tickers and an end; one ticker, an accept over HTTP and an end; one
\* ticker and two ends; three tickers.
MCJobs == {Run("answer", "answer", "end"), Run("answer", "accept", "end"),
           Run("answer", "end", "end"), Run("answer", "answer", "answer")}
=============================================================================
