------------------------------ MODULE MCServe ------------------------------
(* Small instances of Serve.tla.                                           *)
EXTENDS Serve

CONSTANTS t1, t2

Req(op, txn) == [op |-> op, txn |-> txn]

\* A transaction with its BEGIN, an operation and its ABORT, a request
\* outside any, one with an unknown op code and a malformed frame.
MixedTraffic ==
  <<Req("begin", t1), Req("op", t1), Req("abort", t1), Req("unknown", NoTxn),
    Req("malformed", NoTxn)>>

\* Two transactions.
TwoTransactions ==
  <<Req("begin", t1), Req("op", t1), Req("begin", t2), Req("op", t2)>>
=============================================================================
