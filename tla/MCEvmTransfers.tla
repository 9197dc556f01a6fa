--------------------------- MODULE MCEvmTransfers ---------------------------
(* GetTransfersByHash over a chain that reorganises, for executions of a   *)
(* few shapes: no call, two calls, a call inside a call, and their         *)
(* failures.                                                               *)
EXTENDS EvmTransfers, TLC

Frame(type, from, to, v, error) ==
    [callType |-> type, from |-> from, to |-> to, value |-> v, error |-> error]

Root(v, error) == Frame("call", "wallet", "token", v, error)

Paid(n) == [event |-> "Transfer", from |-> "token", to |-> "wallet", amount |-> n]
Approved == [event |-> "Approval", from |-> "wallet", to |-> "token", amount |-> 1]

(* A swap that pays in a call inside a call, and its failures.             *)
Swap(inner, outer, root) ==
    [frames |-> (<<>> :> Root(1, root)) @@ (<<0>> :> Frame("call", "token", "other", 1, outer))
                @@ (<<0, 0>> :> Frame("call", "other", "wallet", 1, inner)),
     logs |-> <<Approved, Paid(2)>>]

FewExecutions ==
    {Swap(FALSE, FALSE, FALSE), Swap(FALSE, TRUE, FALSE), Swap(TRUE, FALSE, TRUE)}
        \union {[frames |-> (<<>> :> Root(v, FALSE)), logs |-> <<>>] : v \in {0, 1}}

(* The account that runs a frame: a delegatecall runs for its caller.      *)
Callee(type, by, to) == IF type = "delegatecall" THEN by ELSE to

(* A call in a call, and two calls, of any type, with any of them          *)
(* failing: their senders follow from who runs the caller.                 *)
Nested(outer, inner, failing) ==
    (<<>> :> Root(1, <<>> \in failing))
      @@ (<<0>> :> Frame(outer, "token", "other", 1, <<0>> \in failing))
      @@ (<<0, 0>> :> Frame(inner, Callee(outer, "token", "other"), "wallet", 1, <<0, 0>> \in failing))

Siblings(outer, inner, failing) ==
    (<<>> :> Root(0, <<>> \in failing))
      @@ (<<0>> :> Frame(outer, "token", "wallet", 1, <<0>> \in failing))
      @@ (<<1>> :> Frame(inner, "token", "other", 1, <<0, 0>> \in failing))

MCExecutions ==
    FewExecutions
      \union {[frames |-> shape, logs |-> paid] :
                 shape \in {Nested(o, i, failing) : o, i \in {"call", "delegatecall"},
                                 failing \in SUBSET {<<>>, <<0>>, <<0, 0>>}}
                       \union {Siblings(o, "call", failing) : o \in {"call", "delegatecall"},
                                 failing \in SUBSET {<<0>>, <<0, 0>>}}
                       \union {Nested(o, "selfdestruct", failing) : o \in {"call", "create"},
                                 failing \in {{}, {<<0>>}}}
                       \union {Siblings("selfdestruct", "create", {})},
                 paid \in {<<Paid(0), Paid(1)>>}}
=============================================================================
