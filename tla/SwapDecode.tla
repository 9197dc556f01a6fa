----------------------------- MODULE SwapDecode -----------------------------
(***************************************************************************)
(* The decoder of swap calldata, for a wallet that shows what it is asked  *)
(* to sign or attaches a permit to it: multicalls in multicalls, for the   *)
(* two versions of Uniswap's router, with deadlines and block hashes on    *)
(* every level; and the encoder of a single swap.                          *)
(*                                                                         *)
(* Calldata is a tree.  A swap is the number that stands for its tokens,   *)
(* amounts and recipient.                                                  *)
(***************************************************************************)
EXTENDS Integers, Sequences, SequencesExt

CONSTANTS
    Calldata,               \* the calldata there is, the calls in it included
    MaxLevels,              \* how many calls are inside each other in it, at most
    Hashes,                 \* of blocks
    MaxMulticallDepth,      \* 8
    DefaultDeadlineTTL
ASSUME DecodeAssumption == {MaxMulticallDepth, DefaultDeadlineTTL} \subseteq Nat \ {0}

SwapSelectors == {"single1", "input1", "single2"}

(* Swaps of the routers for which the decoder has no selector: exactOutput *)
(* of either, with its single form, and SwapRouter02's own exactInput.     *)
UnreadSelectors == {"output1", "input2", "output2"}
MulticallSelectors == {"multicall", "multicallDeadline", "multicallHash"}

NoDeadline == -1
NoHash     == ""
ASSUME HashesAssumption == NoHash \notin Hashes

(* A call of the router: a swap ("bad": an address, a path or a number that*)
(* cannot be), one that the decoder cannot read, a multicall, or something *)
(* else.                                                                   *)
Swap(sel, id, deadline) == [sel |-> sel, id |-> id, deadline |-> deadline, bad |-> FALSE]
Unread(sel, id) == [sel |-> sel, id |-> id, bad |-> FALSE]
Other == [sel |-> "other"]
Multicall(sel, limit, calls) == [sel |-> sel, limit |-> limit, calls |-> calls]

IsSwap(c) ==
    /\ c.sel \in SwapSelectors
    /\ c.id \in Nat /\ c.bad \in BOOLEAN
    /\ IF c.sel = "single2" THEN c.deadline = NoDeadline ELSE c.deadline \in Nat

IsUnread(c) == c.sel \in UnreadSelectors /\ c.id \in Nat /\ c.bad \in BOOLEAN

IsMulticall(c) ==
    /\ c.sel \in MulticallSelectors
    /\ c.sel = "multicallDeadline" => c.limit \in Nat
    /\ c.sel = "multicallHash" => c.limit \in Hashes
    /\ c.calls \in Seq(Calldata)

ASSUME CalldataAssumption ==
    \A c \in Calldata : c = Other \/ IsSwap(c) \/ IsUnread(c) \/ IsMulticall(c)

Versions == {1, 2}
VersionOf(sel) == IF sel = "single2" THEN 2 ELSE 1

-----------------------------------------------------------------------------
(* What the decoder returns: swaps, or that there is none, or an error.    *)
Infos(infos) == [err |-> "", infos |-> infos]
Error(err)   == [err |-> err, infos |-> <<>>]

Supported(call) == call.sel \in SwapSelectors \union MulticallSelectors

(* decodeV1, decodeV2, decodeExactInputV1.  A deadline of 0 has passed.    *)
Unusable(c) == c.bad \/ (c.sel = "input1" /\ c.deadline = 0)

DecodeSwap(c) ==
    IF Unusable(c) THEN Error("error")
    ELSE Infos(<<[id |-> c.id, version |-> VersionOf(c.sel), deadline |-> c.deadline, hash |-> NoHash]>>)

(* Mutant: an outer deadline counts only for a swap without one.           *)
LimitedIfUnlimited(info, c) ==
    IF info.deadline = NoDeadline THEN [info EXCEPT !.deadline = c.limit] ELSE info

(* The earlier of the swap's deadline and the multicall's.                 *)
Limited(info, c) ==
    IF info.deadline = NoDeadline \/ c.limit < info.deadline
    THEN [info EXCEPT !.deadline = c.limit] ELSE info

Stamped(info, c) ==
    CASE c.sel = "multicall"         -> info
      [] c.sel = "multicallDeadline" -> Limited(info, c)
      [] c.sel = "multicallHash"     -> [info EXCEPT !.hash = c.limit]

(* What becomes of the swaps found inside a multicall.                     *)
Envelope(c, router, infos) ==
    IF infos = <<>> THEN Error("none")
    ELSE IF \E i \in DOMAIN infos :
              \/ infos[i].version # router
              \/ c.sel = "multicallHash" /\ infos[i].hash \notin {NoHash, c.limit}
      THEN Error("error")
    ELSE Infos([i \in DOMAIN infos |-> Stamped(infos[i], c)])

(* decodeSwapInfos, when inside[d] is what it says of the calldata d in c. *)
(* Inside a multicall what it does not know is skipped.                    *)
DecodeCall(c, router, inside) ==
    LET inner == [i \in DOMAIN c.calls |->
                    IF Supported(c.calls[i]) THEN inside[c.calls[i]] ELSE Infos(<<>>)]
    IN  IF ~Supported(c) THEN Error("error")
        ELSE IF c.sel \in SwapSelectors THEN DecodeSwap(c)
        ELSE IF c.sel # "multicall" /\ router # 2 THEN Error("error")
        ELSE IF \E i \in DOMAIN inner : inner[i].err = "error" THEN Error("error")
        ELSE Envelope(c, router, FlattenSeq([i \in DOMAIN inner |-> inner[i].infos]))

(* As long as no more than this many calls are inside each other.          *)
DecodeAt(router) ==
    LET at[left \in Nat] ==
          [c \in Calldata |-> IF left = 0 THEN Error("error")
                              ELSE DecodeCall(c, router, at[left - 1])]
    IN  at

DecodeSwapInfos(c, router) == DecodeAt(router)[MaxMulticallDepth + 1][c]

(* What an encoder takes for a deadline when it is given none.             *)
EffectiveDeadline(deadline, now) ==
    IF deadline = NoDeadline THEN now + DefaultDeadlineTTL ELSE deadline

(* Router02's swap has no deadline of its own: EncodeExactInputSingle puts *)
(* a multicall around it, EncodeExactInputSingleCall refuses a deadline.   *)
EncodeExactInputSingle(id, deadline, router) ==
    IF router = 1 THEN Swap("single1", id, deadline)
    ELSE Multicall("multicallDeadline", deadline, <<Swap("single2", id, NoDeadline)>>)

EncodeExactInputSingleCall(id, deadline, router) ==
    IF router = 1 THEN Swap("single1", id, deadline) ELSE Swap("single2", id, NoDeadline)

-----------------------------------------------------------------------------
(* External: what a router of this version executes of a call: the swaps   *)
(* that the decoder can read, in order, each with the deadlines and hashes *)
(* it is under, and those that it cannot.  It reverts when there is a call *)
(* that it does not know, or whose data it cannot read.                    *)
Knows(router, sel) ==
    \/ sel \in {"other", "multicall"}
    \/ router = 1 /\ sel \in {"single1", "input1", "output1"}
    \/ router = 2 /\ sel \in {"single2", "input2", "output2"}
    \/ router = 2 /\ sel \in {"multicallDeadline", "multicallHash"}

Runs(swaps, unread) == [ok |-> TRUE, swaps |-> swaps, unread |-> unread]
Reverts             == [ok |-> FALSE, swaps |-> <<>>, unread |-> {}]

(* A swap that is executed in a multicall.                                 *)
Under(c, swap) ==
    CASE c.sel = "multicall"         -> swap
      [] c.sel = "multicallDeadline" -> [swap EXCEPT !.deadlines = @ \union {c.limit}]
      [] c.sel = "multicallHash"     -> [swap EXCEPT !.hashes = @ \union {c.limit}]

RunSwap(c) ==
    IF Unusable(c) THEN Reverts
    ELSE Runs(<<[id |-> c.id, deadlines |-> {c.deadline} \ {NoDeadline}, hashes |-> {}]>>, {})

RunUnread(c) == IF c.bad THEN Reverts ELSE Runs(<<>>, {c.id})

RunCall(c, router, inside) ==
    LET swaps  == FlattenSeq([i \in DOMAIN c.calls |-> inside[c.calls[i]].swaps])
        unread == UNION {inside[c.calls[i]].unread : i \in DOMAIN c.calls}
    IN  IF ~Knows(router, c.sel) THEN Reverts
        ELSE IF c.sel \in UnreadSelectors THEN RunUnread(c)
        ELSE IF ~Supported(c) THEN Runs(<<>>, {})
        ELSE IF c.sel \in SwapSelectors THEN RunSwap(c)
        ELSE IF \E i \in DOMAIN c.calls : ~inside[c.calls[i]].ok THEN Reverts
        ELSE Runs([i \in DOMAIN swaps |-> Under(c, swaps[i])], unread)

RunAt(router) ==
    LET at[left \in Nat] ==
          [c \in Calldata |-> IF left = 0 THEN Reverts ELSE RunCall(c, router, at[left - 1])]
    IN  at

Executed(c, router) == RunAt(router)[MaxLevels + 1][c]

(* At most so many swaps and multicalls are inside each other.             *)
Within[levels \in Nat] ==
    [c \in Calldata |->
       /\ levels > 0
       /\ c.sel \in MulticallSelectors =>
            \A i \in DOMAIN c.calls : Supported(c.calls[i]) => Within[levels - 1][c.calls[i]]]

ASSUME LevelsAssumption ==
    /\ MaxLevels \in Nat
    /\ \A c \in Calldata : Supported(c) => Within[MaxLevels][c]
=============================================================================
