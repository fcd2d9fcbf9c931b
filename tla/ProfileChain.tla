---------------------------- MODULE ProfileChain ----------------------------
(***************************************************************************)
(* What anchoring one profile section promises its callers, with no trace  *)
(* of attempts, peers or ordering: an append-only chain of contents and,   *)
(* per request, one answer.                                                *)
(*                                                                         *)
(*   - A request appends its content at most once, and never behind equal  *)
(*     content.                                                            *)
(*   - "ok" is answered only when the requested content is in the chain,   *)
(*     and a request answered so appends nothing later.                    *)
(*   - "error" may be answered at any time: the append may have happened,  *)
(*     may still happen, or may never happen.                              *)
(***************************************************************************)
EXTENDS Naturals, Sequences

CONSTANTS
    Request,   \* the requests
    Content    \* Content[r] is what request r asks to anchor

VARIABLES
    chain,     \* the sequence of [content, by]
    answer     \* the answer of each request

vars == <<chain, answer>>

HasAppended(r) == \E i \in 1..Len(chain) : chain[i].by = r

Init ==
    /\ chain  = <<>>
    /\ answer = [r \in Request |-> "none"]

Anchor(r) ==
    /\ answer[r] \in {"none", "error"}
    /\ ~HasAppended(r)
    /\ chain # <<>> => chain[Len(chain)].content # Content[r]
    /\ chain' = Append(chain, [content |-> Content[r], by |-> r])
    /\ UNCHANGED answer

Reply(r, status) ==
    /\ answer[r] = "none"
    /\ answer' = [answer EXCEPT ![r] = status]
    /\ UNCHANGED chain

ReplyOk(r) ==
    /\ \E i \in 1..Len(chain) : chain[i].content = Content[r]
    /\ Reply(r, "ok")

ReplyError(r) == Reply(r, "error")

Next ==
    \E r \in Request : Anchor(r) \/ ReplyOk(r) \/ ReplyError(r)

Spec == Init /\ [][Next]_vars
=============================================================================
