--------------------------- MODULE StreamContract ---------------------------
(***************************************************************************)
(* What the upstream iterator promises its caller, whatever the upstream   *)
(* does: a bounded number of requests, none of them once content is out,   *)
(* and an error as the last event.  UpstreamStream implements it.          *)
(***************************************************************************)
EXTENDS Naturals, Sequences

CONSTANTS Content, Errors, Others, MaxRetries

VARIABLES
    posts,   \* requests sent
    handed,  \* events given to the caller, each with the request it answers
    over     \* nothing more will be sent or given

contractVars == <<posts, handed, over>>

ContentOut == \E i \in DOMAIN handed : handed[i].type \in Content

Init == posts = 0 /\ handed = <<>> /\ over = FALSE

Post ==
    /\ ~over /\ ~ContentOut /\ posts <= MaxRetries
    /\ posts' = posts + 1 /\ over' \in BOOLEAN
    /\ UNCHANGED handed

Give(e) ==
    /\ ~over /\ posts > 0
    /\ handed' = Append(handed, [type |-> e, post |-> posts])
    /\ over' \in BOOLEAN /\ (e \in Errors => over')
    /\ UNCHANGED posts

End ==
    /\ ~over /\ over' = TRUE
    /\ UNCHANGED <<posts, handed>>

Next == Post \/ End \/ \E e \in Content \cup Errors \cup Others : Give(e)

Spec == Init /\ [][Next]_contractVars
=============================================================================
