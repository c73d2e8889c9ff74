------------------------------ MODULE Delivery ------------------------------
(***************************************************************************)
(* What the notification dispatcher promises, free of processes, locks,    *)
(* groups and crashes: a message is posted to the webhook at most once,    *)
(* only while it is claimed, and never again after that, whatever became   *)
(* of the post.  Dispatch.tla implements this (Dispatch!Promise).          *)
(***************************************************************************)
EXTENDS Naturals

CONSTANT Ids  \* messages

VARIABLES
    phase,    \* [Ids -> Phases]
    posts,    \* [Ids -> Nat], POST requests that carried the message
    accepted  \* [Ids -> Nat], those the receiver accepted

deliveryVars == <<phase, posts, accepted>>

Phases == {"absent", "queued", "claimed", "closed"}

Init ==
    /\ phase = [n \in Ids |-> "absent"]
    /\ posts = [n \in Ids |-> 0]
    /\ accepted = [n \in Ids |-> 0]

Move(S, from, to) ==
    /\ S # {}
    /\ \A n \in S : phase[n] \in from
    /\ phase' = [n \in Ids |-> IF n \in S THEN to ELSE phase[n]]
    /\ UNCHANGED <<posts, accepted>>

Post(S) ==
    /\ S # {}
    /\ \A n \in S : phase[n] = "claimed" /\ posts[n] = 0
    /\ posts' = [n \in Ids |-> IF n \in S THEN posts[n] + 1 ELSE posts[n]]
    /\ accepted' \in {accepted, [n \in Ids |-> IF n \in S THEN accepted[n] + 1 ELSE accepted[n]]}
    /\ UNCHANGED phase

Next ==
    \E S \in SUBSET Ids :
        \/ \E to \in {"queued", "closed"} : Move(S, {"absent"}, to)
        \/ Move(S, {"queued"}, "claimed")
        \/ Post(S)
        \/ Move(S, {"queued", "claimed"}, "closed")

Spec == Init /\ [][Next]_deliveryVars
=============================================================================
