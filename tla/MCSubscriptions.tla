-------------------------- MODULE MCSubscriptions --------------------------
\* Two commands at once over one stored bundle and one legacy subscription.
EXTENDS Subscriptions, TLC

MCLegacy == <<[id |-> 2, url |-> "u1"]>>

MCPayloads ==
    {[kind |-> "links", size |-> 1, title |-> Untitled],
     [kind |-> "singbox", size |-> 1, title |-> "base64:plain"],
     [kind |-> "xray", size |-> 2, title |-> Untitled]}

MCStored ==
    [NewRecord(1, "u2", "Subscription") EXCEPT
        !.kind = "singbox", !.children = 2, !.active = 1, !.stamp = 1]

MCInitialFiles == {<<>>, <<MCStored>>}

Symmetry == Permutations(Tasks)
=============================================================================
