-------------------------- MODULE SubscriptionList --------------------------
(***************************************************************************)
(* What the subscription service promises of the stored list, whichever    *)
(* commands overlap: it changes as if each command ran alone on the list   *)
(* as it is.  Fetches, locks, the gate and failed writes are not seen here. *)
(*                                                                         *)
(* The promise of subscriptions/service.rs and subscriptions_android/      *)
(* service.rs ("take a single Mutex to keep concurrent add/refresh calls   *)
(* from racing on disk"); Subscriptions is shown to implement it.          *)
(***************************************************************************)
EXTENDS Naturals, Sequences

CONSTANT InitialFiles

VARIABLE list

\* What a fetch may not touch, and what an edit may not touch.
OwnedByUser(r) == <<r.id, r.url, r.interval, r.userNamed>>
OwnedByProvider(r) == <<r.id, r.url, r.kind, r.children, r.links, r.title, r.stamp>>

\* Records are added at the end: one by add, several by a migration.
Added(old, new) ==
    /\ Len(new) > Len(old)
    /\ SubSeq(new, 1, Len(old)) = old
    /\ \A i, j \in DOMAIN new : new[i].id = new[j].id => i = j

\* One record is removed, the others keep their order.
Removed(old, new) ==
    \E i \in DOMAIN old : new = SubSeq(old, 1, i - 1) \o SubSeq(old, i + 1, Len(old))

\* The user renames it, sets its interval or selects a child it has.
ByUser(old, new) ==
    /\ OwnedByProvider(new) = OwnedByProvider(old)
    /\ new.name # old.name => new.userNamed
    /\ new.active # old.active => new.active \in 1..old.children

\* A newer answer of the provider replaces its content: the user's settings
\* stay, a name the user chose stays, a selection that still exists stays.
ByProvider(old, new) ==
    /\ OwnedByUser(new) = OwnedByUser(old)
    /\ new.stamp > old.stamp
    /\ old.userNamed => new.name = old.name
    /\ old.active \in 1..new.children => new.active = old.active

\* One record changes, in place.
Changed(old, new) ==
    \E i \in DOMAIN old :
        /\ new = [old EXCEPT ![i] = new[i]]
        /\ ByUser(old[i], new[i]) \/ ByProvider(old[i], new[i])

Init == list \in InitialFiles

Next == Added(list, list') \/ Removed(list, list') \/ Changed(list, list')

Spec == Init /\ [][Next]_list
=============================================================================
