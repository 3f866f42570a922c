---------------------------- MODULE BoundedFifo ----------------------------
(***************************************************************************)
(* What the policy queue promises to its callers: a first-in first-out     *)
(* channel of limited capacity that neither loses, duplicates, invents nor *)
(* reorders an entry, and hands each entry to exactly one worker.          *)
(***************************************************************************)
EXTENDS Naturals, Sequences

CONSTANTS Entries, Getters, Capacity, NoEntry

VARIABLES content, held

Init ==
    /\ content = << >>
    /\ held = [c \in Getters |-> NoEntry]

Put(e) ==
    /\ Len(content) < Capacity
    /\ content' = Append(content, e)
    /\ UNCHANGED held

Take(c) ==
    /\ held[c] = NoEntry
    /\ content # << >>
    /\ held' = [held EXCEPT ![c] = Head(content)]
    /\ content' = Tail(content)

Done(c) ==
    /\ held[c] # NoEntry
    /\ held' = [held EXCEPT ![c] = NoEntry]
    /\ UNCHANGED content

Next ==
    \/ \E e \in Entries : Put(e)
    \/ \E c \in Getters : Take(c) \/ Done(c)

Spec == Init /\ [][Next]_<<content, held>>
=============================================================================
