-------------------------- MODULE ChannelRegister ---------------------------
(***************************************************************************)
(* What the event store of a node promises to whoever reads it: for every  *)
(* replacement key a last-writer-wins register that may be forgotten at    *)
(* any time, by a quota, by age or because nobody renews it, and that      *)
(* never falls back to a value older than the newest it was ever given.    *)
(* There is no clock, no cache and no limit here.                          *)
(***************************************************************************)
EXTENDS EventStore

VARIABLES
    held,     \* the events that can be read, at most one per key
    newest    \* key -> the newest event ever accepted for it, as a set

Init ==
    /\ held = {}
    /\ newest = [k \in {StoreKey(e) : e \in Event} |-> {}]

\* The event is the newest of its key, or was before it was forgotten.  It
\* takes the place of what was held, and may itself be forgotten at once.
Write(e) ==
    /\ \A f \in newest[StoreKey(e)] : f = e \/ IsNewer(e, f)
    /\ newest' = [newest EXCEPT ![StoreKey(e)] = {e}]
    /\ held' \subseteq (held \ HeldAt(held, StoreKey(e))) \union {e}

Forget ==
    /\ held' \subseteq held
    /\ UNCHANGED newest

Next == Forget \/ \E e \in Event : Write(e)

Spec == Init /\ [][Next]_<<held, newest>>
=============================================================================
