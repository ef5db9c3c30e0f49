------------------------------ MODULE Identity ------------------------------
(***************************************************************************)
(* The personas of a node and the broadcast lock: IdentityManager          *)
(* (src/identity/mod.rs), the persona requests of the web interface that   *)
(* call it, and BroadcastState (src/broadcast.rs).  A mutation that takes  *)
(* the lock is one step; select() checks its persona before it takes it,   *)
(* so it is two.                                                           *)
(***************************************************************************)
EXTENDS Channels, Integers, FiniteSets

CONSTANTS
    Persona,     \* pubkeys that may be generated
    NoPersona,   \* none selected, none assigned
    Usable,      \* the personas whose stored key can be decrypted
    MaxAssign    \* bound on the assignments users make

ASSUME IdentityAssumption ==
    /\ NoPersona \notin Persona
    /\ Usable \subseteq Persona
    /\ MaxAssign \in Nat

VARIABLES
    pstate,      \* state of each persona's row, "absent" without a row
    selected,    \* the setting selected_persona, as stored
    selecting,   \* personas with a select() past its checks
    assigned,    \* IdentityManager::assignments
    assigns,     \* assignments made so far
    broadcast    \* BroadcastState::channels

personas == <<pstate, selected, selecting, assigned, assigns>>

IdentityTypeOK ==
    /\ pstate \in [Persona -> {"absent", "active", "archived", "deleted"}]
    /\ selected \in Persona \union {NoPersona}
    /\ selecting \subseteq Persona
    /\ assigned \in [Channel -> Persona \union {NoPersona}]
    /\ assigns \in 0..MaxAssign
    /\ broadcast \subseteq Channel

\* The node starts with the rows and the setting an earlier run left; a key
\* that cannot be decrypted is one of those, never a key generated now.
IdentityInit ==
    /\ pstate \in [Persona -> {"absent", "active", "archived"}]
    /\ \A p \in Persona \ Usable : pstate[p] # "absent"
    /\ selected \in {p \in Persona : pstate[p] # "absent"} \union {NoPersona}
    /\ selecting = {}
    /\ assigned = [c \in Channel |-> NoPersona]
    /\ assigns = 0
    /\ broadcast = {}

-----------------------------------------------------------------------------
\* A row exists (get_persona_by_pubkey).
Exists(p) == p \in Persona /\ pstate[p] \in {"active", "archived"}

\* selected(): the setting, unless its persona is gone, archived or unusable.
Selected ==
    IF selected \in Usable /\ pstate[selected] = "active" THEN selected ELSE NoPersona

\* persona_for_channel(): of an assigned persona only the row is looked for.
PersonaForChannel(c) == IF Exists(assigned[c]) THEN assigned[c] ELSE Selected

\* signing_keys() succeeds.
CanSign(p) == Exists(p) /\ p \in Usable

\* is_broadcasting, as guard_selected_mutation sees it under the lock.
IsBroadcasting == broadcast # {}

\* Mutant: the persona is read under the lock, the reservation is forgotten.
MutReserve(c) == UNCHANGED broadcast

\* reserve_and_read_selected(): the persona is read and the channel reserved
\* in one critical section, and reserved only if there is a persona.
Reserve(c) ==
    broadcast' = IF PersonaForChannel(c) # NoPersona
                 THEN broadcast \union {c} ELSE broadcast

Release(c) == broadcast' = broadcast \ {c}

-----------------------------------------------------------------------------
\* create(): only the very first persona is selected by itself.
Create(p) ==
    /\ pstate[p] = "absent"
    /\ pstate' = [pstate EXCEPT ![p] = "active"]
    /\ selecting' = IF \A q \in Persona : ~Exists(q) THEN selecting \union {p}
                                                    ELSE selecting
    /\ UNCHANGED <<selected, assigned, assigns, broadcast>>

\* select(), before the lock.
SelectCheck(p) ==
    /\ p \notin selecting
    /\ pstate[p] = "active"
    /\ p \in Usable
    /\ selecting' = selecting \union {p}
    /\ UNCHANGED <<pstate, selected, assigned, assigns, broadcast>>

\* Mutant: select() does not ask whether anything is broadcast.
MutSelectCommit(p) ==
    /\ p \in selecting
    /\ selecting' = selecting \ {p}
    /\ selected' = p
    /\ UNCHANGED <<pstate, assigned, assigns, broadcast>>

\* select(), under the lock: refused while anything is broadcast.
SelectCommit(p) ==
    /\ p \in selecting
    /\ selecting' = selecting \ {p}
    /\ selected' = IF IsBroadcasting THEN selected ELSE p
    /\ UNCHANGED <<pstate, assigned, assigns, broadcast>>

\* Mutant: the persona is locked once it is in use for a second channel only.
MutLockedFor(p) == Cardinality(broadcast) > 1 /\ p = selected

\* set_state() and delete() refuse the selected persona while broadcasting.
LockedFor(p) == IsBroadcasting /\ p = selected

Archive(p) ==
    /\ Exists(p)
    /\ ~LockedFor(p)
    /\ pstate' = [pstate EXCEPT ![p] = "archived"]
    /\ UNCHANGED <<selected, selecting, assigned, assigns, broadcast>>

\* The way back takes no lock.
Activate(p) ==
    /\ Exists(p)
    /\ pstate' = [pstate EXCEPT ![p] = "active"]
    /\ UNCHANGED <<selected, selecting, assigned, assigns, broadcast>>

\* delete() drops the assignments; the setting keeps the dead pubkey.
Delete(p) ==
    /\ Exists(p)
    /\ ~LockedFor(p)
    /\ pstate' = [pstate EXCEPT ![p] = "deleted"]
    /\ assigned' = [c \in Channel |-> IF assigned[c] = p THEN NoPersona ELSE assigned[c]]
    /\ UNCHANGED <<selected, selecting, assigns, broadcast>>

\* assign_channel() takes no lock and looks at nothing but the row.
AssignChannel(c, p) ==
    /\ Exists(p)
    /\ assigns < MaxAssign
    /\ assigns' = assigns + 1
    /\ assigned' = [assigned EXCEPT ![c] = p]
    /\ UNCHANGED <<pstate, selected, selecting, broadcast>>

IdentityNext ==
    \/ \E p \in Persona : \/ Create(p)
                          \/ SelectCheck(p)
                          \/ SelectCommit(p)
                          \/ Archive(p)
                          \/ Activate(p)
                          \/ Delete(p)
    \/ \E c \in Channel, p \in Persona : AssignChannel(c, p)
=============================================================================
