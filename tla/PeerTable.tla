----------------------------- MODULE PeerTable ------------------------------
(***************************************************************************)
(* The peers table of the SQLite store (src/store/mod.rs).  Each method    *)
(* runs under the store's mutex, so a method is one step of its caller:    *)
(* the operators below are the effects of those methods on the table.      *)
(*                                                                         *)
(* last_ok_at is set exactly when verified is, by the same statement.      *)
(* Which of two verified rows succeeded last is left open.                 *)
(***************************************************************************)
EXTENDS Naturals, FiniteSets
LOCAL INSTANCE FiniteSetsExt

CONSTANTS
    Addr,        \* addresses a row can have, in their canonical form
    NoRow,       \* what the table holds for an address it does not contain
    PeerLimit,   \* PEER_LIMIT
    MaxFail      \* bound at which fail_count saturates

Row == [source : {"manual", "pex"}, verified : BOOLEAN, enabled : BOOLEAN,
        fails : 0..MaxFail]

ASSUME TableAssumption ==
    /\ IsFiniteSet(Addr)
    /\ NoRow \notin Row
    /\ PeerLimit \in Nat /\ MaxFail \in Nat

VARIABLE
    rows         \* the table, by address

Registered == {a \in Addr : rows[a] # NoRow}

\* The table never outgrows PEER_LIMIT by rows that the network brought in,
\* whatever order additions, promotions to manual and deletions come in.
TableBounded ==
    Cardinality(Registered) > PeerLimit =>
        \A a \in Registered : rows[a].source = "manual"

\* A table the program can have left behind when it last stopped.
TableInit == rows \in [Addr -> Row \union {NoRow}] /\ TableBounded

-----------------------------------------------------------------------------
\* Rows of a table t that were not added by hand, and how many of them have
\* to go when t holds `count' rows.
Evictable(t) == {a \in Addr : t[a] # NoRow /\ t[a].source # "manual"}

Surplus(t, count) ==
    Min({IF count > PeerLimit THEN count - PeerLimit ELSE 0, Cardinality(Evictable(t))})

Held(t) == Cardinality({a \in Addr : t[a] # NoRow})

\* Mutant: the rows go in the order of their age alone.
MutVictimSets(t, new) ==
    {V \in SUBSET Evictable(t) :
        Cardinality(V) = Surplus(t, Held(t)) /\ (new \in V => Evictable(t) \subseteq V)}

\* What enforce_peer_limit may delete from t after `new' was inserted: rows
\* without a last_ok_at first, and of those the oldest first, which makes the
\* new row the last of them.
VictimSets(t, new) ==
    LET unproven == {a \in Evictable(t) : ~t[a].verified}
    IN {V \in SUBSET Evictable(t) :
          /\ Cardinality(V) = Surplus(t, Held(t))
          /\ V \subseteq unproven \/ unproven \subseteq V
          /\ new \in V => unproven \subseteq V}

\* The tables upsert_peer may leave.  An existing row only ever changes from
\* pex to manual.
Upserted(a, source) ==
    IF a \in Registered
    THEN {[rows EXCEPT ![a].source = IF source = "manual" THEN source ELSE @]}
    ELSE LET t == [rows EXCEPT ![a] = [source |-> source, verified |-> FALSE,
                                       enabled |-> TRUE, fails |-> 0]]
         IN {[x \in Addr |-> IF x \in V THEN NoRow ELSE t[x]] : V \in VictimSets(t, a)}

\* An update that names a row the table no longer has changes nothing.
Updated(a, row) == IF a \in Registered THEN [rows EXCEPT ![a] = row] ELSE rows

RecordPeerSuccess(a) == Updated(a, [rows[a] EXCEPT !.verified = TRUE, !.fails = 0])

RecordPeerFailure(a) == Updated(a, [rows[a] EXCEPT !.fails = Min({@ + 1, MaxFail})])

SetPeerEnabled(a, enabled) == Updated(a, [rows[a] EXCEPT !.enabled = enabled])

DeletePeer(a) == [rows EXCEPT ![a] = NoRow]
=============================================================================
