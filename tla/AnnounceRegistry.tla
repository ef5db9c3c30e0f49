-------------------------- MODULE AnnounceRegistry --------------------------
(***************************************************************************)
(* The channels PeerCast announces to this node: the PCP sessions          *)
(* (src/pcp/session.rs) that own them, the shared ChannelRegistry          *)
(* (src/pcp/channel.rs) and the bounded broadcast channel on which the     *)
(* registry notifies the publishing bridge.  upsert() and end() change the *)
(* map under its mutex and send the notification after they released it;   *)
(* between the two another session may run.                                *)
(***************************************************************************)
EXTENDS Channels, Integers, Sequences, FiniteSets

CONSTANTS
    Session,                 \* PCP connections
    Nothing,                 \* no notification pending
    MaxChannelsPerSession,   \* MAX_CHANNELS_PER_SESSION
    QueueMax,                \* capacity of the broadcast channel
    MaxAnnounce,             \* bound on the BCSTs that announce or update
    MaxEnd                   \* bound on the channels ended

ASSUME RegistryAssumption ==
    /\ MaxChannelsPerSession \in Nat
    /\ QueueMax \in Nat \ {0}
    /\ MaxAnnounce \in Nat
    /\ MaxEnd \in Nat

\* ChannelChange: Announced and Updated are handled alike, "live".
Change == [ch : Channel, kind : {"live", "ended"}]

ASSUME NothingAssumption == Nothing \notin Change

VARIABLES
    registry,    \* ChannelRegistry::inner, the channels announced
    owned,       \* AnnounceSession::channels
    closing,     \* sessions inside end_all
    pending,     \* the notification a session has yet to send
    queue,       \* the notifications the bridge has not received
    announces,   \* BCSTs so far
    ends         \* channels ended so far

announced == <<registry, owned, closing, pending, queue, announces, ends>>

RegistryTypeOK ==
    /\ registry \subseteq Channel
    /\ owned \in [Session -> SUBSET Channel]
    /\ closing \subseteq Session
    /\ pending \in [Session -> Change \union {Nothing}]
    /\ queue \in Seq(Change) /\ Len(queue) <= QueueMax
    /\ announces \in 0..MaxAnnounce
    /\ ends \in 0..MaxEnd

RegistryInit ==
    /\ registry = {}
    /\ owned = [s \in Session |-> {}]
    /\ closing = {}
    /\ pending = [s \in Session |-> Nothing]
    /\ queue = <<>>
    /\ announces = 0
    /\ ends = 0

-----------------------------------------------------------------------------
\* handle_bcst() of a playing channel: a channel beyond the session's limit
\* is ignored, another is recorded and upserted.
Bcst(s, c) ==
    /\ s \notin closing /\ pending[s] = Nothing
    /\ c \in owned[s] \/ Cardinality(owned[s]) < MaxChannelsPerSession
    /\ announces < MaxAnnounce
    /\ announces' = announces + 1
    /\ owned' = [owned EXCEPT ![s] = @ \union {c}]
    /\ registry' = registry \union {c}
    /\ pending' = [pending EXCEPT ![s] = [ch |-> c, kind |-> "live"]]
    /\ UNCHANGED <<closing, queue, ends>>

\* ChannelRegistry::end(): nothing happens if the channel is already gone,
\* and nobody asks which session announced it last.
End(s, c) ==
    /\ owned' = [owned EXCEPT ![s] = @ \ {c}]
    /\ registry' = registry \ {c}
    /\ pending' = IF c \in registry
                  THEN [pending EXCEPT ![s] = [ch |-> c, kind |-> "ended"]]
                  ELSE pending
    /\ UNCHANGED <<queue, announces>>

\* handle_bcst() of a channel that no longer plays.
BcstStopped(s, c) ==
    /\ s \notin closing /\ pending[s] = Nothing
    /\ c \in owned[s]
    /\ ends < MaxEnd
    /\ ends' = ends + 1
    /\ End(s, c)
    /\ UNCHANGED closing

\* QUIT, a lost connection, an error or shutdown: handle_conn ends with
\* end_all(), which ends the channels one after the other.
Disconnect(s) ==
    /\ s \notin closing /\ pending[s] = Nothing
    /\ owned[s] # {}
    /\ ends + Cardinality(owned[s]) <= MaxEnd
    /\ ends' = ends + Cardinality(owned[s])
    /\ closing' = closing \union {s}
    /\ UNCHANGED <<registry, owned, pending, queue, announces>>

EndAll(s) ==
    /\ s \in closing /\ pending[s] = Nothing
    /\ \/ \E c \in owned[s] : End(s, c) /\ UNCHANGED <<closing, ends>>
       \/ /\ owned[s] = {}
          /\ closing' = closing \ {s}
          /\ UNCHANGED <<registry, owned, pending, queue, announces, ends>>

\* tx.send() after the mutex is released.  A full channel overwrites its
\* oldest value: the receiver then learns only that it lagged, and goes on.
Notify(s) ==
    /\ pending[s] # Nothing
    /\ queue' = Append(IF Len(queue) = QueueMax THEN Tail(queue) ELSE queue, pending[s])
    /\ pending' = [pending EXCEPT ![s] = Nothing]
    /\ UNCHANGED <<registry, owned, closing, announces, ends>>

RegistryNext ==
    \E s \in Session :
        \/ \E c \in Channel : Bcst(s, c) \/ BcstStopped(s, c)
        \/ Disconnect(s)
        \/ EndAll(s)
        \/ Notify(s)

\* The registry by itself, with a bridge that receives.
Take ==
    /\ queue # <<>>
    /\ queue' = Tail(queue)
    /\ UNCHANGED <<registry, owned, closing, pending, announces, ends>>

RegistrySpec == RegistryInit /\ [][RegistryNext \/ Take]_announced
=============================================================================
