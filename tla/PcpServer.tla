----------------------------- MODULE PcpServer ------------------------------
(***************************************************************************)
(* The PCP announce server (src/pcp/session.rs): serve() with its session  *)
(* permits, handle_conn() reading atoms in chunks, the AnnounceSession     *)
(* state machine and its merging of chan and host broadcasts, and the      *)
(* ChannelRegistry (src/pcp/channel.rs) the sessions share.  The module    *)
(* AnnounceRegistry, which the publishing engine is composed with, is the  *)
(* abstract specification this one implements.                             *)
(*                                                                         *)
(* A name and a tracker stand for the fields of PCP_CHAN_INFO and PCP_HOST;*)
(* every atom weighs one unit of the byte rate.                            *)
(***************************************************************************)
EXTENDS Channels, Integers, Sequences, FiniteSets

CONSTANTS
    Session,                 \* connections; a slot is used again after its end
    Nothing,                 \* no notification pending
    MaxSessions,             \* MAX_CONCURRENT_SESSIONS
    MaxChannelsPerSession,   \* MAX_CHANNELS_PER_SESSION
    MaxRate,                 \* MAX_SESSION_BYTES_PER_SEC
    QueueMax,                \* capacity of the broadcast channel
    ChunkMax,                \* atoms that arrive in one read
    MaxAtoms,                \* bound on the atoms sent
    MaxClock                 \* bound on the clock

ASSUME PcpAssumption ==
    /\ MaxSessions \in Nat \ {0} /\ MaxChannelsPerSession \in Nat
    /\ MaxRate \in Nat /\ QueueMax \in Nat \ {0}
    /\ ChunkMax \in Nat \ {0} /\ MaxAtoms \in Nat /\ MaxClock \in Nat

\* What handle_bcst tells apart: whether info comes with it, and the host:
\* absent, not receiving, behind a firewall (or without a usable address), or
\* directly reachable.  Without either a channel atom alone announces a channel
\* that has no name.  A broadcast without a channel id is refused, one without
\* channel and host ignored.
Bcst == [kind : {"bcst"}, ch : Channel, info : BOOLEAN,
         host : {"absent", "stopped", "push", "direct"}]

\* "other" stands for everything that is ignored, "invalid" for what is
\* refused: an undecodable atom, an oversized one, a bad GUID.
Atom == Bcst \union [kind : {"helo", "quit", "other", "invalid"}]

Record == [named : BOOLEAN, tracker : BOOLEAN, started : 0..MaxClock]
Change == [ch : Channel, kind : {"live", "ended"}]

VARIABLES
    now,
    shutdown,    \* the watch channel says stop
    phase,       \* of the task that runs handle_conn
    handshake,   \* Handshake
    buf,         \* how many atoms were read and are not yet handled
    rate,        \* RateLimiter
    channels,    \* AnnounceSession::channels
    listing,     \* ChannelRegistry::inner
    pending,     \* the notification a session has yet to send
    queue,       \* the notifications not yet received
    sent,        \* atoms so far
    upserts,     \* ... that announced or updated
    ends         \* channels ended, or about to be by end_all

vars == <<now, shutdown, phase, handshake, buf, rate, channels, listing,
          pending, queue, sent, upserts, ends>>

\* The types of every variable.
TypeOK ==
    /\ now \in 0..MaxClock /\ shutdown \in BOOLEAN
    /\ phase \in [Session -> {"none", "open", "ending"}]
    /\ handshake \in [Session -> {"BeforeHelo", "Established"}]
    /\ buf \in [Session -> 0..ChunkMax]
    /\ rate \in [Session -> [window : -1..MaxClock, bytes : 0..(MaxRate + 1)]]
    /\ \A s \in Session : /\ DOMAIN channels[s] \subseteq Channel
                          /\ \A c \in DOMAIN channels[s] : channels[s][c] \in Record
                          /\ Cardinality(DOMAIN channels[s]) <= MaxChannelsPerSession
    /\ DOMAIN listing \subseteq Channel
    /\ \A c \in DOMAIN listing : listing[c] \in Record
    /\ pending \in [Session -> Change \union {Nothing}]
    /\ queue \in Seq(Change) /\ Len(queue) <= QueueMax
    /\ sent \in 0..MaxAtoms /\ upserts \in 0..MaxAtoms /\ ends \in 0..MaxAtoms

NoChannels == [c \in {} |-> 0]
NoRate == [window |-> -1, bytes |-> 0]

Without(f, c) == [x \in DOMAIN f \ {c} |-> f[x]]
With(f, c, r) == [x \in DOMAIN f \union {c} |-> IF x = c THEN r ELSE f[x]]

Init ==
    /\ now = 0
    /\ shutdown = FALSE
    /\ phase = [s \in Session |-> "none"]
    /\ handshake = [s \in Session |-> "BeforeHelo"]
    /\ buf = [s \in Session |-> 0]
    /\ rate = [s \in Session |-> NoRate]
    /\ channels = [s \in Session |-> NoChannels]
    /\ listing = NoChannels
    /\ pending = [s \in Session |-> Nothing]
    /\ queue = <<>>
    /\ sent = 0 /\ upserts = 0 /\ ends = 0

registryVars == <<listing, pending, queue, upserts, ends>>

-----------------------------------------------------------------------------
\* The semaphore: a permit is held until handle_conn returns.
Permits == MaxSessions - Cardinality({s \in Session : phase[s] # "none"})

\* serve(): a connection from the loopback that finds a permit gets a task.
\* Others are dropped and leave no trace.
Accept(s) ==
    /\ ~shutdown
    /\ phase[s] = "none"
    /\ Permits > 0
    /\ phase' = [phase EXCEPT ![s] = "open"]
    /\ UNCHANGED <<now, shutdown, handshake, rate, buf, channels, sent, registryVars>>

\* The session waits in select! of handle_conn: everything read was handled.
Waiting(s) == phase[s] = "open" /\ buf[s] = 0 /\ pending[s] = Nothing

\* Its read branch: a chunk of one or more atoms; what they are is chosen when
\* their turn comes.
Read(s) ==
    /\ Waiting(s)
    /\ \E n \in 1..ChunkMax :
          /\ sent + n <= MaxAtoms
          /\ sent' = sent + n
          /\ buf' = [buf EXCEPT ![s] = n]
    /\ UNCHANGED <<now, shutdown, phase, handshake, rate, channels, registryVars>>

\* Mutant: the channels of a session that breaks off are forgotten.
MutBreak(s) ==
    /\ phase' = [phase EXCEPT ![s] = "none"]
    /\ channels' = [channels EXCEPT ![s] = NoChannels]
    /\ buf' = [buf EXCEPT ![s] = 0]
    /\ handshake' = [handshake EXCEPT ![s] = "BeforeHelo"]
    /\ rate' = [rate EXCEPT ![s] = NoRate]
    /\ UNCHANGED <<now, shutdown, sent, registryVars>>

\* break 'conn: what was read is dropped and end_all() follows.  The handshake
\* and the rate are set back here for the next connection of the slot.
Break(s) ==
    /\ phase' = [phase EXCEPT ![s] = IF channels[s] = NoChannels THEN "none" ELSE "ending"]
    /\ buf' = [buf EXCEPT ![s] = 0]
    /\ ends' = ends + Cardinality(DOMAIN channels[s])
    /\ handshake' = [handshake EXCEPT ![s] = "BeforeHelo"]
    /\ rate' = [rate EXCEPT ![s] = NoRate]
    /\ UNCHANGED <<now, shutdown, channels, listing, pending, queue, sent, upserts>>

\* The peer closes, or the shutdown branch of select!.
Disconnect(s) == Waiting(s) /\ Break(s)

\* Mutant: a session that is established goes on reading.
MutObeyShutdown(s) == shutdown /\ Waiting(s) /\ handshake[s] = "BeforeHelo" /\ Break(s)

ObeyShutdown(s) == shutdown /\ Waiting(s) /\ Break(s)

-----------------------------------------------------------------------------
\* RateLimiter::charge: the window is a second of the clock.
Charge(r) ==
    IF r.window # now THEN [window |-> now, bytes |-> 1] ELSE [r EXCEPT !.bytes = @ + 1]

\* Mutant: a broadcast makes a new record of what it brings.
MutMerged(s, a) ==
    [named |-> a.info, tracker |-> a.host = "direct",
     started |-> IF a.ch \in DOMAIN channels[s] THEN channels[s][a.ch].started ELSE now]

\* What handle_bcst makes of the record of a channel: info and host come in
\* broadcasts of their own, each leaves the other's fields alone.
Merged(s, a) ==
    LET old == IF a.ch \in DOMAIN channels[s] THEN channels[s][a.ch]
               ELSE [named |-> FALSE, tracker |-> FALSE, started |-> now]
    IN  [old EXCEPT !.named = @ \/ a.info,
                    !.tracker = IF a.host = "absent" THEN @ ELSE a.host = "direct"]

\* A channel beyond the session's limit is ignored.
Fits(s, c) ==
    c \in DOMAIN channels[s] \/ Cardinality(DOMAIN channels[s]) < MaxChannelsPerSession

\* Mutant: an end is notified although another session ended the channel before.
MutEnd(s, c) ==
    /\ channels' = [channels EXCEPT ![s] = Without(@, c)]
    /\ listing' = Without(listing, c)
    /\ pending' = [pending EXCEPT ![s] = [ch |-> c, kind |-> "ended"]]
    /\ UNCHANGED <<queue, upserts>>

\* ChannelRegistry::end and the notification that follows it.
End(s, c) ==
    /\ channels' = [channels EXCEPT ![s] = Without(@, c)]
    /\ listing' = Without(listing, c)
    /\ pending' = IF c \in DOMAIN listing
                  THEN [pending EXCEPT ![s] = [ch |-> c, kind |-> "ended"]]
                  ELSE pending
    /\ UNCHANGED <<queue, upserts>>

Upsert(s, a) ==
    /\ channels' = [channels EXCEPT ![s] = With(@, a.ch, Merged(s, a))]
    /\ listing' = With(listing, a.ch, Merged(s, a))
    /\ pending' = [pending EXCEPT ![s] = [ch |-> a.ch, kind |-> "live"]]
    /\ upserts' = upserts + 1
    /\ UNCHANGED <<queue, ends>>

\* handle_bcst: a host that receives no more ends a channel of this session.
HandleBcst(s, a) ==
    \/ /\ a.host = "stopped" /\ a.ch \in DOMAIN channels[s]
       /\ ends' = ends + 1
       /\ End(s, a.ch)
    \/ a.host # "stopped" /\ Fits(s, a.ch) /\ Upsert(s, a)
    \/ /\ IF a.host = "stopped" THEN a.ch \notin DOMAIN channels[s] ELSE ~Fits(s, a.ch)
       /\ UNCHANGED <<channels, registryVars>>

\* An atom that does not end the session: before HELO everything else is
\* ignored.
OnAtom(s, a) ==
    /\ handshake' = [handshake EXCEPT ![s] = IF a.kind = "helo" THEN "Established" ELSE @]
    /\ IF a.kind = "bcst" /\ handshake[s] = "Established"
       THEN HandleBcst(s, a)
       ELSE UNCHANGED <<channels, registryVars>>

\* One turn of the inner loop of handle_conn.  The session ends for the rate,
\* for an atom it refuses, for QUIT once established, or because the answer to
\* HELO cannot be written.
Fatal(s, a) ==
    \/ Charge(rate[s]).bytes > MaxRate
    \/ a.kind = "invalid"
    \/ a.kind = "quit" /\ handshake[s] = "Established"

Handle(s) ==
    /\ phase[s] = "open" /\ buf[s] > 0 /\ pending[s] = Nothing
    /\ \E a \in Atom :
          \/ (Fatal(s, a) \/ (a.kind = "helo" /\ handshake[s] = "BeforeHelo")) /\ Break(s)
          \/ /\ ~Fatal(s, a) /\ OnAtom(s, a)
             /\ buf' = [buf EXCEPT ![s] = @ - 1]
             /\ rate' = [rate EXCEPT ![s] = Charge(@)]
             /\ UNCHANGED <<now, shutdown, phase, sent>>

\* end_all, one channel after the other; the permit goes with the task.
EndAll(s) ==
    /\ phase[s] = "ending" /\ pending[s] = Nothing
    /\ \/ \E c \in DOMAIN channels[s] : End(s, c) /\ UNCHANGED phase
       \/ /\ channels[s] = NoChannels
          /\ phase' = [phase EXCEPT ![s] = "none"]
          /\ UNCHANGED <<channels, listing, pending, queue, upserts>>
    /\ UNCHANGED <<now, shutdown, handshake, buf, rate, sent, ends>>

\* tx.send() outside the mutex; a full channel overwrites its oldest value.
Notify(s) ==
    /\ pending[s] # Nothing
    /\ queue' = Append(IF Len(queue) = QueueMax THEN Tail(queue) ELSE queue, pending[s])
    /\ pending' = [pending EXCEPT ![s] = Nothing]
    /\ UNCHANGED <<now, shutdown, phase, handshake, buf, rate, channels, listing,
                   sent, upserts, ends>>

\* The publishing bridge receives.
Take ==
    /\ queue # <<>>
    /\ queue' = Tail(queue)
    /\ UNCHANGED <<now, shutdown, phase, handshake, buf, rate, channels, listing,
                   pending, sent, upserts, ends>>

Shutdown ==
    /\ ~shutdown
    /\ shutdown' = TRUE
    /\ UNCHANGED <<now, phase, handshake, buf, rate, channels, sent, registryVars>>

Tick ==
    /\ now < MaxClock
    /\ now' = now + 1
    /\ UNCHANGED <<shutdown, phase, handshake, buf, rate, channels, sent, registryVars>>

Next ==
    \/ \E s \in Session :
          \/ Accept(s) \/ Read(s) \/ Disconnect(s) \/ ObeyShutdown(s)
          \/ Handle(s) \/ EndAll(s) \/ Notify(s)
    \/ Take
    \/ Shutdown
    \/ Tick

Spec == Init /\ [][Next]_vars

\* The tasks keep running; the peers and the user owe nothing.
Fairness ==
    \A s \in Session :
        WF_vars(Handle(s)) /\ WF_vars(EndAll(s)) /\ WF_vars(Notify(s)) /\ WF_vars(ObeyShutdown(s))

FairSpec == Spec /\ Fairness

-----------------------------------------------------------------------------
(***************************************************************************)
(* Properties.                                                             *)
(***************************************************************************)

\* A listed channel is listed as some session holds it at this moment: no
\* end of a session leaves a channel behind, no session shows another's record.
ListedAsHeld ==
    \A c \in DOMAIN listing :
        \E s \in Session : c \in DOMAIN channels[s] /\ channels[s][c] = listing[c]

\* What is held is well formed, within the limits, and what is listed.
HoldingsSound == TypeOK /\ ListedAsHeld

\* While a session goes on, a broadcast of the host alone takes neither the
\* name nor the start of a channel away.
InfoKept ==
    [][\A s \in Session : \A c \in DOMAIN channels[s] \intersect DOMAIN channels'[s] :
          /\ channels[s][c].named => channels'[s][c].named
          /\ channels[s][c].started = channels'[s][c].started]_vars

\* After a shutdown every session ends its channels by itself.
ShutdownEndsAll == shutdown ~> (listing = NoChannels /\ \A s \in Session : phase[s] = "none")

\* The registry as the publishing engine sees it.
Registry == INSTANCE AnnounceRegistry WITH
    registry <- DOMAIN listing,
    owned <- [s \in Session |-> DOMAIN channels[s]],
    closing <- {s \in Session : phase[s] = "ending"},
    announces <- upserts,
    MaxAnnounce <- MaxAtoms,
    MaxEnd <- MaxAtoms

\* Handshake, chunks, rate, permits and merging are invisible to the bridge:
\* whatever the sessions do is what AnnounceRegistry allows.
ImplementsRegistry == Registry!RegistrySpec
=============================================================================
