--------------------------- MODULE PublishEngine ----------------------------
(***************************************************************************)
(* The publishing engine (src/event/publish.rs) with the tasks that drive  *)
(* it (src/main.rs): the bridge, which receives the registry's changes,    *)
(* and the loops that publish a snapshot of the registry periodically and  *)
(* after a reconnection.  The engine has no lock of its own around a       *)
(* publication: a task's step is one critical section on `states', on the  *)
(* broadcast lock or on the sink, and tasks, persona requests and PCP      *)
(* sessions interleave between them.                                       *)
(***************************************************************************)
EXTENDS Identity, AnnounceRegistry

CONSTANTS
    Bridge,        \* spawn_publish_bridge
    Republisher,   \* spawn_republish_loop and spawn_recovery_republish
    NoChannel,     \* the channel of an idle task
    MaxClock,      \* bound on the clock
    MaxLast        \* bound on last_created_at at which the loops stop

ASSUME EngineAssumption ==
    /\ Bridge \notin Republisher
    /\ NoChannel \notin Channel
    /\ MaxClock \in Nat
    /\ MaxLast \in Nat

Task == {Bridge} \union Republisher

VARIABLES
    now,        \* unix_now()
    signer,     \* states[c].persona, NoPersona without an entry
    last,       \* states[c].last_created_at
    shown,      \* the event the node's own store holds per persona and channel
    task,       \* the publication each task is in
    batch       \* what is left of the snapshot a loop works on

\* History, read by the properties only.
VARIABLES
    overlapped,   \* channels two tasks published at the same time
    raced         \* channels ended while another task held their listing

engine == <<now, signer, last, shown, task, batch>>
history == <<overlapped, raced>>
vars == <<personas, broadcast, announced, engine, history>>

PersonaOrNone == Persona \union {NoPersona}

Idle == [pc |-> "idle", ch |-> NoChannel, ended |-> FALSE, first |-> FALSE,
         persona |-> NoPersona, old |-> NoPersona, at |-> 0]

TypeOK ==
    /\ IdentityTypeOK
    /\ RegistryTypeOK
    /\ now \in 0..MaxClock
    /\ signer \in [Channel -> PersonaOrNone]
    /\ last \in [Channel -> Nat]
    /\ shown \in [Persona \X Channel -> [at : Nat, status : {"none", "live", "ended"}]]
    /\ task \in [Task -> [pc : {"idle", "check", "resolve", "retire", "end", "sign",
                                "send", "commit", "remove", "release"},
                          ch : Channel \union {NoChannel}, ended : BOOLEAN,
                          first : BOOLEAN, persona : PersonaOrNone,
                          old : PersonaOrNone, at : Nat]]
    /\ batch \in [Republisher -> SUBSET Channel]
    /\ raced \subseteq overlapped /\ overlapped \subseteq Channel

Init ==
    /\ IdentityInit
    /\ RegistryInit
    /\ now = 0
    /\ signer = [c \in Channel |-> NoPersona]
    /\ last = [c \in Channel |-> 0]
    /\ shown = [pc \in Persona \X Channel |-> [at |-> 0, status |-> "none"]]
    /\ task = [t \in Task |-> Idle]
    /\ batch = [t \in Republisher |-> {}]
    /\ overlapped = {}
    /\ raced = {}

-----------------------------------------------------------------------------
Publishes(t, c) == task[t].pc # "idle" /\ task[t].ch = c
Holds(t, c) == Publishes(t, c) \/ (t \in Republisher /\ c \in batch[t])

Overlap(c) == \E t, u \in Task : t # u /\ Publishes(t, c) /\ Publishes(u, c)

EndRace(c) ==
    \E t, u \in Task : t # u /\ Publishes(t, c) /\ task[t].ended /\ Holds(u, c)

\* Every step that moves a task or a snapshot notes the overlaps.
Observe ==
    /\ raced' = raced \union {c \in Channel : EndRace(c)'}
    /\ overlapped' = overlapped \union {c \in Channel : Overlap(c)' \/ EndRace(c)'}

(***************************************************************************)
(* Who publishes.                                                          *)
(***************************************************************************)

Begin(c, end) == [Idle EXCEPT !.pc = IF end THEN "end" ELSE "check",
                              !.ch = c, !.ended = end]

\* The bridge takes the next change: announced or updated is a
\* publish_listing, ended a publish_ended.
Receive ==
    /\ task[Bridge].pc = "idle"
    /\ queue # <<>>
    /\ task' = [task EXCEPT ![Bridge] = Begin(Head(queue).ch, Head(queue).kind = "ended")]
    /\ queue' = Tail(queue)
    /\ UNCHANGED <<personas, broadcast, registry, owned, closing, pending,
                   announces, ends, now, signer, last, shown, batch>>
    /\ Observe

\* Mutant: a loop publishes only what was published before.
MutSnapshot(t) ==
    /\ task[t].pc = "idle"
    /\ batch[t] = {}
    /\ \A c \in registry : last[c] < MaxLast
    /\ \E c \in registry : signer[c] # NoPersona
    /\ batch' = [batch EXCEPT ![t] = {c \in registry : signer[c] # NoPersona}]
    /\ UNCHANGED <<personas, broadcast, announced, now, signer, last, shown, task>>
    /\ Observe

\* A loop wakes and takes the snapshot it will publish one by one.
Snapshot(t) ==
    /\ task[t].pc = "idle"
    /\ batch[t] = {}
    /\ \A c \in registry : last[c] < MaxLast
    /\ registry # {}
    /\ batch' = [batch EXCEPT ![t] = registry]
    /\ UNCHANGED <<personas, broadcast, announced, now, signer, last, shown, task>>
    /\ Observe

NextListing(t) ==
    /\ task[t].pc = "idle"
    /\ \E c \in batch[t] :
          /\ batch' = [batch EXCEPT ![t] = @ \ {c}]
          /\ task' = [task EXCEPT ![t] = Begin(c, FALSE)]
    /\ UNCHANGED <<personas, broadcast, announced, now, signer, last, shown>>
    /\ Observe

-----------------------------------------------------------------------------
(***************************************************************************)
(* publish_listing and publish_ended, one critical section at a time.      *)
(***************************************************************************)

\* Task t is at step pc; it moves on to `to', and leaves the sessions and the
\* persona requests alone.
Step(t, pc, to) ==
    /\ task[t].pc = pc
    /\ task' = [task EXCEPT ![t] = to]
    /\ UNCHANGED <<personas, announced, now, batch>>
    /\ Observe

At(t, pc) == [task[t] EXCEPT !.pc = pc]

\* first_publish: no entry in `states', looked up before the broadcast lock.
Check(t) ==
    /\ Step(t, "check", [At(t, "resolve") EXCEPT !.first = signer[task[t].ch] = NoPersona])
    /\ UNCHANGED <<broadcast, signer, last, shown>>

\* The signing persona: a first publication reserves under the lock, a later
\* one just reads.  Without a persona the listing is held back.
Resolve(t) ==
    LET c == task[t].ch
        p == PersonaForChannel(c)
    IN  /\ Step(t, "resolve", IF p = NoPersona THEN Idle
                              ELSE [At(t, "retire") EXCEPT !.persona = p])
        /\ IF task[t].first THEN Reserve(c) ELSE UNCHANGED broadcast
        /\ UNCHANGED <<signer, last, shown>>

\* A persona other than the last one: that one signs an ended event first.
Retire(t) ==
    LET prev == signer[task[t].ch]
    IN  /\ Step(t, "retire",
                [At(t, "sign") EXCEPT !.old = IF prev = task[t].persona THEN NoPersona ELSE prev])
        /\ UNCHANGED <<broadcast, signer, last, shown>>

\* publish_ended signs with the last persona, else with the one a listing
\* would get; without either it only cleans up.
BeginEnd(t) ==
    LET c == task[t].ch
        p == IF signer[c] # NoPersona THEN signer[c] ELSE PersonaForChannel(c)
    IN  /\ Step(t, "end", IF p = NoPersona THEN At(t, "remove")
                          ELSE [At(t, "sign") EXCEPT !.persona = p])
        /\ UNCHANGED <<broadcast, signer, last, shown>>

Retiring(t) == task[t].old # NoPersona
Author(t) == IF Retiring(t) THEN task[t].old ELSE task[t].persona
Status(t) == IF Retiring(t) \/ task[t].ended THEN "ended" ELSE "live"

\* Mutant: publish_ended returns early when it cannot sign.
MutAfter(t, ok) ==
    IF Retiring(t) THEN [At(t, "sign") EXCEPT !.old = NoPersona, !.at = 0]
    ELSE IF task[t].ended THEN (IF ok THEN At(t, "remove") ELSE Idle)
    ELSE IF ~ok /\ task[t].first THEN At(t, "release")
    ELSE Idle

\* What follows sign_and_send: a retired persona's failure is ignored, an
\* ended publication cleans up in either case, and a first publication that
\* failed gives its reservation back.
After(t, ok) ==
    IF Retiring(t) THEN [At(t, "sign") EXCEPT !.old = NoPersona, !.at = 0]
    ELSE IF task[t].ended THEN At(t, "remove")
    ELSE IF ~ok /\ task[t].first THEN At(t, "release")
    ELSE Idle

\* Mutant: an event may be as old as the one before it.
MutCreatedAt(c) ==
    LET floor == IF signer[c] # NoPersona THEN last[c] ELSE 0
    IN  IF now >= floor THEN now ELSE floor

CreatedAt(c) ==
    LET floor == IF signer[c] # NoPersona THEN last[c] + 1 ELSE 0
    IN  IF now >= floor THEN now ELSE floor

\* sign_and_send: the key, then the time of the event ...
Sign(t) ==
    /\ Step(t, "sign", IF CanSign(Author(t))
                       THEN [At(t, "send") EXCEPT !.at = CreatedAt(task[t].ch)]
                       ELSE After(t, FALSE))
    /\ UNCHANGED <<broadcast, signer, last, shown>>

\* ... the sink: the store keeps the newer event, by id when equally old ...
Send(t) ==
    LET k == <<Author(t), task[t].ch>>
        e == [at |-> task[t].at, status |-> Status(t)]
    IN  /\ Step(t, "send", At(t, "commit"))
        /\ shown' \in (IF shown[k].status = "none" \/ e.at > shown[k].at
                       THEN {[shown EXCEPT ![k] = e]}
                       ELSE IF e.at = shown[k].at THEN {shown, [shown EXCEPT ![k] = e]}
                       ELSE {shown})
        /\ UNCHANGED <<broadcast, signer, last>>

\* ... and the entry in `states'.
Commit(t) ==
    LET c == task[t].ch
    IN  /\ Step(t, "commit", After(t, TRUE))
        /\ signer' = [signer EXCEPT ![c] = Author(t)]
        /\ last' = [last EXCEPT ![c] = task[t].at]
        /\ UNCHANGED <<broadcast, shown>>

\* Mutant: publish_ended forgets the entry and keeps the reservation.
MutRemove(t) ==
    LET c == task[t].ch
    IN  /\ Step(t, "remove", Idle)
        /\ signer' = [signer EXCEPT ![c] = NoPersona]
        /\ last' = [last EXCEPT ![c] = 0]
        /\ UNCHANGED <<broadcast, shown>>

\* publish_ended removes the entry, whether or not it could sign ...
Remove(t) ==
    LET c == task[t].ch
    IN  /\ Step(t, "remove", At(t, "release"))
        /\ signer' = [signer EXCEPT ![c] = NoPersona]
        /\ last' = [last EXCEPT ![c] = 0]
        /\ UNCHANGED <<broadcast, shown>>

\* ... and then the reservation, as does a first publication that failed.
ReleaseChannel(t) ==
    /\ Step(t, "release", Idle)
    /\ Release(task[t].ch)
    /\ UNCHANGED <<signer, last, shown>>

TaskStep(t) ==
    \/ Check(t)
    \/ Resolve(t)
    \/ Retire(t)
    \/ BeginEnd(t)
    \/ Sign(t)
    \/ Send(t)
    \/ Commit(t)
    \/ Remove(t)
    \/ ReleaseChannel(t)

Tick ==
    /\ now < MaxClock
    /\ now' = now + 1
    /\ UNCHANGED <<personas, broadcast, announced, signer, last, shown, task, batch, history>>

-----------------------------------------------------------------------------
PersonaRequest == IdentityNext /\ UNCHANGED <<announced, engine, history>>

PcpSession == RegistryNext /\ UNCHANGED <<personas, broadcast, engine, history>>

Next ==
    \/ PersonaRequest
    \/ PcpSession
    \/ Receive
    \/ \E t \in Republisher : Snapshot(t) \/ NextListing(t)
    \/ \E t \in Task : TaskStep(t)
    \/ Tick

Spec == Init /\ [][Next]_vars

\* The tasks run for as long as the node does and no critical section waits
\* for another; the loops wake again and again; a session that changed the
\* registry goes on to notify, and end_all to its end.  Nothing obliges
\* PeerCast or a user to act.
Fairness ==
    /\ WF_vars(Receive)
    /\ \A t \in Republisher : WF_vars(Snapshot(t) \/ NextListing(t))
    /\ \A t \in Task : WF_vars(TaskStep(t))
    /\ \A s \in Session :
          WF_vars((Notify(s) \/ EndAll(s))
                  /\ UNCHANGED <<personas, broadcast, engine, history>>)

FairSpec == Spec /\ Fairness

-----------------------------------------------------------------------------
(***************************************************************************)
(* Properties.                                                             *)
(***************************************************************************)

\* ADR-0011: while a channel is being published its signing persona does not
\* change, whatever the user selects, archives or deletes meanwhile.  It
\* holds as long as nobody assigns a persona to a channel and no loop still
\* holds a listing of the channel when its end is published.
SignerFixed ==
    [][\A c \in Channel \ raced' :
          assigns' = 0 /\ signer[c] # NoPersona /\ signer'[c] # NoPersona
              => signer'[c] = signer[c]]_vars

\* INV-2: a live event is signed and sent only while its channel is reserved.
\* Under assignments the tasks must not publish the channel at the same time.
ReservedWhileSigning ==
    \A t \in Task :
        /\ task[t].pc \in {"send", "commit"} /\ Status(t) = "live"
        /\ task[t].ch \notin raced
        /\ assigns = 0 \/ task[t].ch \notin overlapped
        => task[t].ch \in broadcast

\* FR-011: without assignments no live event is sent under a persona that was
\* archived or deleted after it was resolved: the reservation keeps it.
SignsActive ==
    \A t \in Task :
        /\ task[t].pc = "send" /\ Status(t) = "live"
        /\ assigns = 0 /\ task[t].ch \notin raced
        => pstate[Author(t)] = "active"

\* Nothing about the channel is under way.
Quiet(c) ==
    /\ \A t \in Task : ~Holds(t, c)
    /\ \A s \in Session : pending[s] = Nothing \/ pending[s].ch # c
    /\ \A i \in DOMAIN queue : queue[i].ch # c

\* INV-3: when all is quiet, exactly the published channels are reserved: the
\* lock neither outlives the entry in `states' nor is given up before it.
LockMatchesState ==
    \A c \in Channel :
        Quiet(c) /\ c \notin raced /\ (assigns = 0 \/ c \notin overlapped)
            => (c \in broadcast <=> signer[c] # NoPersona)

\* The broadcast lock does its work: what is being signed is reserved, and
\* what is reserved is published.
LockSound == TypeOK /\ ReservedWhileSigning /\ LockMatchesState

\* No zombie: once the end of a channel was handled its lock is released and no
\* persona of this node shows it as live, unless a reassignment came between
\* or the tasks published it at the same time.
NoZombie ==
    \A c \in Channel :
        Quiet(c) /\ c \notin registry
            => /\ c \notin raced /\ (assigns = 0 \/ c \notin overlapped)
                     => c \notin broadcast
               /\ c \notin overlapped /\ assigns = 0
                     => \A p \in Persona : shown[<<p, c>>].status # "live"

\* An announced channel is published once it has a usable persona, whether or
\* not its notification was lost: the periodic loop makes up for it.
EventuallyPublished ==
    \A c \in Channel :
        (c \in registry /\ CanSign(PersonaForChannel(c)))
            ~> \/ signer[c] # NoPersona
               \/ c \notin registry
               \/ ~CanSign(PersonaForChannel(c))

\* The lock of a channel that ended is released.
EventuallyReleased ==
    \A c \in Channel :
        (c \in broadcast /\ c \notin registry /\ c \notin raced)
            ~> (c \notin broadcast \/ c \in registry \/ c \in raced)

\* "A channel is always removed from the broadcasting set by its end" (INV-3):
\* the code does not keep it when a loop still holds a listing of the channel.
NeverLeftBehind ==
    \A c \in Channel : Quiet(c) /\ c \notin registry => c \notin broadcast
=============================================================================
