------------------------- MODULE PublishEngineProofs ------------------------
(***************************************************************************)
(* Proofs about PublishEngine, for every set of personas, channels,        *)
(* sessions and loops and every bound: the broadcast lock and the persona  *)
(* a channel is signed with.                                               *)
(***************************************************************************)
EXTENDS PublishEngine, FiniteSetTheorems, TLAPS

-----------------------------------------------------------------------------
(***************************************************************************)
(* The inductive invariant.                                                *)
(***************************************************************************)

TaskRecord ==
    [pc : {"idle", "check", "resolve", "retire", "end", "sign",
           "send", "commit", "remove", "release"},
     ch : Channel \union {NoChannel}, ended : BOOLEAN,
     first : BOOLEAN, persona : PersonaOrNone,
     old : PersonaOrNone, at : Nat]

\* Where a task can be, and what it knows there.
FlowOf(k) ==
    /\ k.pc # "idle" => k.ch \in Channel
    /\ k.ended => /\ k.pc \in {"end", "sign", "send", "commit", "remove", "release"}
                  /\ k.old = NoPersona
    /\ ~k.ended => k.pc \notin {"end", "remove"}
    /\ k.pc \in {"check", "resolve", "retire"} => k.old = NoPersona
    /\ k.pc \in {"retire", "sign", "send", "commit"} => k.persona # NoPersona

Flow == \A t \in Task : FlowOf(task[t])

\* Every overlap of two tasks was noted when it began.
Noted == \A c \in Channel : /\ EndRace(c) => c \in raced
                            /\ Overlap(c) => c \in overlapped

\* The channels the lock is accountable for.
Free(c) == c \notin raced /\ (assigns = 0 \/ c \notin overlapped)

Ending(c) == \E t \in Task : Publishes(t, c) /\ task[t].ended
Listing(t, c) == Publishes(t, c) /\ ~task[t].ended
Signing(t, c) == Listing(t, c) /\ task[t].pc \in {"retire", "sign", "send", "commit"}
Releasing(t, c) == Publishes(t, c) /\ task[t].pc = "release"

\* The entry in `states' and the reservation go together, except while a task
\* is between the two.
EntryAt(c) ==
    /\ signer[c] # NoPersona => c \in broadcast \/ Ending(c)
    /\ c \in broadcast /\ signer[c] = NoPersona
          => \E t \in Task : Signing(t, c) \/ Releasing(t, c)

\* What a task that publishes the channel relies on: its first_publish is still
\* true of the entry when it reads the reservation, signs and gives it back.
ReservedBy(t, c) ==
    /\ Signing(t, c) => c \in broadcast
    /\ Releasing(t, c) => signer[c] = NoPersona /\ (task[t].ended \/ assigns # 0)
    /\ Signing(t, c) \/ (Listing(t, c) /\ task[t].pc = "resolve")
          => IF task[t].first
             THEN c \notin overlapped => signer[c] = NoPersona /\ task[t].old = NoPersona
             ELSE signer[c] # NoPersona

ReservedAt(c) == EntryAt(c) /\ \A t \in Task : ReservedBy(t, c)

\* Without assignments a reservation pins the selected persona, ...
LockHeld ==
    assigns = 0 =>
        /\ \A c \in Channel : assigned[c] = NoPersona
        /\ broadcast # {} => selected \in Usable /\ pstate[selected] = "active"

\* ... and whoever signs does so with that one.
SignedBy(t, c) ==
    /\ Signing(t, c) => task[t].persona = selected /\ task[t].old = NoPersona
    /\ /\ Publishes(t, c) /\ task[t].ended /\ task[t].pc \in {"sign", "send", "commit"}
       /\ signer[c] # NoPersona
       => task[t].persona = signer[c]

SignedAt(c) ==
    /\ signer[c] # NoPersona => signer[c] = selected \/ Ending(c)
    /\ \A t \in Task : SignedBy(t, c)

ChannelInv(c) == Free(c) => ReservedAt(c) /\ (assigns = 0 => SignedAt(c))

OwnedFinite == \A s \in Session : IsFiniteSet(owned[s])

EngineInv ==
    /\ TypeOK /\ OwnedFinite
    /\ Flow
    /\ Noted
    /\ LockHeld
    /\ \A c \in Channel : ChannelInv(c)

-----------------------------------------------------------------------------
(***************************************************************************)
(* Personas.                                                               *)
(***************************************************************************)

\* The persona of a channel is one of the node's or none; without assignments
\* it is the selected one.
LEMMA PersonaOfChannel ==
    ASSUME EngineInv, NEW c \in Channel
    PROVE  /\ PersonaForChannel(c) \in PersonaOrNone
           /\ assigns = 0 => PersonaForChannel(c) = Selected
           /\ Selected # NoPersona =>
                 Selected = selected /\ selected \in Usable /\ pstate[selected] = "active"
<1>1. assigned[c] \in Persona \union {NoPersona} /\ selected \in Persona \union {NoPersona}
  BY DEF EngineInv, TypeOK, IdentityTypeOK
<1>2. Selected \in PersonaOrNone
  BY <1>1 DEF Selected, PersonaOrNone
<1>3. PersonaForChannel(c) \in PersonaOrNone
  BY <1>1, <1>2 DEF PersonaForChannel, PersonaOrNone
<1>4. assigns = 0 => PersonaForChannel(c) = Selected
  <2>1. ~Exists(NoPersona)
    BY IdentityAssumption DEF Exists
  <2> QED
    BY <2>1 DEF EngineInv, LockHeld, PersonaForChannel
<1>5. Selected # NoPersona =>
         Selected = selected /\ selected \in Usable /\ pstate[selected] = "active"
  BY DEF Selected
<1> QED
  BY <1>3, <1>4, <1>5

\* A persona request leaves the broadcast lock alone, and a reservation keeps
\* the selected persona selected and active.
LEMMA RequestKeepsLock ==
    ASSUME EngineInv, IdentityNext
    PROVE  /\ IdentityTypeOK' /\ LockHeld' /\ broadcast' = broadcast
           /\ assigns' = 0 => assigns = 0
           /\ broadcast # {} => selected' = selected
<1>1. /\ pstate \in [Persona -> {"absent", "active", "archived", "deleted"}]
      /\ selected \in Persona \union {NoPersona}
      /\ selecting \subseteq Persona
      /\ assigned \in [Channel -> Persona \union {NoPersona}]
      /\ assigns \in 0..MaxAssign
      /\ broadcast \subseteq Channel
      /\ MaxAssign \in Nat
  BY IdentityAssumption DEF EngineInv, TypeOK, IdentityTypeOK
<1>2. assigns = 0 =>
        /\ \A c \in Channel : assigned[c] = NoPersona
        /\ broadcast # {} => selected \in Usable /\ pstate[selected] = "active"
  BY DEF EngineInv, LockHeld
<1>3. ASSUME NEW p \in Persona, Create(p)
      PROVE  IdentityTypeOK' /\ LockHeld'
  BY <1>1, <1>2, <1>3, IdentityAssumption DEF Create, IdentityTypeOK, LockHeld
<1>4. ASSUME NEW p \in Persona, SelectCheck(p)
      PROVE  IdentityTypeOK' /\ LockHeld'
  BY <1>1, <1>2, <1>4 DEF SelectCheck, IdentityTypeOK, LockHeld
<1>5. ASSUME NEW p \in Persona, SelectCommit(p)
      PROVE  IdentityTypeOK' /\ LockHeld' /\ (broadcast # {} => selected' = selected)
  BY <1>1, <1>2, <1>5 DEF SelectCommit, IsBroadcasting, IdentityTypeOK, LockHeld
<1>6. ASSUME NEW p \in Persona, Archive(p)
      PROVE  IdentityTypeOK' /\ LockHeld'
  BY <1>1, <1>2, <1>6, IdentityAssumption DEF Archive, LockedFor, IsBroadcasting, IdentityTypeOK, LockHeld
<1>7. ASSUME NEW p \in Persona, Activate(p)
      PROVE  IdentityTypeOK' /\ LockHeld'
  BY <1>1, <1>2, <1>7, IdentityAssumption DEF Activate, IdentityTypeOK, LockHeld
<1>8. ASSUME NEW p \in Persona, Delete(p)
      PROVE  IdentityTypeOK' /\ LockHeld'
  BY <1>1, <1>2, <1>8, IdentityAssumption DEF Delete, LockedFor, IsBroadcasting, IdentityTypeOK, LockHeld
<1>9. ASSUME NEW c \in Channel, NEW p \in Persona, AssignChannel(c, p)
      PROVE  IdentityTypeOK' /\ LockHeld' /\ assigns' # 0
  BY <1>1, <1>9 DEF AssignChannel, IdentityTypeOK, LockHeld
<1>10. IdentityTypeOK' /\ LockHeld'
  BY <1>3, <1>4, <1>5, <1>6, <1>7, <1>8, <1>9 DEF IdentityNext
<1>11. broadcast' = broadcast /\ (assigns' = 0 => assigns = 0)
  BY <1>9 DEF IdentityNext, Create, SelectCheck, SelectCommit, Archive, Activate, Delete, AssignChannel
<1>12. broadcast # {} => selected' = selected
  BY <1>5 DEF IdentityNext, Create, SelectCheck, Archive, Activate, Delete, AssignChannel
<1> QED
  BY <1>10, <1>11, <1>12

-----------------------------------------------------------------------------
(***************************************************************************)
(* The sessions.                                                           *)
(***************************************************************************)

\* Ending a channel keeps the types of the registry.
LEMMA RegistryEnd ==
    ASSUME RegistryTypeOK, OwnedFinite, NEW s \in Session, NEW c \in Channel, End(s, c)
    PROVE  /\ owned' \in [Session -> SUBSET Channel] /\ OwnedFinite'
           /\ registry' \subseteq Channel
           /\ pending' \in [Session -> Change \union {Nothing}]
           /\ queue' = queue /\ announces' = announces
<1>1. /\ registry \subseteq Channel
      /\ owned \in [Session -> SUBSET Channel]
      /\ pending \in [Session -> Change \union {Nothing}]
  BY DEF RegistryTypeOK
<1>2. [ch |-> c, kind |-> "ended"] \in Change
  BY DEF Change
<1>3. OwnedFinite'
  <2>1. IsFiniteSet(owned[s] \ {c})
    BY FS_RemoveElement DEF OwnedFinite
  <2> QED
    BY <2>1, <1>1 DEF OwnedFinite, End
<1> QED
  BY <1>1, <1>2, <1>3 DEF End

\* The sessions keep the types of the registry.
LEMMA SessionTypes ==
    ASSUME RegistryTypeOK, OwnedFinite, RegistryNext
    PROVE  RegistryTypeOK' /\ OwnedFinite'
<1>1. /\ registry \subseteq Channel
      /\ owned \in [Session -> SUBSET Channel]
      /\ closing \subseteq Session
      /\ pending \in [Session -> Change \union {Nothing}]
      /\ queue \in Seq(Change) /\ Len(queue) <= QueueMax
      /\ announces \in 0..MaxAnnounce
      /\ ends \in 0..MaxEnd
  BY DEF RegistryTypeOK
<1>2. MaxAnnounce \in Nat /\ MaxEnd \in Nat /\ QueueMax \in Nat \ {0}
  BY RegistryAssumption
<1>3. ASSUME NEW s \in Session, NEW c \in Channel, Bcst(s, c)
      PROVE  RegistryTypeOK' /\ OwnedFinite'
  <2>1. [ch |-> c, kind |-> "live"] \in Change
    BY DEF Change
  <2>2. IsFiniteSet(owned[s] \union {c})
    BY FS_AddElement DEF OwnedFinite
  <2>3. OwnedFinite'
    BY <1>1, <1>3, <2>2 DEF OwnedFinite, Bcst
  <2>4. announces' \in 0..MaxAnnounce
    BY <1>1, <1>2, <1>3 DEF Bcst
  <2>5. /\ registry' \subseteq Channel
        /\ owned' \in [Session -> SUBSET Channel]
        /\ pending' \in [Session -> Change \union {Nothing}]
        /\ UNCHANGED <<closing, queue, ends>>
    BY <1>1, <1>3, <2>1 DEF Bcst
  <2> QED
    BY <1>1, <2>3, <2>4, <2>5 DEF RegistryTypeOK
<1>4. ASSUME NEW s \in Session, NEW c \in Channel, BcstStopped(s, c)
      PROVE  RegistryTypeOK' /\ OwnedFinite'
  <2>1. End(s, c) /\ ends' = ends + 1 /\ ends < MaxEnd /\ UNCHANGED closing
    BY <1>4 DEF BcstStopped
  <2>2. ends' \in 0..MaxEnd
    BY <1>1, <1>2, <2>1
  <2> QED
    BY <1>1, <2>1, <2>2, RegistryEnd DEF RegistryTypeOK
<1>5. ASSUME NEW s \in Session, Disconnect(s)
      PROVE  RegistryTypeOK' /\ OwnedFinite'
  <2>1. Cardinality(owned[s]) \in Nat
    BY FS_CardinalityType DEF OwnedFinite
  <2>2. ends' \in 0..MaxEnd
    BY <1>1, <1>2, <1>5, <2>1 DEF Disconnect
  <2> QED
    BY <1>1, <1>5, <2>2 DEF RegistryTypeOK, OwnedFinite, Disconnect
<1>6. ASSUME NEW s \in Session, EndAll(s)
      PROVE  RegistryTypeOK' /\ OwnedFinite'
  <2>1. CASE \E c \in owned[s] : End(s, c) /\ UNCHANGED <<closing, ends>>
    <3>1. PICK c \in Channel : End(s, c) /\ UNCHANGED <<closing, ends>>
      BY <1>1, <2>1
    <3> QED
      BY <1>1, <3>1, RegistryEnd DEF RegistryTypeOK
  <2>2. CASE /\ closing' = closing \ {s}
             /\ UNCHANGED <<registry, owned, pending, queue, announces, ends>>
    BY <1>1, <2>2 DEF RegistryTypeOK, OwnedFinite
  <2> QED
    BY <1>6, <2>1, <2>2 DEF EndAll
<1>7. ASSUME NEW s \in Session, Notify(s)
      PROVE  RegistryTypeOK' /\ OwnedFinite'
  <2>1. pending[s] \in Change /\ queue' = Append(IF Len(queue) = QueueMax THEN Tail(queue) ELSE queue, pending[s])
    BY <1>1, <1>7 DEF Notify
  <2>2. queue' \in Seq(Change) /\ Len(queue') <= QueueMax
    <3>1. CASE Len(queue) = QueueMax
      <4>1. queue # <<>>
        BY <3>1, <1>2
      <4>2. Tail(queue) \in Seq(Change) /\ Len(Tail(queue)) = QueueMax - 1
        BY <4>1, <3>1, <1>1
      <4> QED
        BY <4>2, <3>1, <1>2, <2>1
    <3>2. CASE Len(queue) # QueueMax
      BY <3>2, <1>1, <1>2, <2>1
    <3> QED
      BY <3>1, <3>2
  <2>3. pending' \in [Session -> Change \union {Nothing}] /\ UNCHANGED <<registry, owned, closing, announces, ends>>
    BY <1>1, <1>7 DEF Notify
  <2> QED
    BY <1>1, <2>2, <2>3 DEF RegistryTypeOK, OwnedFinite
<1> QED
  BY <1>3, <1>4, <1>5, <1>6, <1>7 DEF RegistryNext

-----------------------------------------------------------------------------
(***************************************************************************)
(* Steps that leave the tasks alone.                                       *)
(***************************************************************************)

\* What the invariant says of a channel rests on the tasks, the entry, the
\* reservation, the races noted, the selection and the count of assignments.
LEMMA TasksRest ==
    ASSUME EngineInv, UNCHANGED <<signer, task, batch, history, broadcast>>,
           assigns' = 0 => assigns = 0,
           broadcast # {} => selected' = selected
    PROVE  Flow' /\ Noted' /\ \A c \in Channel : ChannelInv(c)'
<1>1. Flow'
  BY DEF EngineInv, Flow, FlowOf
<1>2. /\ \A t \in Task, c \in Channel : /\ Publishes(t, c)' = Publishes(t, c)
                                        /\ Holds(t, c)' = Holds(t, c)
                                        /\ Listing(t, c)' = Listing(t, c)
                                        /\ Signing(t, c)' = Signing(t, c)
                                        /\ Releasing(t, c)' = Releasing(t, c)
      /\ \A c \in Channel : Ending(c)' = Ending(c)
  BY DEF Publishes, Holds, Listing, Signing, Releasing, Ending
<1>3. Noted'
  BY DEF EngineInv, Noted, EndRace, Overlap, Publishes, Holds, history
<1>4. ASSUME NEW c \in Channel, Free(c)' PROVE ReservedAt(c)' /\ (assigns' = 0 => SignedAt(c)')
  <2>1. Free(c)
    BY <1>4 DEF Free, history
  <2>2. ReservedAt(c) /\ (assigns = 0 => SignedAt(c))
    BY <2>1 DEF EngineInv, ChannelInv
  <2>3. ReservedAt(c)'
    BY <1>2, <2>2 DEF ReservedAt, EntryAt, ReservedBy, history
  <2>4. ASSUME assigns' = 0 PROVE SignedAt(c)'
    <3>1. SignedAt(c)
      BY <2>2, <2>4
    <3>2. CASE broadcast # {}
      BY <1>2, <3>1, <3>2 DEF SignedAt, SignedBy
    <3>3. CASE broadcast = {}
      BY <1>2, <2>2, <3>1, <3>3 DEF SignedAt, SignedBy, ReservedAt, EntryAt, ReservedBy
    <3> QED
      BY <3>2, <3>3
  <2> QED
    BY <2>3, <2>4
<1> QED
  BY <1>1, <1>3, <1>4 DEF ChannelInv

\* Persona requests, PCP sessions and the clock keep the invariant.
LEMMA AroundTasks ==
    ASSUME EngineInv, PersonaRequest \/ PcpSession \/ Tick \/ UNCHANGED vars
    PROVE  EngineInv'
<1>1. UNCHANGED <<signer, last, shown, task, batch, history, broadcast>>
  BY RequestKeepsLock DEF PersonaRequest, PcpSession, Tick, vars, engine
<1>2. IdentityTypeOK' /\ LockHeld' /\ (assigns' = 0 => assigns = 0) /\ (broadcast # {} => selected' = selected)
  <2>1. CASE PersonaRequest
    BY <2>1, RequestKeepsLock DEF PersonaRequest
  <2>2. CASE UNCHANGED <<personas, broadcast>>
    BY <2>2 DEF personas, IdentityTypeOK, LockHeld, EngineInv, TypeOK
  <2> QED
    BY <2>1, <2>2 DEF PcpSession, Tick, vars
<1>3. RegistryTypeOK' /\ OwnedFinite'
  <2>1. CASE PcpSession
    BY <2>1, SessionTypes DEF PcpSession, EngineInv, TypeOK
  <2>2. CASE UNCHANGED announced
    BY <2>2 DEF announced, RegistryTypeOK, OwnedFinite, EngineInv, TypeOK
  <2> QED
    BY <2>1, <2>2 DEF PersonaRequest, Tick, vars
<1>4. now' \in 0..MaxClock
  <2>1. now \in 0..MaxClock /\ MaxClock \in Nat
    BY EngineAssumption DEF EngineInv, TypeOK
  <2>2. CASE Tick
    BY <2>1, <2>2 DEF Tick
  <2>3. CASE now' = now
    BY <2>1, <2>3
  <2> QED
    BY <2>2, <2>3 DEF PersonaRequest, PcpSession, vars, engine
<1>5. TypeOK'
  BY <1>1, <1>2, <1>3, <1>4 DEF EngineInv, TypeOK, history
<1> QED
  BY <1>1, <1>2, <1>3, <1>5, TasksRest DEF EngineInv

-----------------------------------------------------------------------------
(***************************************************************************)
(* Steps of the tasks.                                                     *)
(***************************************************************************)

\* Two tasks that publish one channel overlap, and race if one ends it.
LEMMA Exclusive ==
    ASSUME Noted, NEW c \in Channel, NEW t \in Task, NEW u \in Task, t # u,
           Publishes(t, c), Publishes(u, c)
    PROVE  c \in overlapped /\ (task[t].ended => c \in raced)
BY DEF Noted, EndRace, Overlap, Holds

\* A task does not disturb a channel it was not signing or ending and is not
\* about to.
LEMMA Untouched ==
    ASSUME EngineInv, NEW t \in Task, NEW c \in Channel,
           \A u \in Task \ {t} : task'[u] = task[u],
           raced \subseteq raced', overlapped \subseteq overlapped',
           UNCHANGED personas,
           signer'[c] = signer[c], c \in broadcast' <=> c \in broadcast,
           ~Signing(t, c), ~Releasing(t, c), ~(Publishes(t, c) /\ task[t].ended),
           ~Signing(t, c)', ~Releasing(t, c)',
           ~(Listing(t, c)' /\ task'[t].pc = "resolve"),
           ~(Publishes(t, c)' /\ task'[t].ended /\ task'[t].pc # "end")
    PROVE  ChannelInv(c)'
<1> SUFFICES ASSUME Free(c)' PROVE ReservedAt(c)' /\ (assigns' = 0 => SignedAt(c)')
  BY DEF ChannelInv
<1>1. Free(c) /\ assigns' = assigns /\ selected' = selected
  BY DEF Free, personas
<1>2. ReservedAt(c) /\ (assigns = 0 => SignedAt(c))
  BY <1>1 DEF EngineInv, ChannelInv
<1>3. \A u \in Task \ {t} : /\ Publishes(u, c)' = Publishes(u, c)
                            /\ Listing(u, c)' = Listing(u, c)
                            /\ Signing(u, c)' = Signing(u, c)
                            /\ Releasing(u, c)' = Releasing(u, c)
  BY DEF Publishes, Listing, Signing, Releasing
<1>4. Ending(c) => Ending(c)'
  BY <1>3 DEF Ending
<1>5. EntryAt(c)'
  BY <1>2, <1>3, <1>4 DEF ReservedAt, EntryAt
<1>6. ASSUME NEW u \in Task PROVE ReservedBy(u, c)'
  <2>1. CASE u = t
    BY <2>1 DEF ReservedBy
  <2>2. CASE u # t
    BY <1>1, <1>2, <1>3, <2>2 DEF ReservedAt, ReservedBy
  <2> QED
    BY <2>1, <2>2
<1>7. ASSUME assigns = 0 PROVE SignedAt(c)'
  <2>1. ASSUME NEW u \in Task PROVE SignedBy(u, c)'
    <3>1. CASE u = t
      BY <3>1 DEF SignedBy
    <3>2. CASE u # t
      BY <1>1, <1>2, <1>3, <1>7, <3>2 DEF SignedAt, SignedBy
    <3> QED
      BY <3>1, <3>2
  <2> QED
    BY <1>1, <1>2, <1>4, <1>7, <2>1 DEF SignedAt
<1> QED
  BY <1>1, <1>5, <1>6, <1>7 DEF ReservedAt

\* The races that a step begins are noted with it.
LEMMA ObserveNotes ==
    ASSUME EngineInv, Observe
    PROVE  /\ Noted' /\ raced \subseteq raced' /\ overlapped \subseteq overlapped'
           /\ raced' \subseteq overlapped' /\ overlapped' \subseteq Channel
<1>1. raced \subseteq overlapped /\ overlapped \subseteq Channel
  BY DEF EngineInv, TypeOK
<1>2. /\ raced' = raced \union {c \in Channel : EndRace(c)'}
      /\ overlapped' = overlapped \union {c \in Channel : Overlap(c)' \/ EndRace(c)'}
  BY DEF Observe
<1>3. Noted'
  BY <1>2 DEF Noted
<1> QED
  BY <1>1, <1>2, <1>3

\* A step of a publication keeps the invariant if it does so for the channel
\* it publishes and leaves the entries and reservations of others alone.
LEMMA StepKeeps ==
    ASSUME EngineInv, NEW t \in Task, NEW pc, NEW to \in TaskRecord, FlowOf(to),
           Step(t, pc, to), pc # "idle",
           NEW ch \in Channel, task[t].ch = ch, to.ch = ch \/ to.pc = "idle",
           signer' \in [Channel -> PersonaOrNone], last' \in [Channel -> Nat],
           shown' \in [Persona \X Channel -> [at : Nat, status : {"none", "live", "ended"}]],
           broadcast' \subseteq Channel, LockHeld',
           \A c \in Channel \ {ch} :
              signer'[c] = signer[c] /\ (c \in broadcast' <=> c \in broadcast),
           ChannelInv(ch)'
    PROVE  EngineInv'
<1>1. /\ task \in [Task -> TaskRecord] /\ task[t].pc # "idle"
      /\ task' = [task EXCEPT ![t] = to] /\ Observe
      /\ UNCHANGED <<personas, announced, now, batch>>
  BY DEF Step, EngineInv, TypeOK, TaskRecord
<1>2. /\ task' \in [Task -> TaskRecord] /\ task'[t] = to
      /\ \A u \in Task \ {t} : task'[u] = task[u]
  BY <1>1
<1>3. /\ Noted' /\ raced \subseteq raced' /\ overlapped \subseteq overlapped'
      /\ raced' \subseteq overlapped' /\ overlapped' \subseteq Channel
  BY <1>1, ObserveNotes
<1>4. Flow'
  BY <1>2 DEF Flow, EngineInv
<1>5. IdentityTypeOK' /\ RegistryTypeOK' /\ OwnedFinite'
  BY <1>1 DEF EngineInv, TypeOK, OwnedFinite, IdentityTypeOK, RegistryTypeOK, personas, announced
<1>6. TypeOK'
  BY <1>1, <1>2, <1>3, <1>5 DEF TypeOK, TaskRecord, EngineInv
<1>7. ASSUME NEW c \in Channel PROVE ChannelInv(c)'
  <2>1. CASE c = ch
    BY <2>1
  <2>2. CASE c # ch
    <3>1. ~Publishes(t, c) /\ ~Publishes(t, c)'
      BY <1>2, <2>2 DEF Publishes
    <3> QED
      BY <1>1, <1>2, <1>3, <2>2, <3>1, Untouched DEF Signing, Releasing, Listing
  <2> QED
    BY <2>1, <2>2
<1> QED
  BY <1>3, <1>4, <1>5, <1>6, <1>7 DEF EngineInv

\* The bridge and the loops begin a publication, or take a snapshot.
LEMMA BeginKeeps ==
    ASSUME EngineInv, Receive \/ \E t \in Republisher : Snapshot(t) \/ NextListing(t)
    PROVE  EngineInv'
<1>1. UNCHANGED <<personas, broadcast, now, signer, last, shown>> /\ Observe
  BY DEF Receive, Snapshot, NextListing
<1>2. /\ Noted' /\ raced \subseteq raced' /\ overlapped \subseteq overlapped'
      /\ raced' \subseteq overlapped' /\ overlapped' \subseteq Channel
  BY <1>1, ObserveNotes
<1>3. task \in [Task -> TaskRecord] /\ batch \in [Republisher -> SUBSET Channel] /\ registry \subseteq Channel
  BY DEF EngineInv, TypeOK, TaskRecord, RegistryTypeOK
<1>4. Republisher \subseteq Task /\ Bridge \in Task
  BY DEF Task
<1>5. LockHeld' /\ IdentityTypeOK'
  BY <1>1 DEF EngineInv, TypeOK, LockHeld, personas, IdentityTypeOK
<1>6. ASSUME NEW c \in Channel, NEW b \in BOOLEAN
      PROVE  Begin(c, b) \in TaskRecord /\ FlowOf(Begin(c, b))
  <2>1. Idle \in TaskRecord /\ Idle.old = NoPersona
    BY DEF Idle, TaskRecord, PersonaOrNone
  <2>2. Begin(c, b) \in TaskRecord
    BY <2>1 DEF Begin, TaskRecord
  <2>3. /\ Begin(c, b).pc = IF b THEN "end" ELSE "check"
        /\ Begin(c, b).ch = c /\ Begin(c, b).ended = b /\ Begin(c, b).old = NoPersona
    BY <2>1 DEF Begin, TaskRecord
  <2> QED
    BY <2>2, <2>3 DEF FlowOf
<1>7. ASSUME NEW t \in Task, NEW c \in Channel, NEW b \in BOOLEAN, task[t].pc = "idle",
             task' = [task EXCEPT ![t] = Begin(c, b)]
      PROVE  task' \in [Task -> TaskRecord] /\ Flow' /\ \A d \in Channel : ChannelInv(d)'
  <2>1. /\ task'[t] = Begin(c, b) /\ \A u \in Task \ {t} : task'[u] = task[u]
        /\ task' \in [Task -> TaskRecord]
    BY <1>3, <1>6, <1>7
  <2>2. Flow'
    BY <1>6, <2>1 DEF Flow, EngineInv
  <2>3. /\ task'[t].pc = IF b THEN "end" ELSE "check"
        /\ task'[t].ended = b
    BY <2>1 DEF Begin, Idle
  <2>4. ASSUME NEW d \in Channel PROVE ChannelInv(d)'
    <3>1. ~Publishes(t, d)
      BY <1>7 DEF Publishes
    <3>2. ~Signing(t, d)' /\ ~Releasing(t, d)' /\ ~(Listing(t, d)' /\ task'[t].pc = "resolve")
      BY <2>3 DEF Signing, Releasing
    <3>3. ~(Publishes(t, d)' /\ task'[t].ended /\ task'[t].pc # "end")
      BY <2>3
    <3> QED
      BY <1>1, <1>2, <2>1, <3>1, <3>2, <3>3, Untouched DEF Signing, Releasing, Listing
  <2> QED
    BY <2>1, <2>2, <2>4
<1>8. CASE Receive
  <2>1. queue \in Seq(Change) /\ Len(queue) <= QueueMax /\ queue # <<>> /\ QueueMax \in Nat
    BY <1>8, RegistryAssumption DEF Receive, EngineInv, TypeOK, RegistryTypeOK
  <2>2. Head(queue) \in Change
    BY <2>1
  <2>3. Tail(queue) \in Seq(Change) /\ Len(Tail(queue)) = Len(queue) - 1 /\ Len(queue) \in Nat
    BY <2>1
  <2>4. queue' \in Seq(Change) /\ Len(queue') <= QueueMax
    <3>1. queue' = Tail(queue)
      BY <1>8 DEF Receive
    <3> QED
      BY <2>1, <2>3, <3>1
  <2>5. Head(queue).ch \in Channel /\ (Head(queue).kind = "ended") \in BOOLEAN
    BY <2>2 DEF Change
  <2>6. task[Bridge].pc = "idle" /\ task' = [task EXCEPT ![Bridge] = Begin(Head(queue).ch, Head(queue).kind = "ended")]
    BY <1>8 DEF Receive
  <2>7. task' \in [Task -> TaskRecord] /\ Flow' /\ \A d \in Channel : ChannelInv(d)'
    BY <1>4, <1>7, <2>5, <2>6
  <2>8. RegistryTypeOK' /\ OwnedFinite'
    BY <1>8, <2>4 DEF Receive, EngineInv, TypeOK, RegistryTypeOK, OwnedFinite
  <2>9. TypeOK'
    BY <1>1, <1>2, <1>5, <1>8, <2>7, <2>8 DEF Receive, TypeOK, EngineInv, TaskRecord
  <2> QED
    BY <1>2, <1>5, <2>7, <2>8, <2>9 DEF EngineInv
<1>9. ASSUME NEW t \in Republisher, NextListing(t) PROVE EngineInv'
  <2>1. PICK c \in batch[t] : /\ batch' = [batch EXCEPT ![t] = @ \ {c}]
                              /\ task' = [task EXCEPT ![t] = Begin(c, FALSE)]
    BY <1>9 DEF NextListing
  <2>2. c \in Channel /\ batch' \in [Republisher -> SUBSET Channel]
    BY <1>3, <2>1
  <2>3. task' \in [Task -> TaskRecord] /\ Flow' /\ \A d \in Channel : ChannelInv(d)'
    BY <1>4, <1>7, <1>9, <2>1, <2>2 DEF NextListing
  <2>4. RegistryTypeOK' /\ OwnedFinite'
    BY <1>9 DEF NextListing, announced, EngineInv, TypeOK, RegistryTypeOK, OwnedFinite
  <2>5. TypeOK'
    BY <1>1, <1>2, <1>5, <2>2, <2>3, <2>4 DEF TypeOK, EngineInv, TaskRecord
  <2> QED
    BY <1>2, <1>5, <2>3, <2>4, <2>5 DEF EngineInv
<1>10. ASSUME NEW t \in Republisher, Snapshot(t) PROVE EngineInv'
  <2>1. batch' = [batch EXCEPT ![t] = registry] /\ task' = task /\ task[t].pc = "idle" /\ UNCHANGED announced
    BY <1>10 DEF Snapshot
  <2>2. batch' \in [Republisher -> SUBSET Channel]
    BY <1>3, <2>1
  <2>3. Flow'
    BY <2>1 DEF Flow, EngineInv
  <2>4. ASSUME NEW d \in Channel PROVE ChannelInv(d)'
    <3>1. ~Publishes(t, d) /\ ~Publishes(t, d)'
      BY <2>1 DEF Publishes
    <3> QED
      BY <1>1, <1>2, <1>4, <2>1, <3>1, Untouched DEF Signing, Releasing, Listing
  <2>5. RegistryTypeOK' /\ OwnedFinite'
    BY <2>1 DEF announced, EngineInv, TypeOK, RegistryTypeOK, OwnedFinite
  <2>6. TypeOK'
    BY <1>1, <1>2, <1>5, <2>1, <2>2, <2>5 DEF TypeOK, EngineInv
  <2> QED
    BY <1>2, <1>5, <2>3, <2>4, <2>5, <2>6 DEF EngineInv
<1> QED
  BY <1>8, <1>9, <1>10

\* What a step that leaves the entry of its channel alone has to show.
LEMMA OwnChannel ==
    ASSUME EngineInv, NEW t \in Task, NEW c \in Channel,
           \A u \in Task \ {t} : task'[u] = task[u],
           raced \subseteq raced', overlapped \subseteq overlapped',
           UNCHANGED personas,
           signer'[c] = signer[c], c \in broadcast => c \in broadcast',
           Free(c)' =>
              /\ c \in broadcast' /\ signer[c] = NoPersona =>
                    \/ c \in broadcast /\ ~Signing(t, c) /\ ~Releasing(t, c)
                    \/ Signing(t, c)' \/ Releasing(t, c)'
              /\ Publishes(t, c) /\ task[t].ended => Publishes(t, c)' /\ task'[t].ended
              /\ ReservedBy(t, c)'
              /\ assigns = 0 => SignedBy(t, c)'
    PROVE  ChannelInv(c)'
<1> SUFFICES ASSUME Free(c)' PROVE ReservedAt(c)' /\ (assigns' = 0 => SignedAt(c)')
  BY DEF ChannelInv
<1>1. Free(c) /\ assigns' = assigns /\ selected' = selected
  BY DEF Free, personas
<1>2. ReservedAt(c) /\ (assigns = 0 => SignedAt(c))
  BY <1>1 DEF EngineInv, ChannelInv
<1>3. \A u \in Task \ {t} : /\ Publishes(u, c)' = Publishes(u, c)
                            /\ Listing(u, c)' = Listing(u, c)
                            /\ Signing(u, c)' = Signing(u, c)
                            /\ Releasing(u, c)' = Releasing(u, c)
  BY DEF Publishes, Listing, Signing, Releasing
<1>4. Ending(c) => Ending(c)'
  BY <1>3 DEF Ending
<1>5. EntryAt(c)'
  BY <1>2, <1>3, <1>4 DEF ReservedAt, EntryAt
<1>6. ASSUME NEW u \in Task PROVE ReservedBy(u, c)'
  <2>1. CASE u = t
    BY <2>1
  <2>2. CASE u # t
    BY <1>1, <1>2, <1>3, <2>2 DEF ReservedAt, ReservedBy
  <2> QED
    BY <2>1, <2>2
<1>7. ASSUME assigns = 0 PROVE SignedAt(c)'
  <2>1. ASSUME NEW u \in Task PROVE SignedBy(u, c)'
    <3>1. CASE u = t
      BY <1>7, <3>1
    <3>2. CASE u # t
      BY <1>1, <1>2, <1>3, <1>7, <3>2 DEF SignedAt, SignedBy
    <3> QED
      BY <3>1, <3>2
  <2> QED
    BY <1>1, <1>2, <1>4, <1>7, <2>1 DEF SignedAt
<1> QED
  BY <1>1, <1>5, <1>6, <1>7 DEF ReservedAt

\* What a publication knows at any of its steps.
LEMMA AtStep ==
    ASSUME EngineInv, NEW t \in Task, task[t].pc # "idle"
    PROVE  /\ task[t] \in TaskRecord /\ FlowOf(task[t]) /\ task[t].ch \in Channel
           /\ Publishes(t, task[t].ch)
           /\ signer \in [Channel -> PersonaOrNone] /\ last \in [Channel -> Nat]
           /\ shown \in [Persona \X Channel -> [at : Nat, status : {"none", "live", "ended"}]]
           /\ broadcast \subseteq Channel
BY DEF EngineInv, TypeOK, TaskRecord, Flow, FlowOf, Publishes, IdentityTypeOK

\* The task that moves is the only one that does.
LEMMA StepMoves ==
    ASSUME EngineInv, NEW t \in Task, NEW pc, NEW to, Step(t, pc, to)
    PROVE  /\ task[t].pc = pc /\ task'[t] = to
           /\ \A u \in Task \ {t} : task'[u] = task[u]
           /\ UNCHANGED personas
           /\ Noted' /\ raced \subseteq raced' /\ overlapped \subseteq overlapped'
<1>1. task \in [Task -> TaskRecord]
  BY DEF EngineInv, TypeOK, TaskRecord
<1> QED
  BY <1>1, ObserveNotes DEF Step

\* The lock stays held when nothing is reserved and no persona changes.
LEMMA LockStays ==
    ASSUME EngineInv, UNCHANGED personas, broadcast' \subseteq broadcast
    PROVE  LockHeld'
BY DEF EngineInv, LockHeld, personas

\* first_publish is looked up.
LEMMA CheckKeeps ==
    ASSUME EngineInv, NEW t \in Task, Check(t)
    PROVE  EngineInv'
<1>0. PICK c \in Channel : task[t].ch = c
  BY AtStep DEF Check, Step
<1> DEFINE to == [At(t, "resolve") EXCEPT !.first = signer[c] = NoPersona]
<1>1. Step(t, "check", to) /\ UNCHANGED <<broadcast, signer, last, shown>>
  BY <1>0 DEF Check
<1>2. /\ task[t].pc = "check" /\ task'[t] = to
      /\ \A u \in Task \ {t} : task'[u] = task[u]
      /\ UNCHANGED personas
      /\ Noted' /\ raced \subseteq raced' /\ overlapped \subseteq overlapped'
  BY <1>1, StepMoves
<1>3. /\ task[t] \in TaskRecord /\ FlowOf(task[t]) /\ c \in Channel
      /\ Publishes(t, c)
      /\ signer \in [Channel -> PersonaOrNone] /\ last \in [Channel -> Nat]
      /\ shown \in [Persona \X Channel -> [at : Nat, status : {"none", "live", "ended"}]]
      /\ broadcast \subseteq Channel
  BY <1>0, <1>2, AtStep
<1>4. /\ to \in TaskRecord /\ to.pc = "resolve" /\ to.ch = c /\ to.ended = task[t].ended
      /\ to.first = (signer[c] = NoPersona) /\ to.old = task[t].old
  BY <1>0, <1>3 DEF At, TaskRecord
<1>5. ~task[t].ended /\ task[t].old = NoPersona
  BY <1>2, <1>3 DEF FlowOf
<1> HIDE DEF to
<1>6. FlowOf(to)
  BY <1>3, <1>4, <1>5 DEF FlowOf
<1>7. ReservedBy(t, c)' /\ SignedBy(t, c)'
  BY <1>1, <1>2, <1>4, <1>5 DEF ReservedBy, SignedBy, Signing, Releasing, Listing, Publishes
<1>8. ~Signing(t, c) /\ ~Releasing(t, c)
  BY <1>2 DEF Signing, Releasing
<1>9. ChannelInv(c)'
  BY <1>1, <1>2, <1>3, <1>5, <1>7, <1>8, OwnChannel
<1>10. LockHeld'
  BY <1>1, <1>2, LockStays
<1> QED
  BY <1>1, <1>3, <1>4, <1>6, <1>9, <1>10, <1>0, StepKeeps

\* The persona is read and the channel reserved.
LEMMA ResolveKeeps ==
    ASSUME EngineInv, NEW t \in Task, Resolve(t)
    PROVE  EngineInv'
<1>0. PICK c \in Channel : task[t].ch = c
  BY AtStep DEF Resolve, Step
<1> DEFINE p == PersonaForChannel(c)
           to == IF p = NoPersona THEN Idle ELSE [At(t, "retire") EXCEPT !.persona = p]
<1>1. /\ Step(t, "resolve", to) /\ UNCHANGED <<signer, last, shown>>
      /\ IF task[t].first THEN Reserve(c) ELSE UNCHANGED broadcast
  BY <1>0 DEF Resolve
<1>2. /\ task[t].pc = "resolve" /\ task'[t] = to
      /\ \A u \in Task \ {t} : task'[u] = task[u]
      /\ UNCHANGED personas
      /\ Noted' /\ raced \subseteq raced' /\ overlapped \subseteq overlapped'
  BY <1>1, StepMoves
<1>3. /\ task[t] \in TaskRecord /\ FlowOf(task[t]) /\ c \in Channel
      /\ Publishes(t, c)
      /\ signer \in [Channel -> PersonaOrNone] /\ last \in [Channel -> Nat]
      /\ shown \in [Persona \X Channel -> [at : Nat, status : {"none", "live", "ended"}]]
      /\ broadcast \subseteq Channel
  BY <1>0, <1>2, AtStep
<1>4. /\ p \in PersonaOrNone
      /\ assigns = 0 => p = Selected
      /\ Selected # NoPersona =>
            Selected = selected /\ selected \in Usable /\ pstate[selected] = "active"
  BY <1>3, PersonaOfChannel
<1>5. ~task[t].ended /\ task[t].old = NoPersona
  BY <1>2, <1>3 DEF FlowOf
<1>6. to \in TaskRecord
  <2>1. Idle \in TaskRecord
    BY DEF Idle, TaskRecord, PersonaOrNone
  <2>2. [At(t, "retire") EXCEPT !.persona = p] \in TaskRecord
    BY <1>3, <1>4 DEF At, TaskRecord
  <2> QED
    BY <2>1, <2>2
<1>7. /\ p = NoPersona => to.pc = "idle" /\ ~to.ended
      /\ p # NoPersona => /\ to.pc = "retire" /\ to.ch = c /\ ~to.ended /\ to.persona = p
                          /\ to.old = NoPersona /\ to.first = task[t].first
  BY <1>0, <1>3, <1>5 DEF At, Idle, TaskRecord
<1>8. /\ broadcast' \subseteq broadcast \union {c}
      /\ broadcast \subseteq broadcast'
      /\ p = NoPersona => broadcast' = broadcast
      /\ p # NoPersona /\ task[t].first => c \in broadcast'
      /\ ~task[t].first => broadcast' = broadcast
  BY <1>1 DEF Reserve
<1> HIDE DEF to, p
<1>9. FlowOf(to)
  BY <1>3, <1>7 DEF FlowOf
<1>10. ASSUME Free(c)' PROVE p # NoPersona => c \in broadcast'
  <2>1. Free(c)
    BY <1>2, <1>10 DEF Free, personas
  <2>2. ReservedBy(t, c) /\ EntryAt(c)
    BY <1>3, <2>1 DEF EngineInv, ChannelInv, ReservedAt
  <2>3. CASE ~task[t].first
    <3>1. signer[c] # NoPersona
      BY <1>2, <1>3, <1>5, <2>2, <2>3 DEF ReservedBy, Listing
    <3>2. ~Ending(c)
      <4>1. ASSUME NEW u \in Task, Publishes(u, c), task[u].ended PROVE FALSE
        BY <1>3, <1>5, <2>1, <4>1, Exclusive DEF EngineInv, Free
      <4> QED
        BY <4>1 DEF Ending
    <3> QED
      BY <1>8, <2>2, <3>1, <3>2 DEF EntryAt
  <2> QED
    BY <1>8, <2>3
<1>11. ASSUME Free(c)' PROVE ReservedBy(t, c)'
  <2>1. Free(c)
    BY <1>2, <1>11 DEF Free, personas
  <2>2. ReservedBy(t, c)
    BY <1>3, <2>1 DEF EngineInv, ChannelInv, ReservedAt
  <2>3. CASE p = NoPersona
    BY <1>2, <1>7, <2>3 DEF ReservedBy, Signing, Releasing, Listing, Publishes
  <2>4. CASE p # NoPersona
    <3>1. /\ task[t].first => (c \notin overlapped => signer[c] = NoPersona)
          /\ ~task[t].first => signer[c] # NoPersona
      BY <1>2, <1>3, <1>5, <2>2 DEF ReservedBy, Listing
    <3>2. Signing(t, c)' /\ ~Releasing(t, c)' /\ c \in broadcast'
      BY <1>2, <1>7, <1>10, <1>11, <2>4 DEF Signing, Releasing, Listing, Publishes
    <3>3. task'[t].first = task[t].first /\ task'[t].old = NoPersona
      BY <1>2, <1>7, <2>4
    <3> QED
      BY <1>1, <1>2, <3>1, <3>2, <3>3 DEF ReservedBy
  <2> QED
    BY <2>3, <2>4
<1>12. ASSUME assigns = 0 PROVE SignedBy(t, c)'
  <2>1. CASE p = NoPersona
    BY <1>2, <1>7, <2>1 DEF SignedBy, Signing, Listing, Publishes
  <2>2. CASE p # NoPersona
    BY <1>2, <1>4, <1>7, <1>12, <2>2 DEF SignedBy, personas
  <2> QED
    BY <2>1, <2>2
<1>13. c \in broadcast' /\ signer[c] = NoPersona =>
          \/ c \in broadcast /\ ~Signing(t, c) /\ ~Releasing(t, c)
          \/ Signing(t, c)'
  <2>1. ~Signing(t, c) /\ ~Releasing(t, c)
    BY <1>2 DEF Signing, Releasing
  <2>2. p # NoPersona => Signing(t, c)'
    BY <1>2, <1>7 DEF Signing, Listing, Publishes
  <2> QED
    BY <1>8, <2>1, <2>2
<1>14. ChannelInv(c)'
  BY <1>1, <1>2, <1>3, <1>5, <1>8, <1>11, <1>12, <1>13, OwnChannel
<1>15. LockHeld'
  <2>1. CASE p = NoPersona
    BY <1>2, <1>8, <2>1, LockStays
  <2>2. CASE p # NoPersona
    BY <1>2, <1>4, <2>2 DEF EngineInv, LockHeld, personas
  <2> QED
    BY <2>1, <2>2
<1>16. broadcast' \subseteq Channel /\ \A d \in Channel \ {c} : d \in broadcast' <=> d \in broadcast
  BY <1>3, <1>8
<1>17. to.ch = c \/ to.pc = "idle"
  BY <1>7
<1>18. /\ signer' \in [Channel -> PersonaOrNone] /\ last' \in [Channel -> Nat]
       /\ shown' \in [Persona \X Channel -> [at : Nat, status : {"none", "live", "ended"}]]
       /\ \A d \in Channel : signer'[d] = signer[d]
  BY <1>1, <1>3
<1> QED
  BY <1>1, <1>3, <1>6, <1>9, <1>14, <1>15, <1>16, <1>17, <1>18, <1>0, StepKeeps

\* All of the above, and what the invariant says of the task's own channel.
StepContext(t, c, pc, to) ==
    /\ task[t].pc = pc /\ task'[t] = to
    /\ \A u \in Task \ {t} : task'[u] = task[u]
    /\ UNCHANGED personas /\ assigns' = assigns /\ selected' = selected
    /\ Noted' /\ raced \subseteq raced' /\ overlapped \subseteq overlapped'
    /\ task[t] \in TaskRecord /\ FlowOf(task[t]) /\ Publishes(t, c)
    /\ signer \in [Channel -> PersonaOrNone] /\ last \in [Channel -> Nat]
    /\ shown \in [Persona \X Channel -> [at : Nat, status : {"none", "live", "ended"}]]
    /\ broadcast \subseteq Channel
    /\ Free(c)' => /\ Free(c) /\ ReservedAt(c) /\ ReservedBy(t, c)
                   /\ assigns = 0 => SignedAt(c) /\ SignedBy(t, c)

\* Every step of a publication has this context.
LEMMA StepFacts ==
    ASSUME EngineInv, NEW t \in Task, NEW c \in Channel, task[t].ch = c,
           NEW pc, pc # "idle", NEW to, Step(t, pc, to)
    PROVE  StepContext(t, c, pc, to)
<1>1. /\ task[t].pc = pc /\ task'[t] = to
      /\ \A u \in Task \ {t} : task'[u] = task[u]
      /\ UNCHANGED personas
      /\ Noted' /\ raced \subseteq raced' /\ overlapped \subseteq overlapped'
  BY StepMoves
<1>2. assigns' = assigns /\ selected' = selected
  BY <1>1 DEF personas
<1>3. ASSUME Free(c)'
      PROVE  /\ Free(c) /\ ReservedAt(c) /\ ReservedBy(t, c)
             /\ assigns = 0 => SignedAt(c) /\ SignedBy(t, c)
  <2>1. Free(c)
    BY <1>1, <1>2, <1>3 DEF Free
  <2> QED
    BY <2>1 DEF EngineInv, ChannelInv, ReservedAt, SignedAt
<1> QED
  BY <1>1, <1>2, <1>3, AtStep DEF StepContext

\* The previous persona is found.
LEMMA RetireKeeps ==
    ASSUME EngineInv, NEW t \in Task, Retire(t)
    PROVE  EngineInv'
<1>0. PICK c \in Channel : task[t].ch = c
  BY AtStep DEF Retire, Step
<1> DEFINE prev == signer[c]
           to == [At(t, "sign") EXCEPT !.old = IF prev = task[t].persona THEN NoPersona ELSE prev]
<1>1. Step(t, "retire", to) /\ UNCHANGED <<broadcast, signer, last, shown>>
  BY <1>0 DEF Retire
<1> HIDE DEF to, prev
<1>2. StepContext(t, c, "retire", to)
  BY <1>0, <1>1, StepFacts
<1> USE DEF StepContext
<1>a. prev = signer[c] /\ prev \in PersonaOrNone /\ NoPersona \in PersonaOrNone
  BY <1>2 DEF prev, PersonaOrNone
<1>3. /\ to \in TaskRecord /\ to.pc = "sign" /\ to.ch = c /\ to.ended = task[t].ended
      /\ to.first = task[t].first /\ to.persona = task[t].persona
      /\ to.old = IF prev = task[t].persona THEN NoPersona ELSE prev
  BY <1>0, <1>2, <1>a DEF to, At, TaskRecord
<1>4. ~task[t].ended /\ task[t].persona # NoPersona
  BY <1>2 DEF FlowOf
<1>5. FlowOf(to)
  BY <1>3, <1>4 DEF FlowOf
<1>6. Signing(t, c) /\ Signing(t, c)' /\ ~Releasing(t, c)'
  BY <1>2, <1>3, <1>4 DEF Signing, Releasing, Listing, Publishes
<1>7. ASSUME Free(c)' PROVE ReservedBy(t, c)'
  <2>1. ReservedBy(t, c)
    BY <1>2, <1>7
  <2>2. /\ c \in broadcast
        /\ IF task[t].first THEN c \notin overlapped => signer[c] = NoPersona ELSE signer[c] # NoPersona
    BY <1>6, <2>1 DEF ReservedBy
  <2>3. task'[t].first = task[t].first /\ (signer[c] = NoPersona => task'[t].old = NoPersona)
    BY <1>2, <1>3, <1>a
  <2> QED
    BY <1>1, <1>2, <1>6, <2>2, <2>3 DEF ReservedBy
<1>8. ASSUME Free(c)', assigns = 0 PROVE SignedBy(t, c)'
  <2>1. /\ task[t].persona = selected
        /\ signer[c] # NoPersona => signer[c] = selected \/ Ending(c)
    BY <1>2, <1>6, <1>8 DEF SignedAt, SignedBy
  <2>2. ~Ending(c)
    <3>1. ASSUME NEW u \in Task, Publishes(u, c), task[u].ended PROVE FALSE
      BY <1>2, <1>4, <1>8, <3>1, Exclusive DEF EngineInv, Free
    <3> QED
      BY <3>1 DEF Ending
  <2>3. task'[t].persona = selected /\ task'[t].old = NoPersona /\ ~task'[t].ended
    BY <1>2, <1>3, <1>4, <1>a, <2>1, <2>2
  <2> QED
    BY <1>2, <2>3 DEF SignedBy
<1>9. ChannelInv(c)'
  BY <1>1, <1>2, <1>4, <1>6, <1>7, <1>8, OwnChannel
<1>10. LockHeld'
  BY <1>1, <1>2, LockStays
<1> QED
  BY <1>0, <1>1, <1>2, <1>3, <1>5, <1>9, <1>10, StepKeeps

\* publish_ended finds the persona that signs.
LEMMA BeginEndKeeps ==
    ASSUME EngineInv, NEW t \in Task, BeginEnd(t)
    PROVE  EngineInv'
<1>0. PICK c \in Channel : task[t].ch = c
  BY AtStep DEF BeginEnd, Step
<1> DEFINE p == IF signer[c] # NoPersona THEN signer[c] ELSE PersonaForChannel(c)
           to == IF p = NoPersona THEN At(t, "remove") ELSE [At(t, "sign") EXCEPT !.persona = p]
<1>1. Step(t, "end", to) /\ UNCHANGED <<broadcast, signer, last, shown>>
  BY <1>0 DEF BeginEnd
<1> HIDE DEF to, p
<1>2. StepContext(t, c, "end", to)
  BY <1>0, <1>1, StepFacts
<1> USE DEF StepContext
<1>3. p \in PersonaOrNone
  BY <1>2, PersonaOfChannel DEF p
<1>4. task[t].ended /\ task[t].old = NoPersona
  BY <1>2 DEF FlowOf
<1>5. /\ to \in TaskRecord /\ to.ch = c /\ to.ended /\ to.old = NoPersona
      /\ p = NoPersona => to.pc = "remove"
      /\ p # NoPersona => to.pc = "sign" /\ to.persona = p
  BY <1>0, <1>2, <1>3, <1>4 DEF to, At, TaskRecord
<1>6. signer[c] # NoPersona => p = signer[c]
  BY DEF p
<1>7. FlowOf(to)
  BY <1>5 DEF FlowOf
<1>8. Publishes(t, c)' /\ task'[t].ended
  BY <1>2, <1>5 DEF Publishes
<1>9. ReservedBy(t, c)' /\ SignedBy(t, c)'
  BY <1>1, <1>2, <1>5, <1>6 DEF ReservedBy, SignedBy, Signing, Releasing, Listing, Publishes
<1>10. ~Signing(t, c) /\ ~Releasing(t, c)
  BY <1>2 DEF Signing, Releasing
<1>11. ChannelInv(c)'
  BY <1>1, <1>2, <1>8, <1>9, <1>10, OwnChannel
<1>12. LockHeld'
  BY <1>1, <1>2, LockStays
<1> QED
  BY <1>0, <1>1, <1>2, <1>5, <1>7, <1>11, <1>12, StepKeeps

\* What follows a signature: the old persona's turn is over, or the
\* publication moves to its clean-up, or it is done.
LEMMA AfterCases ==
    ASSUME NEW t \in Task, task[t] \in TaskRecord, FlowOf(task[t]),
           task[t].pc \in {"sign", "commit"}, NEW ok \in BOOLEAN
    PROVE  /\ After(t, ok) \in TaskRecord /\ FlowOf(After(t, ok))
           /\ After(t, ok).ch = task[t].ch \/ After(t, ok) = Idle
           /\ Retiring(t) =>
                 /\ After(t, ok).pc = "sign" /\ After(t, ok).old = NoPersona
                 /\ After(t, ok).ch = task[t].ch /\ ~After(t, ok).ended
                 /\ After(t, ok).first = task[t].first /\ After(t, ok).persona = task[t].persona
           /\ ~Retiring(t) /\ task[t].ended =>
                 /\ After(t, ok).pc = "remove" /\ After(t, ok).ended
                 /\ After(t, ok).ch = task[t].ch
           /\ ~Retiring(t) /\ ~task[t].ended /\ ~ok /\ task[t].first =>
                 /\ After(t, ok).pc = "release" /\ ~After(t, ok).ended
                 /\ After(t, ok).ch = task[t].ch
           /\ ~Retiring(t) /\ ~task[t].ended /\ (ok \/ ~task[t].first) =>
                 After(t, ok).pc = "idle" /\ ~After(t, ok).ended
<1>1. Idle \in TaskRecord /\ FlowOf(Idle) /\ Idle.pc = "idle" /\ ~Idle.ended
  BY DEF Idle, TaskRecord, PersonaOrNone, FlowOf
<1>2. NoPersona \in PersonaOrNone /\ (Retiring(t) => ~task[t].ended)
  BY DEF PersonaOrNone, FlowOf, Retiring
<1>3. CASE Retiring(t)
  <2>1. After(t, ok) = [At(t, "sign") EXCEPT !.old = NoPersona, !.at = 0]
    BY <1>3 DEF After
  <2>2. /\ After(t, ok) \in TaskRecord
        /\ After(t, ok).pc = "sign" /\ After(t, ok).old = NoPersona
        /\ After(t, ok).ch = task[t].ch /\ After(t, ok).ended = task[t].ended
        /\ After(t, ok).first = task[t].first /\ After(t, ok).persona = task[t].persona
    <3>1. /\ At(t, "sign") \in TaskRecord /\ At(t, "sign").pc = "sign"
          /\ At(t, "sign").ch = task[t].ch /\ At(t, "sign").ended = task[t].ended
          /\ At(t, "sign").first = task[t].first /\ At(t, "sign").persona = task[t].persona
      BY DEF At, TaskRecord
    <3> DEFINE k == At(t, "sign")
               half == [k EXCEPT !.old = NoPersona]
    <3> HIDE DEF k
    <3>2. /\ half \in TaskRecord /\ half.pc = k.pc /\ half.ch = k.ch /\ half.ended = k.ended
          /\ half.first = k.first /\ half.persona = k.persona /\ half.old = NoPersona
      BY <1>2, <3>1 DEF TaskRecord, k
    <3> HIDE DEF half
    <3>3. After(t, ok) = [half EXCEPT !.at = 0]
      BY <2>1 DEF half, k
    <3>4. /\ After(t, ok) \in TaskRecord
          /\ After(t, ok).pc = half.pc /\ After(t, ok).old = half.old
          /\ After(t, ok).ch = half.ch /\ After(t, ok).ended = half.ended
          /\ After(t, ok).first = half.first /\ After(t, ok).persona = half.persona
      BY <3>2, <3>3 DEF TaskRecord
    <3> QED
      BY <3>1, <3>2, <3>4 DEF k
  <2>3. FlowOf(After(t, ok))
    BY <1>2, <1>3, <2>2 DEF FlowOf
  <2> QED
    BY <1>2, <1>3, <2>2, <2>3
<1>4. CASE ~Retiring(t) /\ task[t].ended
  <2>1. After(t, ok) = At(t, "remove")
    BY <1>4 DEF After
  <2>2. /\ After(t, ok) \in TaskRecord
        /\ After(t, ok).pc = "remove" /\ After(t, ok).old = task[t].old
        /\ After(t, ok).ch = task[t].ch /\ After(t, ok).ended
    BY <1>4, <2>1 DEF At, TaskRecord
  <2>3. FlowOf(After(t, ok))
    BY <1>4, <2>2 DEF FlowOf
  <2> QED
    BY <1>4, <2>2, <2>3
<1>5. CASE ~Retiring(t) /\ ~task[t].ended /\ ~ok /\ task[t].first
  <2>1. After(t, ok) = At(t, "release")
    BY <1>5 DEF After
  <2>2. /\ After(t, ok) \in TaskRecord
        /\ After(t, ok).pc = "release" /\ After(t, ok).old = task[t].old
        /\ After(t, ok).ch = task[t].ch /\ After(t, ok).ended = task[t].ended
    BY <1>5, <2>1 DEF At, TaskRecord
  <2>3. FlowOf(After(t, ok))
    BY <1>5, <2>2 DEF FlowOf
  <2> QED
    BY <1>5, <2>2, <2>3
<1>6. CASE ~Retiring(t) /\ ~task[t].ended /\ (ok \/ ~task[t].first)
  <2>1. After(t, ok) = Idle
    BY <1>6 DEF After
  <2> QED
    BY <1>1, <1>6, <2>1
<1> QED
  BY <1>3, <1>4, <1>5, <1>6

\* The key signs, or fails to: with assignments the reservation of a first
\* publication is given back, without them a reserved persona's key is there.
LEMMA SignKeeps ==
    ASSUME EngineInv, NEW t \in Task, Sign(t)
    PROVE  EngineInv'
<1>0. PICK c \in Channel : task[t].ch = c
  BY AtStep DEF Sign, Step
<1> DEFINE to == IF CanSign(Author(t)) THEN [At(t, "send") EXCEPT !.at = CreatedAt(c)]
                 ELSE After(t, FALSE)
<1>1. Step(t, "sign", to) /\ UNCHANGED <<broadcast, signer, last, shown>>
  BY <1>0 DEF Sign
<1> HIDE DEF to
<1>2. StepContext(t, c, "sign", to)
  BY <1>0, <1>1, StepFacts
<1> USE DEF StepContext
<1>3. LockHeld'
  BY <1>1, <1>2, LockStays
<1>4. CASE CanSign(Author(t))
  <2>1. CreatedAt(c) \in Nat
    <3>1. now \in Nat /\ last[c] \in Nat
      BY <1>2, EngineAssumption DEF EngineInv, TypeOK
    <3> QED
      BY <3>1 DEF CreatedAt
  <2>2. /\ to \in TaskRecord /\ to.pc = "send" /\ to.ch = c /\ to.ended = task[t].ended
        /\ to.first = task[t].first /\ to.persona = task[t].persona /\ to.old = task[t].old
    BY <1>0, <1>2, <1>4, <2>1 DEF to, At, TaskRecord
  <2>3. FlowOf(to)
    BY <1>2, <2>2 DEF FlowOf
  <2>4. Signing(t, c)' = Signing(t, c) /\ ~Releasing(t, c)' /\ ~Releasing(t, c) /\ Publishes(t, c)'
    BY <1>2, <2>2 DEF Signing, Releasing, Listing, Publishes
  <2>5. ASSUME Free(c)' PROVE ReservedBy(t, c)'
    <3>1. ReservedBy(t, c)
      BY <1>2, <2>5
    <3> QED
      BY <1>1, <1>2, <2>2, <2>4, <3>1 DEF ReservedBy
  <2>6. ASSUME Free(c)', assigns = 0 PROVE SignedBy(t, c)'
    <3>1. SignedBy(t, c)
      BY <1>2, <2>6
    <3> QED
      BY <1>1, <1>2, <2>2, <2>4, <3>1 DEF SignedBy
  <2>7. ChannelInv(c)'
    BY <1>1, <1>2, <2>2, <2>4, <2>5, <2>6, OwnChannel
  <2> QED
    BY <1>0, <1>1, <1>2, <1>3, <2>2, <2>3, <2>7, StepKeeps
<1>5. CASE ~CanSign(Author(t))
  <2>0. to = After(t, FALSE)
    BY <1>5 DEF to
  <2>1. /\ to \in TaskRecord /\ FlowOf(to)
        /\ to.ch = c \/ to.pc = "idle"
        /\ Retiring(t) =>
              /\ to.pc = "sign" /\ to.old = NoPersona /\ to.ch = c /\ ~to.ended
              /\ to.first = task[t].first /\ to.persona = task[t].persona
        /\ ~Retiring(t) /\ task[t].ended => to.pc = "remove" /\ to.ended /\ to.ch = c
        /\ ~Retiring(t) /\ ~task[t].ended /\ task[t].first =>
              to.pc = "release" /\ ~to.ended /\ to.ch = c
        /\ ~Retiring(t) /\ ~task[t].ended /\ ~task[t].first => to.pc = "idle" /\ ~to.ended
    BY <1>0, <1>2, <2>0, AfterCases DEF Idle
  <2>2. ChannelInv(c)'
    <3>1. CASE Retiring(t)
      <4>1. ~task[t].ended
        BY <1>2, <3>1 DEF FlowOf, Retiring
      <4>2. Signing(t, c) /\ Signing(t, c)' /\ ~Releasing(t, c)'
        BY <1>2, <2>1, <3>1, <4>1 DEF Signing, Releasing, Listing, Publishes
      <4>3. ASSUME Free(c)' PROVE ReservedBy(t, c)'
        <5>1. ReservedBy(t, c)
          BY <1>2, <4>3
        <5> QED
          BY <1>1, <1>2, <2>1, <3>1, <4>2, <5>1 DEF ReservedBy
      <4>4. ASSUME Free(c)', assigns = 0 PROVE SignedBy(t, c)'
        <5>1. SignedBy(t, c)
          BY <1>2, <4>4
        <5> QED
          BY <1>1, <1>2, <2>1, <3>1, <4>2, <5>1 DEF SignedBy
      <4> QED
        BY <1>1, <1>2, <4>1, <4>2, <4>3, <4>4, OwnChannel
    <3>2. CASE ~Retiring(t) /\ task[t].ended
      <4>1. ~Signing(t, c) /\ ~Releasing(t, c)
        BY <1>2, <3>2 DEF Signing, Releasing, Listing
      <4>2. Publishes(t, c)' /\ task'[t].ended
        BY <1>2, <2>1, <3>2 DEF Publishes
      <4>3. ReservedBy(t, c)' /\ SignedBy(t, c)'
        BY <1>2, <2>1, <3>2 DEF ReservedBy, SignedBy, Signing, Releasing, Listing
      <4> QED
        BY <1>1, <1>2, <4>1, <4>2, <4>3, OwnChannel
    <3>3. CASE ~Retiring(t) /\ ~task[t].ended /\ task[t].first
      <4>1. Releasing(t, c)' /\ ~Signing(t, c)' /\ ~(Listing(t, c)' /\ task'[t].pc = "resolve")
        BY <1>2, <2>1, <3>3 DEF Signing, Releasing, Listing, Publishes
      <4>2. Signing(t, c)
        BY <1>2, <3>3 DEF Signing, Listing
      <4>3. ASSUME Free(c)' PROVE assigns # 0 /\ signer[c] = NoPersona
        <5>1. Free(c) /\ ReservedBy(t, c) /\ (assigns = 0 => SignedBy(t, c))
          BY <1>2, <4>3
        <5>2. c \in broadcast
          BY <4>2, <5>1 DEF ReservedBy
        <5>3. ASSUME assigns = 0 PROVE FALSE
          <6>1. Author(t) = selected
            BY <3>3, <4>2, <5>1, <5>3 DEF SignedBy, Author
          <6>2. selected \in Usable /\ pstate[selected] = "active"
            BY <5>2, <5>3 DEF EngineInv, LockHeld
          <6>3. CanSign(Author(t))
            BY <6>1, <6>2, IdentityAssumption DEF CanSign, Exists
          <6> QED
            BY <1>5, <6>3
        <5>4. c \notin overlapped
          BY <5>1, <5>3 DEF Free
        <5> QED
          BY <3>3, <4>2, <5>1, <5>3, <5>4 DEF ReservedBy
      <4>4. ASSUME Free(c)' PROVE ReservedBy(t, c)'
        BY <1>1, <1>2, <4>1, <4>3, <4>4 DEF ReservedBy
      <4>5. SignedBy(t, c)'
        BY <1>2, <2>1, <3>3, <4>1 DEF SignedBy
      <4> QED
        BY <1>1, <1>2, <3>3, <4>1, <4>4, <4>5, OwnChannel
    <3>4. CASE ~Retiring(t) /\ ~task[t].ended /\ ~task[t].first
      <4>1. ~Publishes(t, c)'
        BY <1>2, <2>1, <3>4 DEF Publishes
      <4>2. ReservedBy(t, c)' /\ SignedBy(t, c)'
        BY <4>1 DEF ReservedBy, SignedBy, Signing, Releasing, Listing
      <4>3. Signing(t, c)
        BY <1>2, <3>4 DEF Signing, Listing
      <4>4. ASSUME Free(c)' PROVE signer[c] # NoPersona
        BY <1>2, <3>4, <4>3, <4>4 DEF ReservedBy
      <4> QED
        BY <1>1, <1>2, <3>4, <4>2, <4>4, OwnChannel
    <3> QED
      BY <3>1, <3>2, <3>3, <3>4
  <2> QED
    BY <1>0, <1>1, <1>2, <1>3, <2>1, <2>2, StepKeeps
<1> QED
  BY <1>4, <1>5

\* The event goes to the sink.
LEMMA SendKeeps ==
    ASSUME EngineInv, NEW t \in Task, Send(t)
    PROVE  EngineInv'
<1>0. PICK c \in Channel : task[t].ch = c
  BY AtStep DEF Send, Step
<1> DEFINE to == At(t, "commit")
<1>1. Step(t, "send", to) /\ UNCHANGED <<broadcast, signer, last>>
  BY <1>0 DEF Send
<1> HIDE DEF to
<1>2. StepContext(t, c, "send", to)
  BY <1>0, <1>1, StepFacts
<1> USE DEF StepContext
<1>3. LockHeld'
  BY <1>1, <1>2, LockStays
<1>4. /\ to \in TaskRecord /\ to.pc = "commit" /\ to.ch = c /\ to.ended = task[t].ended
      /\ to.first = task[t].first /\ to.persona = task[t].persona /\ to.old = task[t].old
  BY <1>0, <1>2 DEF to, At, TaskRecord
<1>5. FlowOf(to)
  BY <1>2, <1>4 DEF FlowOf
<1>6. Signing(t, c)' = Signing(t, c) /\ ~Releasing(t, c)' /\ ~Releasing(t, c) /\ Publishes(t, c)'
  BY <1>2, <1>4 DEF Signing, Releasing, Listing, Publishes
<1>7. ASSUME Free(c)' PROVE ReservedBy(t, c)'
  <2>1. ReservedBy(t, c)
    BY <1>2, <1>7
  <2> QED
    BY <1>1, <1>2, <1>4, <1>6, <2>1 DEF ReservedBy
<1>8. ASSUME Free(c)', assigns = 0 PROVE SignedBy(t, c)'
  <2>1. SignedBy(t, c)
    BY <1>2, <1>8
  <2> QED
    BY <1>1, <1>2, <1>4, <1>6, <2>1 DEF SignedBy
<1>9. ChannelInv(c)'
  BY <1>1, <1>2, <1>4, <1>6, <1>7, <1>8, OwnChannel
<1>10. shown' \in [Persona \X Channel -> [at : Nat, status : {"none", "live", "ended"}]]
  <2> DEFINE k == <<Author(t), task[t].ch>>
             e == [at |-> task[t].at, status |-> Status(t)]
  <2>1. e \in [at : Nat, status : {"none", "live", "ended"}]
    BY <1>2 DEF TaskRecord, Status
  <2>2. shown' = shown \/ shown' = [shown EXCEPT ![k] = e]
    BY DEF Send
  <2> HIDE DEF e, k
  <2> QED
    BY <1>2, <2>1, <2>2
<1> QED
  BY <1>0, <1>1, <1>2, <1>3, <1>4, <1>5, <1>9, <1>10, StepKeeps

\* A channel that a task ends, or that a failed first publication gives back
\* outside any overlap, has no other publisher.
LEMMA Alone ==
    ASSUME EngineInv, NEW t \in Task, NEW c \in Channel, Publishes(t, c), Free(c),
           task[t].ended \/ assigns # 0, NEW u \in Task, u # t
    PROVE  ~Publishes(u, c)
BY Exclusive DEF EngineInv, Free

\* The entry is written.
LEMMA CommitKeeps ==
    ASSUME EngineInv, NEW t \in Task, Commit(t)
    PROVE  EngineInv'
<1>0. PICK c \in Channel : task[t].ch = c
  BY AtStep DEF Commit, Step
<1> DEFINE to == After(t, TRUE)
<1>1. /\ Step(t, "commit", to) /\ UNCHANGED <<broadcast, shown>>
      /\ signer' = [signer EXCEPT ![c] = Author(t)]
      /\ last' = [last EXCEPT ![c] = task[t].at]
  BY <1>0 DEF Commit
<1> HIDE DEF to
<1>2. StepContext(t, c, "commit", to)
  BY <1>0, <1>1, StepFacts
<1> USE DEF StepContext
<1>3. LockHeld'
  BY <1>1, <1>2, LockStays
<1>4. /\ to \in TaskRecord /\ FlowOf(to)
      /\ to.ch = c \/ to.pc = "idle"
      /\ Retiring(t) =>
            /\ to.pc = "sign" /\ to.old = NoPersona /\ to.ch = c /\ ~to.ended
            /\ to.first = task[t].first /\ to.persona = task[t].persona
      /\ ~Retiring(t) /\ task[t].ended => to.pc = "remove" /\ to.ended /\ to.ch = c
      /\ ~Retiring(t) /\ ~task[t].ended => to.pc = "idle" /\ ~to.ended
  BY <1>0, <1>2, AfterCases DEF to, Idle
<1>5. Author(t) \in PersonaOrNone /\ Author(t) # NoPersona /\ task[t].at \in Nat
  BY <1>2 DEF Author, Retiring, TaskRecord, FlowOf
<1>6. /\ signer' \in [Channel -> PersonaOrNone] /\ last' \in [Channel -> Nat]
      /\ signer'[c] = Author(t) /\ \A d \in Channel \ {c} : signer'[d] = signer[d]
  BY <1>1, <1>2, <1>5
<1>7. Retiring(t) => ~task[t].ended
  BY <1>2 DEF FlowOf, Retiring
<1>8. \A u \in Task \ {t} : /\ Publishes(u, c)' = Publishes(u, c)
                            /\ Listing(u, c)' = Listing(u, c)
                            /\ Signing(u, c)' = Signing(u, c)
                            /\ Releasing(u, c)' = Releasing(u, c)
  BY <1>2 DEF Publishes, Listing, Signing, Releasing
<1>9. ASSUME Free(c)' PROVE ReservedAt(c)' /\ (assigns' = 0 => SignedAt(c)')
  <2>1. /\ Free(c) /\ ReservedAt(c) /\ ReservedBy(t, c)
        /\ assigns = 0 => SignedAt(c) /\ SignedBy(t, c)
    BY <1>2, <1>9
  <2>2. CASE task[t].ended
    <3>1. ASSUME NEW u \in Task \ {t} PROVE ~Publishes(u, c)'
      BY <1>2, <1>8, <2>1, <2>2, Alone
    <3>2. Publishes(t, c)' /\ task'[t].ended /\ task'[t].pc = "remove"
      BY <1>2, <1>4, <1>7, <2>2 DEF Publishes
    <3>3. Ending(c)'
      BY <3>2 DEF Ending
    <3>4. ASSUME NEW u \in Task PROVE ReservedBy(u, c)' /\ SignedBy(u, c)'
      <4>1. CASE u = t
        BY <3>2, <4>1 DEF ReservedBy, SignedBy, Signing, Releasing, Listing
      <4>2. CASE u # t
        BY <3>1, <4>2 DEF ReservedBy, SignedBy, Signing, Releasing, Listing
      <4> QED
        BY <4>1, <4>2
    <3> QED
      BY <1>5, <1>6, <3>3, <3>4 DEF ReservedAt, EntryAt, SignedAt
  <2>3. CASE ~task[t].ended
    <3>1. Signing(t, c)
      BY <1>2, <2>3 DEF Signing, Listing
    <3>2. c \in broadcast'
      BY <1>1, <2>1, <3>1 DEF ReservedBy
    <3>3. ASSUME NEW u \in Task \ {t}, Publishes(u, c) PROVE c \in overlapped /\ ~task[u].ended
      BY <1>2, <2>1, <3>3, Exclusive DEF EngineInv, Free
    <3>4. ASSUME NEW u \in Task \ {t} PROVE ReservedBy(u, c)'
      <4>1. CASE Publishes(u, c)
        <5>1. ~Releasing(u, c)
          <6>1. ASSUME Releasing(u, c) PROVE FALSE
            <7>1. assigns # 0
              BY <2>1, <3>3, <4>1, <6>1 DEF ReservedAt, ReservedBy
            <7> QED
              BY <2>1, <3>3, <4>1, <7>1 DEF Free
          <6> QED
            BY <6>1
        <5>2. c \in overlapped'
          BY <1>2, <3>3, <4>1
        <5> QED
          BY <1>5, <1>6, <1>8, <3>2, <5>1, <5>2 DEF ReservedBy
      <4>2. CASE ~Publishes(u, c)
        BY <1>8, <4>2 DEF ReservedBy, Signing, Releasing, Listing
      <4> QED
        BY <4>1, <4>2
    <3>5. ReservedBy(t, c)'
      <4>1. CASE Retiring(t)
        <5>1. Signing(t, c)' /\ ~Releasing(t, c)'
          BY <1>2, <1>4, <4>1 DEF Signing, Releasing, Listing, Publishes
        <5>2. task[t].first => c \in overlapped
          BY <2>1, <3>1, <4>1 DEF ReservedBy, Retiring
        <5> QED
          BY <1>2, <1>4, <1>5, <1>6, <3>2, <4>1, <5>1, <5>2 DEF ReservedBy
      <4>2. CASE ~Retiring(t)
        <5>1. ~Publishes(t, c)'
          BY <1>2, <1>4, <2>3, <4>2 DEF Publishes
        <5> QED
          BY <5>1 DEF ReservedBy, Signing, Releasing, Listing
      <4> QED
        BY <4>1, <4>2
    <3>6. ReservedAt(c)'
      BY <1>5, <1>6, <3>2, <3>4, <3>5 DEF ReservedAt, EntryAt
    <3>7. ASSUME assigns' = 0 PROVE SignedAt(c)'
      <4>1. SignedAt(c) /\ SignedBy(t, c)
        BY <1>2, <2>1, <3>7
      <4>2. task[t].persona = selected /\ ~Retiring(t) /\ Author(t) = selected
        BY <3>1, <4>1 DEF SignedBy, Retiring, Author
      <4>3. ~Publishes(t, c)'
        BY <1>2, <1>4, <2>3, <4>2 DEF Publishes
      <4>4. ASSUME NEW u \in Task PROVE SignedBy(u, c)'
        <5>1. CASE u = t
          BY <4>3, <5>1 DEF SignedBy, Signing, Listing
        <5>2. CASE u # t
          BY <1>2, <1>8, <3>3, <4>1, <5>2 DEF SignedAt, SignedBy
        <5> QED
          BY <5>1, <5>2
      <4> QED
        BY <1>2, <1>6, <4>2, <4>4 DEF SignedAt
    <3> QED
      BY <3>6, <3>7
  <2> QED
    BY <2>2, <2>3
<1>10. ChannelInv(c)'
  BY <1>9 DEF ChannelInv
<1> QED
  BY <1>0, <1>1, <1>2, <1>3, <1>4, <1>6, <1>10, StepKeeps

\* publish_ended removes the entry; its reservation is the task's to release.
LEMMA RemoveKeeps ==
    ASSUME EngineInv, NEW t \in Task, Remove(t)
    PROVE  EngineInv'
<1>0. PICK c \in Channel : task[t].ch = c
  BY AtStep DEF Remove, Step
<1> DEFINE to == At(t, "release")
<1>1. /\ Step(t, "remove", to) /\ UNCHANGED <<broadcast, shown>>
      /\ signer' = [signer EXCEPT ![c] = NoPersona]
      /\ last' = [last EXCEPT ![c] = 0]
  BY <1>0 DEF Remove
<1> HIDE DEF to
<1>2. StepContext(t, c, "remove", to)
  BY <1>0, <1>1, StepFacts
<1> USE DEF StepContext
<1>3. LockHeld'
  BY <1>1, <1>2, LockStays
<1>4. task[t].ended
  BY <1>2 DEF FlowOf
<1>5. /\ to \in TaskRecord /\ to.pc = "release" /\ to.ch = c /\ to.ended
      /\ to.old = task[t].old
  BY <1>0, <1>2, <1>4 DEF to, At, TaskRecord
<1>6. FlowOf(to)
  BY <1>2, <1>4, <1>5 DEF FlowOf
<1>7. /\ signer' \in [Channel -> PersonaOrNone] /\ last' \in [Channel -> Nat]
      /\ signer'[c] = NoPersona /\ \A d \in Channel \ {c} : signer'[d] = signer[d]
  BY <1>1, <1>2 DEF PersonaOrNone
<1>8. ASSUME Free(c)' PROVE ReservedAt(c)' /\ SignedAt(c)'
  <2>1. Free(c)
    BY <1>2, <1>8
  <2>2. ASSUME NEW u \in Task \ {t} PROVE ~Publishes(u, c)'
    <3>1. ~Publishes(u, c)
      BY <1>2, <1>4, <2>1, Alone
    <3> QED
      BY <1>2, <3>1 DEF Publishes
  <2>3. Releasing(t, c)' /\ task'[t].ended /\ ~Signing(t, c)' /\ ~Listing(t, c)'
    BY <1>2, <1>5 DEF Releasing, Signing, Listing, Publishes
  <2>4. ASSUME NEW u \in Task PROVE ReservedBy(u, c)' /\ SignedBy(u, c)'
    <3>1. CASE u = t
      BY <1>7, <2>3, <3>1 DEF ReservedBy, SignedBy
    <3>2. CASE u # t
      BY <2>2, <3>2 DEF ReservedBy, SignedBy, Signing, Releasing, Listing
    <3> QED
      BY <3>1, <3>2
  <2> QED
    BY <1>7, <2>3, <2>4 DEF ReservedAt, EntryAt, SignedAt
<1>9. ChannelInv(c)'
  BY <1>8 DEF ChannelInv
<1> QED
  BY <1>0, <1>1, <1>2, <1>3, <1>5, <1>6, <1>7, <1>9, StepKeeps

\* The reservation is released, when no entry needs it any more.
LEMMA ReleaseKeeps ==
    ASSUME EngineInv, NEW t \in Task, ReleaseChannel(t)
    PROVE  EngineInv'
<1>0. PICK c \in Channel : task[t].ch = c
  BY AtStep DEF ReleaseChannel, Step
<1>1. /\ Step(t, "release", Idle) /\ UNCHANGED <<signer, last, shown>>
      /\ broadcast' = broadcast \ {c}
  BY <1>0 DEF ReleaseChannel, Release
<1>2. StepContext(t, c, "release", Idle)
  BY <1>0, <1>1, StepFacts
<1> USE DEF StepContext
<1>3. LockHeld'
  BY <1>1, <1>2, LockStays
<1>4. Idle \in TaskRecord /\ FlowOf(Idle) /\ Idle.pc = "idle"
  BY DEF Idle, TaskRecord, PersonaOrNone, FlowOf
<1>5. Releasing(t, c) /\ ~Publishes(t, c)'
  BY <1>2, <1>4 DEF Releasing, Publishes
<1>6. ASSUME Free(c)' PROVE ReservedAt(c)' /\ SignedAt(c)'
  <2>1. Free(c) /\ signer[c] = NoPersona /\ (task[t].ended \/ assigns # 0)
    BY <1>2, <1>5, <1>6 DEF ReservedBy
  <2>2. ASSUME NEW u \in Task PROVE ~Publishes(u, c)'
    <3>1. CASE u = t
      BY <1>5, <3>1
    <3>2. CASE u # t
      <4>1. ~Publishes(u, c)
        BY <1>2, <2>1, <3>2, Alone
      <4> QED
        BY <1>2, <3>2, <4>1 DEF Publishes
    <3> QED
      BY <3>1, <3>2
  <2>3. \A u \in Task : ReservedBy(u, c)' /\ SignedBy(u, c)'
    BY <2>2 DEF ReservedBy, SignedBy, Signing, Releasing, Listing
  <2> QED
    BY <1>1, <2>1, <2>3 DEF ReservedAt, EntryAt, SignedAt
<1>7. ChannelInv(c)'
  BY <1>6 DEF ChannelInv
<1>8. /\ broadcast' \subseteq Channel
      /\ \A d \in Channel \ {c} : signer'[d] = signer[d] /\ (d \in broadcast' <=> d \in broadcast)
  BY <1>1, <1>2
<1> QED
  BY <1>0, <1>1, <1>2, <1>3, <1>4, <1>7, <1>8, StepKeeps

-----------------------------------------------------------------------------
(***************************************************************************)
(* The theorems.                                                           *)
(***************************************************************************)

\* At the start no task publishes and nothing is reserved.
LEMMA EngineInit == Init => EngineInv
<1> SUFFICES ASSUME Init PROVE EngineInv
  OBVIOUS
<1>1. Idle \in TaskRecord /\ FlowOf(Idle) /\ Idle.pc = "idle"
  BY DEF Idle, TaskRecord, PersonaOrNone, FlowOf
<1>2. \A t \in Task : task[t] = Idle
  BY DEF Init
<1>3. \A t \in Task, c \in Channel : ~Publishes(t, c)
  BY <1>1, <1>2 DEF Publishes
<1>4. Flow
  BY <1>1, <1>2 DEF Flow
<1>5. Noted
  BY <1>3 DEF Noted, EndRace, Overlap
<1>6. LockHeld
  BY DEF LockHeld, Init, IdentityInit
<1>7. \A c \in Channel : ChannelInv(c)
  <2>1. \A c \in Channel : signer[c] = NoPersona /\ c \notin broadcast
    BY DEF Init, IdentityInit
  <2> QED
    BY <1>3, <2>1 DEF ChannelInv, ReservedAt, EntryAt, ReservedBy, SignedAt, SignedBy,
                      Signing, Releasing, Listing
<1>8. OwnedFinite
  BY FS_EmptySet DEF OwnedFinite, Init, RegistryInit
<1>9. TypeOK
  <2>1. IdentityTypeOK
    BY IdentityAssumption DEF IdentityTypeOK, Init, IdentityInit
  <2>2. RegistryTypeOK
    <3>1. queue \in Seq(Change) /\ Len(queue) <= QueueMax
      BY RegistryAssumption DEF Init, RegistryInit
    <3>2. announces \in 0..MaxAnnounce /\ ends \in 0..MaxEnd
      BY RegistryAssumption DEF Init, RegistryInit
    <3>3. /\ registry \subseteq Channel /\ owned \in [Session -> SUBSET Channel]
          /\ closing \subseteq Session
          /\ pending \in [Session -> Change \union {Nothing}]
      BY DEF Init, RegistryInit
    <3> QED
      BY <3>1, <3>2, <3>3 DEF RegistryTypeOK
  <2>3. task \in [Task -> TaskRecord]
    BY <1>1 DEF Init
  <2>4. now \in 0..MaxClock /\ last \in [Channel -> Nat]
    BY EngineAssumption DEF Init
  <2>5. shown \in [Persona \X Channel -> [at : Nat, status : {"none", "live", "ended"}]]
    BY DEF Init
  <2>6. /\ signer \in [Channel -> PersonaOrNone]
        /\ batch \in [Republisher -> SUBSET Channel]
        /\ raced \subseteq overlapped /\ overlapped \subseteq Channel
    BY DEF Init, PersonaOrNone
  <2> QED
    BY <2>1, <2>2, <2>3, <2>4, <2>5, <2>6 DEF TypeOK, TaskRecord
<1> QED
  BY <1>4, <1>5, <1>6, <1>7, <1>8, <1>9 DEF EngineInv

\* Every step keeps the invariant.
LEMMA EngineStep == EngineInv /\ [Next]_vars => EngineInv'
<1> SUFFICES ASSUME EngineInv, [Next]_vars PROVE EngineInv'
  OBVIOUS
<1>1. ASSUME NEW t \in Task, TaskStep(t) PROVE EngineInv'
  BY <1>1, CheckKeeps, ResolveKeeps, RetireKeeps, BeginEndKeeps, SignKeeps, SendKeeps,
     CommitKeeps, RemoveKeeps, ReleaseKeeps DEF TaskStep
<1>2. CASE PersonaRequest \/ PcpSession \/ Tick \/ UNCHANGED vars
  BY <1>2, AroundTasks
<1>3. CASE Receive \/ \E t \in Republisher : Snapshot(t) \/ NextListing(t)
  BY <1>3, BeginKeeps
<1> QED
  BY <1>1, <1>2, <1>3 DEF Next

\* The invariant holds whatever sessions, users and tasks do.
LEMMA EngineInvariant == Spec => []EngineInv
<1>1. EngineInv /\ [Next]_vars => EngineInv'
  BY EngineStep
<1> QED
  BY <1>1, EngineInit, PTL DEF Spec

\* The broadcast lock is sound: every live event is signed and sent under a
\* reservation, and once the tasks have settled exactly the channels with an
\* entry in `states' are reserved.
THEOREM LockAlwaysSound == Spec => []LockSound
<1>1. EngineInv => LockSound
  <2> SUFFICES ASSUME EngineInv PROVE LockSound
    OBVIOUS
  <2>1. ReservedWhileSigning
    <3> SUFFICES ASSUME NEW t \in Task, task[t].pc \in {"send", "commit"}, Status(t) = "live",
                        task[t].ch \notin raced,
                        assigns = 0 \/ task[t].ch \notin overlapped
                 PROVE  task[t].ch \in broadcast
      BY DEF ReservedWhileSigning
    <3>1. task[t].ch \in Channel /\ Publishes(t, task[t].ch)
      BY AtStep
    <3>2. Signing(t, task[t].ch)
      BY <3>1 DEF Signing, Listing, Status
    <3> QED
      BY <3>1, <3>2 DEF EngineInv, ChannelInv, Free, ReservedAt, ReservedBy
  <2>2. LockMatchesState
    <3> SUFFICES ASSUME NEW c \in Channel, Quiet(c), Free(c)
                 PROVE  c \in broadcast <=> signer[c] # NoPersona
      BY DEF LockMatchesState, Free
    <3>1. \A t \in Task : ~Publishes(t, c)
      BY DEF Quiet, Holds
    <3>2. EntryAt(c)
      BY DEF EngineInv, ChannelInv, ReservedAt
    <3> QED
      BY <3>1, <3>2 DEF EntryAt, Ending, Signing, Releasing, Listing
  <2> QED
    BY <2>1, <2>2 DEF LockSound, EngineInv
<1> QED
  BY <1>1, EngineInvariant, PTL

\* Without assignments no live event is sent under a persona that was archived
\* or deleted after it was resolved.
THEOREM AlwaysSignsActive == Spec => []SignsActive
<1>1. EngineInv => SignsActive
  <2> SUFFICES ASSUME EngineInv, NEW t \in Task, task[t].pc = "send", Status(t) = "live",
                      assigns = 0, task[t].ch \notin raced
               PROVE  pstate[Author(t)] = "active"
    BY DEF SignsActive
  <2>1. task[t].ch \in Channel /\ Publishes(t, task[t].ch)
    BY AtStep
  <2>2. Signing(t, task[t].ch) /\ ~Retiring(t)
    BY <2>1 DEF Signing, Listing, Status
  <2>3. ReservedBy(t, task[t].ch) /\ SignedBy(t, task[t].ch)
    BY <2>1 DEF EngineInv, ChannelInv, Free, ReservedAt, SignedAt
  <2>4. task[t].ch \in broadcast /\ Author(t) = selected
    BY <2>2, <2>3 DEF ReservedBy, SignedBy, Author
  <2> QED
    BY <2>4 DEF EngineInv, LockHeld
<1> QED
  BY <1>1, EngineInvariant, PTL

\* While a channel is published its signing persona does not change, whatever
\* the user selects, archives or deletes meanwhile.
THEOREM SignerStaysFixed == Spec => SignerFixed
<1> DEFINE Fixed == \A c \in Channel \ raced' :
                       assigns' = 0 /\ signer[c] # NoPersona /\ signer'[c] # NoPersona
                           => signer'[c] = signer[c]
<1>1. EngineInv /\ [Next]_vars => [Fixed]_vars
  <2> SUFFICES ASSUME EngineInv, Next PROVE Fixed
    OBVIOUS
  <2>1. CASE signer' = signer
    BY <2>1
  <2>2. ASSUME NEW t \in Task, Commit(t) PROVE Fixed
    <3>0. PICK c \in Channel : task[t].ch = c
      BY <2>2, AtStep DEF Commit, Step
    <3>1. Step(t, "commit", After(t, TRUE)) /\ signer' = [signer EXCEPT ![c] = Author(t)]
      BY <2>2, <3>0 DEF Commit
    <3>2. StepContext(t, c, "commit", After(t, TRUE))
      BY <3>0, <3>1, StepFacts
    <3>3. signer \in [Channel -> PersonaOrNone]
      BY <3>2 DEF StepContext
    <3>4. ASSUME c \notin raced', assigns' = 0, signer[c] # NoPersona PROVE Author(t) = signer[c]
      <4>1. Free(c)' /\ assigns = 0
        BY <3>2, <3>4 DEF Free, StepContext
      <4>2. /\ Free(c) /\ SignedAt(c) /\ SignedBy(t, c) /\ Publishes(t, c) /\ FlowOf(task[t])
            /\ task[t].pc = "commit"
        BY <3>2, <4>1 DEF StepContext
      <4>3. CASE task[t].ended
        BY <3>4, <4>2, <4>3 DEF SignedBy, FlowOf, Author, Retiring
      <4>4. CASE ~task[t].ended
        <5>1. Signing(t, c)
          BY <4>2, <4>4 DEF Signing, Listing
        <5>2. Author(t) = selected
          BY <4>2, <5>1 DEF SignedBy, Author, Retiring
        <5>3. ~Ending(c)
          <6>1. ASSUME NEW u \in Task, Publishes(u, c), task[u].ended PROVE FALSE
            BY <4>2, <4>4, <6>1, Exclusive DEF EngineInv, Free
          <6> QED
            BY <6>1 DEF Ending
        <5> QED
          BY <3>4, <4>2, <5>2, <5>3 DEF SignedAt
      <4> QED
        BY <4>3, <4>4
    <3> QED
      BY <3>1, <3>3, <3>4
  <2>3. ASSUME NEW t \in Task, Remove(t) PROVE Fixed
    <3>1. signer \in [Channel -> PersonaOrNone]
      BY DEF EngineInv, TypeOK
    <3> QED
      BY <2>3, <3>1 DEF Remove
  <2>4. ASSUME NEW t \in Task, TaskStep(t) PROVE Fixed
    BY <2>1, <2>2, <2>3, <2>4 DEF TaskStep, Check, Resolve, Retire, BeginEnd, Sign, Send, ReleaseChannel
  <2>5. CASE PersonaRequest \/ PcpSession \/ Tick \/ Receive \/ \E t \in Republisher : Snapshot(t) \/ NextListing(t)
    BY <2>1, <2>5 DEF PersonaRequest, PcpSession, Tick, Receive, Snapshot, NextListing, engine
  <2> QED
    BY <2>4, <2>5 DEF Next
<1> QED
  BY <1>1, EngineInvariant, PTL DEF Spec, SignerFixed
=============================================================================
