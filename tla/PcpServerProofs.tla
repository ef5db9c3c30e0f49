--------------------------- MODULE PcpServerProofs --------------------------
(***************************************************************************)
(* Proofs about PcpServer, for every set of sessions and channels, every   *)
(* number of permits, every limit and every bound on what is sent.         *)
(***************************************************************************)
EXTENDS PcpServer, FiniteSetTheorems, TLAPS

-----------------------------------------------------------------------------
(***************************************************************************)
(* The inductive invariant.                                                *)
(***************************************************************************)

\* The sessions' maps and the registry's are maps of records.
MapsSound ==
    /\ channels = [s \in Session |-> channels[s]]
    /\ \A s \in Session : /\ channels[s] \in [DOMAIN channels[s] -> Record]
                          /\ IsFiniteSet(DOMAIN channels[s])
    /\ listing \in [DOMAIN listing -> Record]

\* The channels held by sessions that are not yet ending, and the atoms read
\* and not yet handled.
Held == {p \in Session \X Channel : phase[p[1]] # "ending" /\ p[2] \in DOMAIN channels[p[1]]}
Unread == {p \in Session \X (1..ChunkMax) : p[2] <= buf[p[1]]}

\* Every channel ended or still to be ended was announced once, and every
\* announcement was an atom that was read.
Accounting ==
    /\ IsFiniteSet(Held) /\ IsFiniteSet(Unread)
    /\ ends + Cardinality(Held) <= upserts
    /\ upserts + Cardinality(Unread) <= sent

ServerInv == TypeOK /\ MapsSound /\ Accounting /\ ListedAsHeld

-----------------------------------------------------------------------------
(***************************************************************************)
(* The operators of the model.                                             *)
(***************************************************************************)

\* A broadcast atom has the fields handle_bcst looks at.
LEMMA BcstFields ==
    ASSUME NEW a \in Atom, a.kind = "bcst"
    PROVE  /\ a.ch \in Channel /\ a.info \in BOOLEAN
           /\ a.host \in {"absent", "stopped", "push", "direct"}
BY DEF Atom, Bcst

\* Removing a channel from a map of records leaves a map of records.
LEMMA WithoutMap ==
    ASSUME NEW f, NEW c, f \in [DOMAIN f -> Record]
    PROVE  /\ DOMAIN Without(f, c) = DOMAIN f \ {c}
           /\ Without(f, c) \in [DOMAIN Without(f, c) -> Record]
           /\ \A x \in DOMAIN f \ {c} : Without(f, c)[x] = f[x]
BY DEF Without

\* So does entering one.
LEMMA WithMap ==
    ASSUME NEW f, NEW c, NEW r \in Record, f \in [DOMAIN f -> Record]
    PROVE  /\ DOMAIN With(f, c, r) = DOMAIN f \union {c}
           /\ With(f, c, r) \in [DOMAIN With(f, c, r) -> Record]
           /\ With(f, c, r)[c] = r
           /\ \A x \in DOMAIN f \ {c} : With(f, c, r)[x] = f[x]
BY DEF With

\* A map of records without an entry is the empty map.
LEMMA EmptyMap ==
    ASSUME NEW f, f \in [DOMAIN f -> Record]
    PROVE  f = NoChannels <=> DOMAIN f = {}
BY DEF NoChannels

\* handle_bcst makes a record of what it knew and what came, and keeps the
\* name and the start it knew.
LEMMA MergedRecord ==
    ASSUME TypeOK, NEW s \in Session, NEW a \in Atom, a.kind = "bcst"
    PROVE  /\ Merged(s, a) \in Record
           /\ a.ch \in DOMAIN channels[s] =>
                 /\ channels[s][a.ch].named => Merged(s, a).named
                 /\ Merged(s, a).started = channels[s][a.ch].started
<1>1. a.ch \in Channel /\ a.info \in BOOLEAN
  BY BcstFields
<1>2. now \in 0..MaxClock
  BY DEF TypeOK
<1>3. CASE a.ch \in DOMAIN channels[s]
  <2>1. channels[s][a.ch] \in Record
    BY <1>3 DEF TypeOK
  <2>2. Merged(s, a) = [channels[s][a.ch] EXCEPT
                          !.named = @ \/ a.info,
                          !.tracker = IF a.host = "absent" THEN @ ELSE a.host = "direct"]
    BY <1>3 DEF Merged
  <2> QED
    BY <2>1, <2>2, <1>1, <1>3 DEF Record
<1>4. CASE a.ch \notin DOMAIN channels[s]
  <2> DEFINE new == [named |-> FALSE, tracker |-> FALSE, started |-> now]
  <2>1. new \in Record
    BY <1>2 DEF Record
  <2>2. Merged(s, a) = [new EXCEPT
                          !.named = @ \/ a.info,
                          !.tracker = IF a.host = "absent" THEN @ ELSE a.host = "direct"]
    BY <1>4 DEF Merged
  <2> QED
    BY <2>1, <2>2, <1>1, <1>4 DEF Record
<1> QED
  BY <1>3, <1>4

\* RateLimiter::charge counts to one above the limit at most.
LEMMA ChargeType ==
    ASSUME TypeOK, NEW s \in Session, Charge(rate[s]).bytes <= MaxRate
    PROVE  Charge(rate[s]) \in [window : -1..MaxClock, bytes : 0..(MaxRate + 1)]
<1>1. rate[s] \in [window : -1..MaxClock, bytes : 0..(MaxRate + 1)] /\ now \in 0..MaxClock
  BY DEF TypeOK
<1>2. MaxRate \in Nat /\ MaxClock \in Nat
  BY PcpAssumption
<1>3. CASE rate[s].window # now
  <2>1. Charge(rate[s]) = [window |-> now, bytes |-> 1]
    BY <1>3 DEF Charge
  <2>2. now \in -1..MaxClock /\ 1 \in 0..(MaxRate + 1)
    BY <1>1, <1>2
  <2> QED
    BY <2>1, <2>2
<1>4. CASE rate[s].window = now
  <2>1. Charge(rate[s]) = [rate[s] EXCEPT !.bytes = @ + 1]
    BY <1>4 DEF Charge
  <2>2. rate[s].bytes + 1 <= MaxRate
    BY <2>1, <1>1
  <2>3. rate[s].bytes + 1 \in 0..(MaxRate + 1)
    BY <2>2, <1>1, <1>2
  <2> QED
    BY <2>1, <2>3, <1>1
<1> QED
  BY <1>3, <1>4

-----------------------------------------------------------------------------
(***************************************************************************)
(* Each action keeps the invariant.                                        *)
(***************************************************************************)

\* Initially nothing is held, listed or read.
LEMMA ServerInit == Init => ServerInv
<1> SUFFICES ASSUME Init PROVE ServerInv
  OBVIOUS
<1>1. Held = {} /\ Unread = {}
  BY PcpAssumption DEF Init, Held, Unread, NoChannels
<1>2. Cardinality({}) = 0 /\ IsFiniteSet({})
  BY FS_EmptySet
<1>3. Accounting
  BY <1>1, <1>2 DEF Accounting, Init
<1>4. TypeOK
  <2>1. NoRate \in [window : -1..MaxClock, bytes : 0..(MaxRate + 1)]
    BY PcpAssumption DEF NoRate
  <2>2. DOMAIN NoChannels = {}
    BY DEF NoChannels
  <2>3. rate \in [Session -> [window : -1..MaxClock, bytes : 0..(MaxRate + 1)]]
    BY <2>1 DEF Init
  <2>4. queue \in Seq(Change) /\ Len(queue) <= QueueMax
    BY PcpAssumption DEF Init
  <2>5. \A s \in Session : channels[s] = NoChannels
    BY DEF Init
  <2>6. \A s \in Session :
           /\ DOMAIN channels[s] \subseteq Channel
           /\ \A c \in DOMAIN channels[s] : channels[s][c] \in Record
           /\ Cardinality(DOMAIN channels[s]) <= MaxChannelsPerSession
    BY <1>2, <2>2, <2>5, PcpAssumption
  <2>7. DOMAIN listing \subseteq Channel /\ \A c \in DOMAIN listing : listing[c] \in Record
    BY <2>2 DEF Init
  <2>8. buf \in [Session -> 0..ChunkMax]
    BY PcpAssumption DEF Init
  <2>9. now \in 0..MaxClock /\ sent \in 0..MaxAtoms /\ upserts \in 0..MaxAtoms /\ ends \in 0..MaxAtoms
    BY PcpAssumption DEF Init
  <2>10. /\ shutdown \in BOOLEAN
         /\ phase \in [Session -> {"none", "open", "ending"}]
         /\ handshake \in [Session -> {"BeforeHelo", "Established"}]
         /\ pending \in [Session -> Change \union {Nothing}]
    BY DEF Init
  <2> QED
    BY <2>3, <2>4, <2>6, <2>7, <2>8, <2>9, <2>10 DEF TypeOK
<1>5. MapsSound
  BY <1>2 DEF MapsSound, Init, NoChannels
<1>6. ListedAsHeld
  BY DEF ListedAsHeld, Init, NoChannels
<1> QED
  BY <1>3, <1>4, <1>5, <1>6 DEF ServerInv

\* A connection that breaks off moves what it held from the channels held to
\* the channels ended.
LEMMA BreakKeeps ==
    ASSUME ServerInv, NEW s \in Session, phase[s] = "open", Break(s)
    PROVE  ServerInv'
<1> DEFINE D == DOMAIN channels[s]
<1>1. IsFiniteSet(D) /\ D \subseteq Channel /\ Cardinality(D) \in Nat
  BY FS_CardinalityType DEF ServerInv, MapsSound, TypeOK
<1>2. channels[s] = NoChannels <=> D = {}
  BY EmptyMap DEF ServerInv, MapsSound
<1>3. phase \in [Session -> {"none", "open", "ending"}]
  BY DEF ServerInv, TypeOK
<1>4. phase'[s] = (IF D = {} THEN "none" ELSE "ending")
  BY <1>2, <1>3 DEF Break
<1>5. \A t \in Session \ {s} : phase'[t] = phase[t]
  BY <1>3 DEF Break
<1>6. IsFiniteSet(Held') /\ Cardinality(Held') = Cardinality(Held) - Cardinality(D)
  <2> DEFINE Of == {s} \X D
  <2>1. IsFiniteSet(Of) /\ Cardinality(Of) = Cardinality(D)
    <3>1. IsFiniteSet({s}) /\ Cardinality({s}) = 1
      BY FS_Singleton
    <3>2. IsFiniteSet(Of) /\ Cardinality(Of) = 1 * Cardinality(D)
      BY <1>1, <3>1, FS_Product
    <3> QED
      BY <3>2, <1>1
  <2>2. Held' = Held \ Of
    BY <1>4, <1>5 DEF Held, Break
  <2>3. Held \cap Of = Of
    BY <1>1 DEF Held
  <2>4. IsFiniteSet(Held)
    BY DEF ServerInv, Accounting
  <2> HIDE DEF Of, D
  <2>5. Cardinality(Held \ Of) = Cardinality(Held) - Cardinality(Of) /\ IsFiniteSet(Held \ Of)
    BY <2>3, <2>4, FS_Difference
  <2> QED
    BY <2>1, <2>2, <2>5
<1>7. IsFiniteSet(Unread') /\ Cardinality(Unread') <= Cardinality(Unread)
  <2>1. Unread' \subseteq Unread
    BY DEF Unread, Break, ServerInv, TypeOK
  <2>2. IsFiniteSet(Unread)
    BY DEF ServerInv, Accounting
  <2> QED
    BY <2>1, <2>2, FS_Subset
<1>8. /\ Cardinality(Held) \in Nat /\ Cardinality(Held') \in Nat
      /\ Cardinality(Unread) \in Nat /\ Cardinality(Unread') \in Nat
  BY <1>6, <1>7, FS_CardinalityType DEF ServerInv, Accounting
<1>9. sent \in 0..MaxAtoms /\ upserts \in 0..MaxAtoms /\ ends \in 0..MaxAtoms /\ MaxAtoms \in Nat
  BY PcpAssumption DEF ServerInv, TypeOK
<1>10. /\ ends' = ends + Cardinality(D) /\ upserts' = upserts /\ sent' = sent
  BY DEF Break
<1>11. /\ ends + Cardinality(Held) <= upserts
       /\ upserts + Cardinality(Unread) <= sent
  BY DEF ServerInv, Accounting
<1> HIDE DEF D
<1>12. ends' + Cardinality(Held') <= upserts' /\ ends' \in 0..MaxAtoms
  BY <1>1, <1>6, <1>8, <1>9, <1>10, <1>11
<1>13. upserts' + Cardinality(Unread') <= sent'
  BY <1>7, <1>8, <1>9, <1>10, <1>11
<1>14. Accounting'
  BY <1>6, <1>7, <1>12, <1>13 DEF Accounting
<1>15. TypeOK'
  <2>1. rate' \in [Session -> [window : -1..MaxClock, bytes : 0..(MaxRate + 1)]]
    <3>1. NoRate \in [window : -1..MaxClock, bytes : 0..(MaxRate + 1)]
      BY PcpAssumption DEF NoRate
    <3> QED
      BY <3>1 DEF Break, ServerInv, TypeOK
  <2>2. buf' \in [Session -> 0..ChunkMax]
    BY PcpAssumption DEF Break, ServerInv, TypeOK
  <2>3. /\ phase' \in [Session -> {"none", "open", "ending"}]
        /\ handshake' \in [Session -> {"BeforeHelo", "Established"}]
    BY DEF Break, ServerInv, TypeOK
  <2> QED
    BY <1>12, <2>1, <2>2, <2>3 DEF Break, ServerInv, TypeOK
<1>16. MapsSound' /\ ListedAsHeld'
  BY DEF Break, ServerInv, MapsSound, ListedAsHeld
<1> QED
  BY <1>14, <1>15, <1>16 DEF ServerInv

\* What TypeOK says of the maps and of the notifications.
EntriesOK ==
    /\ \A s \in Session : /\ DOMAIN channels[s] \subseteq Channel
                          /\ \A c \in DOMAIN channels[s] : channels[s][c] \in Record
                          /\ Cardinality(DOMAIN channels[s]) <= MaxChannelsPerSession
    /\ DOMAIN listing \subseteq Channel
    /\ \A c \in DOMAIN listing : listing[c] \in Record
    /\ pending \in [Session -> Change \union {Nothing}]

\* ChannelRegistry::end keeps the maps in order: what stays listed is held by
\* the session that held it before.
LEMMA EndEntries ==
    ASSUME ServerInv, NEW s \in Session, NEW c \in DOMAIN channels[s], End(s, c)
    PROVE  /\ EntriesOK' /\ MapsSound' /\ ListedAsHeld'
           /\ DOMAIN channels'[s] = DOMAIN channels[s] \ {c}
           /\ DOMAIN listing' = DOMAIN listing \ {c}
           /\ \A x \in DOMAIN channels'[s] : channels'[s][x] = channels[s][x]
           /\ \A t \in Session \ {s} : channels'[t] = channels[t]
<1>1. /\ channels = [t \in Session |-> channels[t]]
      /\ \A t \in Session : /\ channels[t] \in [DOMAIN channels[t] -> Record]
                            /\ IsFiniteSet(DOMAIN channels[t])
                            /\ DOMAIN channels[t] \subseteq Channel
                            /\ Cardinality(DOMAIN channels[t]) <= MaxChannelsPerSession
      /\ listing \in [DOMAIN listing -> Record] /\ DOMAIN listing \subseteq Channel
      /\ pending \in [Session -> Change \union {Nothing}]
  BY DEF ServerInv, TypeOK, MapsSound
<1>2. channels' = [channels EXCEPT ![s] = Without(channels[s], c)] /\ listing' = Without(listing, c)
  BY DEF End
<1>3. /\ channels' = [t \in Session |-> channels'[t]]
      /\ channels'[s] = Without(channels[s], c)
      /\ \A t \in Session \ {s} : channels'[t] = channels[t]
  BY <1>1, <1>2
<1>4. /\ DOMAIN channels'[s] = DOMAIN channels[s] \ {c}
      /\ channels'[s] \in [DOMAIN channels'[s] -> Record]
      /\ \A x \in DOMAIN channels[s] \ {c} : channels'[s][x] = channels[s][x]
  <2>1. channels[s] \in [DOMAIN channels[s] -> Record]
    BY <1>1
  <2>2. /\ DOMAIN Without(channels[s], c) = DOMAIN channels[s] \ {c}
        /\ Without(channels[s], c) \in [DOMAIN Without(channels[s], c) -> Record]
        /\ \A x \in DOMAIN channels[s] \ {c} : Without(channels[s], c)[x] = channels[s][x]
    BY <2>1, WithoutMap
  <2> QED
    BY <1>3, <2>2
<1>5. /\ DOMAIN listing' = DOMAIN listing \ {c}
      /\ listing' \in [DOMAIN listing' -> Record]
      /\ \A x \in DOMAIN listing \ {c} : listing'[x] = listing[x]
  BY <1>1, <1>2, WithoutMap
<1>6. /\ IsFiniteSet(DOMAIN channels'[s])
      /\ Cardinality(DOMAIN channels'[s]) <= MaxChannelsPerSession
  <2>1. /\ IsFiniteSet(DOMAIN channels[s] \ {c})
        /\ Cardinality(DOMAIN channels[s] \ {c}) = Cardinality(DOMAIN channels[s]) - 1
    BY <1>1, FS_RemoveElement
  <2>2. Cardinality(DOMAIN channels[s]) \in Nat /\ Cardinality(DOMAIN channels[s]) <= MaxChannelsPerSession
    BY <1>1, FS_CardinalityType
  <2>3. MaxChannelsPerSession \in Nat
    BY PcpAssumption
  <2> QED
    BY <2>1, <2>2, <2>3, <1>4
<1>7. MapsSound'
  BY <1>1, <1>3, <1>4, <1>5, <1>6 DEF MapsSound
<1>8. pending' \in [Session -> Change \union {Nothing}]
  <2>1. [ch |-> c, kind |-> "ended"] \in Change
    BY <1>1 DEF Change
  <2> QED
    BY <2>1, <1>1 DEF End
<1>9. EntriesOK'
  <2>1. ASSUME NEW t \in Session
        PROVE  /\ DOMAIN channels'[t] \subseteq Channel
               /\ \A x \in DOMAIN channels'[t] : channels'[t][x] \in Record
               /\ Cardinality(DOMAIN channels'[t]) <= MaxChannelsPerSession
    <3>1. CASE t = s
      BY <3>1, <1>1, <1>4, <1>6
    <3>2. CASE t # s
      BY <3>2, <1>1, <1>3
    <3> QED
      BY <3>1, <3>2
  <2>2. DOMAIN listing' \subseteq Channel /\ \A x \in DOMAIN listing' : listing'[x] \in Record
    BY <1>1, <1>5
  <2> QED
    BY <2>1, <2>2, <1>8 DEF EntriesOK
<1>10. ListedAsHeld'
  <2>1. ASSUME NEW x \in DOMAIN listing'
        PROVE  \E t \in Session : x \in DOMAIN channels'[t] /\ channels'[t][x] = listing'[x]
    <3>1. x \in DOMAIN listing /\ x # c /\ listing'[x] = listing[x]
      BY <1>5
    <3>2. PICK t \in Session : x \in DOMAIN channels[t] /\ channels[t][x] = listing[x]
      BY <3>1 DEF ServerInv, ListedAsHeld
    <3>3. x \in DOMAIN channels'[t] /\ channels'[t][x] = channels[t][x]
      <4>1. CASE t = s
        BY <4>1, <3>1, <3>2, <1>4
      <4>2. CASE t # s
        BY <4>2, <3>2, <1>3
      <4> QED
        BY <4>1, <4>2
    <3> QED
      BY <3>1, <3>2, <3>3
  <2> QED
    BY <2>1 DEF ListedAsHeld
<1> QED
  BY <1>3, <1>4, <1>5, <1>7, <1>9, <1>10

\* So does upsert(): the channel is listed as the session has it now.
LEMMA UpsertEntries ==
    ASSUME ServerInv, NEW s \in Session, NEW a \in Atom, a.kind = "bcst",
           Fits(s, a.ch), Upsert(s, a)
    PROVE  /\ EntriesOK' /\ MapsSound' /\ ListedAsHeld'
           /\ DOMAIN channels'[s] = DOMAIN channels[s] \union {a.ch}
           /\ DOMAIN listing' = DOMAIN listing \union {a.ch}
           /\ channels'[s][a.ch] = Merged(s, a)
           /\ \A x \in DOMAIN channels[s] \ {a.ch} : channels'[s][x] = channels[s][x]
           /\ \A t \in Session \ {s} : channels'[t] = channels[t]
<1> DEFINE c == a.ch
           r == Merged(s, a)
<1>0. c \in Channel /\ r \in Record
  BY BcstFields, MergedRecord DEF ServerInv
<1>1. /\ channels = [t \in Session |-> channels[t]]
      /\ \A t \in Session : /\ channels[t] \in [DOMAIN channels[t] -> Record]
                            /\ IsFiniteSet(DOMAIN channels[t])
                            /\ DOMAIN channels[t] \subseteq Channel
                            /\ Cardinality(DOMAIN channels[t]) <= MaxChannelsPerSession
      /\ listing \in [DOMAIN listing -> Record] /\ DOMAIN listing \subseteq Channel
      /\ pending \in [Session -> Change \union {Nothing}]
  BY DEF ServerInv, TypeOK, MapsSound
<1>2. /\ channels' = [channels EXCEPT ![s] = With(channels[s], c, r)]
      /\ listing' = With(listing, c, r)
      /\ pending' = [pending EXCEPT ![s] = [ch |-> c, kind |-> "live"]]
  BY DEF Upsert
<1>a. c \in DOMAIN channels[s] \/ Cardinality(DOMAIN channels[s]) < MaxChannelsPerSession
  BY DEF Fits
<1> HIDE DEF c, r
<1>3. /\ channels' = [t \in Session |-> channels'[t]]
      /\ channels'[s] = With(channels[s], c, r)
      /\ \A t \in Session \ {s} : channels'[t] = channels[t]
  BY <1>1, <1>2
<1>4. /\ DOMAIN channels'[s] = DOMAIN channels[s] \union {c}
      /\ channels'[s] \in [DOMAIN channels'[s] -> Record]
      /\ channels'[s][c] = r
      /\ \A x \in DOMAIN channels[s] \ {c} : channels'[s][x] = channels[s][x]
  <2>1. channels[s] \in [DOMAIN channels[s] -> Record]
    BY <1>1
  <2>2. /\ DOMAIN With(channels[s], c, r) = DOMAIN channels[s] \union {c}
        /\ With(channels[s], c, r) \in [DOMAIN With(channels[s], c, r) -> Record]
        /\ With(channels[s], c, r)[c] = r
        /\ \A x \in DOMAIN channels[s] \ {c} : With(channels[s], c, r)[x] = channels[s][x]
    BY <1>0, <2>1, WithMap, ZenonT(60)
  <2> QED
    BY <1>3, <2>2
<1>5. /\ DOMAIN listing' = DOMAIN listing \union {c}
      /\ listing' \in [DOMAIN listing' -> Record]
      /\ listing'[c] = r
      /\ \A x \in DOMAIN listing \ {c} : listing'[x] = listing[x]
  <2>1. listing \in [DOMAIN listing -> Record]
    BY <1>1
  <2>2. /\ DOMAIN With(listing, c, r) = DOMAIN listing \union {c}
        /\ With(listing, c, r) \in [DOMAIN With(listing, c, r) -> Record]
        /\ With(listing, c, r)[c] = r
        /\ \A x \in DOMAIN listing \ {c} : With(listing, c, r)[x] = listing[x]
    BY <1>0, <2>1, WithMap, ZenonT(60)
  <2> QED
    BY <1>2, <2>2
<1>6. /\ IsFiniteSet(DOMAIN channels'[s])
      /\ Cardinality(DOMAIN channels'[s]) <= MaxChannelsPerSession
  <2>1. /\ IsFiniteSet(DOMAIN channels[s] \union {c})
        /\ Cardinality(DOMAIN channels[s] \union {c}) =
              IF c \in DOMAIN channels[s] THEN Cardinality(DOMAIN channels[s])
              ELSE Cardinality(DOMAIN channels[s]) + 1
    BY <1>1, FS_AddElement
  <2>2. Cardinality(DOMAIN channels[s]) \in Nat /\ Cardinality(DOMAIN channels[s]) <= MaxChannelsPerSession
    BY <1>1, FS_CardinalityType
  <2>3. MaxChannelsPerSession \in Nat
    BY PcpAssumption
  <2>4. CASE c \in DOMAIN channels[s]
    BY <2>1, <2>2, <2>4, <1>4
  <2>5. CASE c \notin DOMAIN channels[s]
    BY <2>1, <2>2, <2>3, <2>5, <1>4, <1>a
  <2> QED
    BY <2>4, <2>5
<1>7. MapsSound'
  BY <1>1, <1>3, <1>4, <1>5, <1>6 DEF MapsSound
<1>8. pending' \in [Session -> Change \union {Nothing}]
  <2>1. [ch |-> c, kind |-> "live"] \in Change
    BY <1>0 DEF Change
  <2> QED
    BY <2>1, <1>1, <1>2
<1>9. EntriesOK'
  <2>1. ASSUME NEW t \in Session
        PROVE  /\ DOMAIN channels'[t] \subseteq Channel
               /\ \A x \in DOMAIN channels'[t] : channels'[t][x] \in Record
               /\ Cardinality(DOMAIN channels'[t]) <= MaxChannelsPerSession
    <3>1. CASE t = s
      BY <3>1, <1>0, <1>1, <1>4, <1>6
    <3>2. CASE t # s
      BY <3>2, <1>1, <1>3
    <3> QED
      BY <3>1, <3>2
  <2>2. DOMAIN listing' \subseteq Channel /\ \A x \in DOMAIN listing' : listing'[x] \in Record
    BY <1>0, <1>1, <1>5
  <2> QED
    BY <2>1, <2>2, <1>8 DEF EntriesOK
<1>10. ListedAsHeld'
  <2>1. ASSUME NEW x \in DOMAIN listing'
        PROVE  \E t \in Session : x \in DOMAIN channels'[t] /\ channels'[t][x] = listing'[x]
    <3>1. CASE x = c
      BY <3>1, <1>4, <1>5
    <3>2. CASE x # c
      <4>1. x \in DOMAIN listing /\ listing'[x] = listing[x]
        BY <3>2, <1>5
      <4>2. PICK t \in Session : x \in DOMAIN channels[t] /\ channels[t][x] = listing[x]
        BY <4>1 DEF ServerInv, ListedAsHeld
      <4>3. x \in DOMAIN channels'[t] /\ channels'[t][x] = channels[t][x]
        <5>1. CASE t = s
          BY <5>1, <3>2, <4>2, <1>4
        <5>2. CASE t # s
          BY <5>2, <4>2, <1>3
        <5> QED
          BY <5>1, <5>2
      <4> QED
        BY <4>1, <4>2, <4>3
    <3> QED
      BY <3>1, <3>2
  <2> QED
    BY <2>1 DEF ListedAsHeld
<1> QED
  BY <1>3, <1>4, <1>5, <1>7, <1>9, <1>10 DEF c, r

\* The counts are numbers within the bound on what is sent.
LEMMA Counts ==
    ASSUME ServerInv
    PROVE  /\ sent \in Nat /\ upserts \in Nat /\ ends \in Nat /\ MaxAtoms \in Nat
           /\ sent <= MaxAtoms
           /\ Cardinality(Held) \in Nat /\ Cardinality(Unread) \in Nat
           /\ ends + Cardinality(Held) <= upserts
           /\ upserts + Cardinality(Unread) <= sent
BY PcpAssumption, FS_CardinalityType DEF ServerInv, TypeOK, Accounting

\* One atom handled is one atom fewer unread.
LEMMA UnreadFalls ==
    ASSUME ServerInv, NEW s \in Session, buf[s] > 0, buf' = [buf EXCEPT ![s] = @ - 1]
    PROVE  /\ IsFiniteSet(Unread') /\ Cardinality(Unread') = Cardinality(Unread) - 1
           /\ buf' \in [Session -> 0..ChunkMax]
<1>1. buf \in [Session -> 0..ChunkMax] /\ ChunkMax \in Nat
  BY PcpAssumption DEF ServerInv, TypeOK
<1>2. buf[s] \in 1..ChunkMax
  BY <1>1
<1>3. buf' \in [Session -> 0..ChunkMax]
  BY <1>1, <1>2
<1>4. <<s, buf[s]>> \in Unread
  BY <1>2 DEF Unread
<1>5. Unread' = Unread \ {<<s, buf[s]>>}
  <2>1. ASSUME NEW t \in Session, NEW i \in 1..ChunkMax
        PROVE  i <= buf'[t] <=> (i <= buf[t] /\ <<t, i>> # <<s, buf[s]>>)
    <3>1. CASE t = s
      <4>1. buf'[t] = buf[s] - 1
        BY <1>1, <3>1
      <4> QED
        BY <3>1, <4>1, <1>2
    <3>2. CASE t # s
      BY <3>2, <1>1
    <3> QED
      BY <3>1, <3>2
  <2> QED
    BY <2>1 DEF Unread
<1>6. IsFiniteSet(Unread)
  BY DEF ServerInv, Accounting
<1> QED
  BY <1>3, <1>4, <1>5, <1>6, FS_RemoveElement

\* Taking a channel into a session's map adds at most one to the channels held.
LEMMA HeldGrows ==
    ASSUME ServerInv, NEW s \in Session, NEW c \in Channel, phase' = phase,
           DOMAIN channels'[s] = DOMAIN channels[s] \union {c},
           \A t \in Session \ {s} : channels'[t] = channels[t]
    PROVE  IsFiniteSet(Held') /\ Cardinality(Held') <= Cardinality(Held) + 1
<1>1. IsFiniteSet(Held)
  BY DEF ServerInv, Accounting
<1>2. /\ IsFiniteSet(Held \union {<<s, c>>})
      /\ Cardinality(Held \union {<<s, c>>}) <= Cardinality(Held) + 1
      /\ Cardinality(Held \union {<<s, c>>}) \in Nat
  <2>1. Cardinality(Held) \in Nat
    BY <1>1, FS_CardinalityType
  <2>2. /\ IsFiniteSet(Held \union {<<s, c>>})
        /\ \/ Cardinality(Held \union {<<s, c>>}) = Cardinality(Held)
           \/ Cardinality(Held \union {<<s, c>>}) = Cardinality(Held) + 1
    BY <1>1, FS_AddElement
  <2> QED
    BY <2>1, <2>2
<1>3. Held' \subseteq Held \union {<<s, c>>}
  BY DEF Held
<1>4. IsFiniteSet(Held') /\ Cardinality(Held') <= Cardinality(Held \union {<<s, c>>})
  BY <1>2, <1>3, FS_Subset
<1>5. Cardinality(Held) \in Nat /\ Cardinality(Held') \in Nat
  BY <1>1, <1>4, FS_CardinalityType
<1> QED
  BY <1>2, <1>4, <1>5

\* Taking one out of the map of a session that goes on takes one away.
LEMMA HeldFalls ==
    ASSUME ServerInv, NEW s \in Session, NEW c \in DOMAIN channels[s],
           phase[s] = "open", phase' = phase,
           DOMAIN channels'[s] = DOMAIN channels[s] \ {c},
           \A t \in Session \ {s} : channels'[t] = channels[t]
    PROVE  IsFiniteSet(Held') /\ Cardinality(Held') = Cardinality(Held) - 1
<1>1. IsFiniteSet(Held)
  BY DEF ServerInv, Accounting
<1>2. c \in Channel
  BY DEF ServerInv, TypeOK
<1>3. <<s, c>> \in Held
  BY <1>2 DEF Held
<1>4. Held' = Held \ {<<s, c>>}
  BY DEF Held
<1> QED
  BY <1>1, <1>3, <1>4, FS_RemoveElement

\* An atom handled without ending the session keeps the invariant.
LEMMA OnAtomKeeps ==
    ASSUME ServerInv, NEW s \in Session, NEW a \in Atom,
           phase[s] = "open", buf[s] > 0, ~Fatal(s, a), OnAtom(s, a),
           buf' = [buf EXCEPT ![s] = @ - 1],
           rate' = [rate EXCEPT ![s] = Charge(@)],
           UNCHANGED <<now, shutdown, phase, sent>>
    PROVE  ServerInv'
<1>1. /\ IsFiniteSet(Unread') /\ Cardinality(Unread') = Cardinality(Unread) - 1
      /\ buf' \in [Session -> 0..ChunkMax]
  BY UnreadFalls
<1>2. rate' \in [Session -> [window : -1..MaxClock, bytes : 0..(MaxRate + 1)]]
  <2>1. rate \in [Session -> [window : -1..MaxClock, bytes : 0..(MaxRate + 1)]]
    BY DEF ServerInv, TypeOK
  <2>2. MaxRate \in Nat /\ now \in 0..MaxClock
    BY PcpAssumption DEF ServerInv, TypeOK
  <2>3. Charge(rate[s]).bytes <= MaxRate
    <3>1. Charge(rate[s]).bytes \in Int
      BY <2>1 DEF Charge
    <3>2. ~(Charge(rate[s]).bytes > MaxRate)
      BY DEF Fatal
    <3> QED
      BY <3>1, <3>2, <2>2
  <2>4. Charge(rate[s]) \in [window : -1..MaxClock, bytes : 0..(MaxRate + 1)]
    BY <2>3, ChargeType DEF ServerInv
  <2> QED
    BY <2>1, <2>4
<1>3. handshake' \in [Session -> {"BeforeHelo", "Established"}]
  BY DEF OnAtom, ServerInv, TypeOK
<1>4. /\ EntriesOK' /\ MapsSound' /\ ListedAsHeld' /\ queue' = queue
      /\ IsFiniteSet(Held')
      /\ upserts' \in Nat /\ ends' \in Nat
      /\ ends' + Cardinality(Held') <= upserts' /\ upserts' <= upserts + 1
  <2>1. CASE UNCHANGED <<channels, registryVars>>
    <3>1. Held' = Held
      BY <2>1 DEF Held
    <3>2. EntriesOK' /\ MapsSound' /\ ListedAsHeld'
      BY <2>1 DEF registryVars, EntriesOK, MapsSound, ListedAsHeld, ServerInv, TypeOK
    <3>3. upserts' = upserts /\ ends' = ends /\ queue' = queue
      BY <2>1 DEF registryVars
    <3> QED
      BY <3>1, <3>2, <3>3, Counts DEF ServerInv, Accounting
  <2>2. CASE a.kind = "bcst" /\ Fits(s, a.ch) /\ Upsert(s, a)
    <3>1. /\ EntriesOK' /\ MapsSound' /\ ListedAsHeld'
          /\ DOMAIN channels'[s] = DOMAIN channels[s] \union {a.ch}
          /\ \A t \in Session \ {s} : channels'[t] = channels[t]
      BY <2>2, UpsertEntries
    <3>2. IsFiniteSet(Held') /\ Cardinality(Held') <= Cardinality(Held) + 1
      BY <2>2, <3>1, BcstFields, HeldGrows
    <3>3. upserts' = upserts + 1 /\ ends' = ends /\ queue' = queue
      BY <2>2 DEF Upsert
    <3>4. Cardinality(Held') \in Nat
      BY <3>2, FS_CardinalityType
    <3>5. ends' + Cardinality(Held') <= upserts' /\ upserts' \in Nat /\ ends' \in Nat
      BY <3>2, <3>3, <3>4, Counts
    <3>6. upserts' <= upserts + 1
      BY <3>3, Counts
    <3> QED
      BY <3>1, <3>2, <3>3, <3>5, <3>6
  <2>3. CASE a.ch \in DOMAIN channels[s] /\ ends' = ends + 1 /\ End(s, a.ch)
    <3>1. /\ EntriesOK' /\ MapsSound' /\ ListedAsHeld'
          /\ DOMAIN channels'[s] = DOMAIN channels[s] \ {a.ch}
          /\ \A t \in Session \ {s} : channels'[t] = channels[t]
      BY <2>3, EndEntries
    <3>2. IsFiniteSet(Held') /\ Cardinality(Held') = Cardinality(Held) - 1
      BY <2>3, <3>1, HeldFalls
    <3>3. upserts' = upserts /\ ends' = ends + 1 /\ queue' = queue
      BY <2>3 DEF End
    <3>5. ends' + Cardinality(Held') <= upserts' /\ upserts' \in Nat /\ ends' \in Nat
      BY <3>2, <3>3, Counts
    <3>6. upserts' <= upserts + 1
      BY <3>3, Counts
    <3> QED
      BY <3>1, <3>2, <3>3, <3>5, <3>6
  <2> QED
    BY <2>1, <2>2, <2>3 DEF OnAtom, HandleBcst
<1>5. upserts' + Cardinality(Unread') <= sent' /\ sent' = sent
  BY <1>1, <1>4, Counts
<1>6. Cardinality(Held') \in Nat /\ Cardinality(Unread') \in Nat
  BY <1>1, <1>4, FS_CardinalityType
<1>7. upserts' <= MaxAtoms
  BY <1>4, <1>5, <1>6, Counts
<1>8. ends' <= MaxAtoms
  BY <1>4, <1>6, <1>7, Counts
<1>9. sent' \in 0..MaxAtoms /\ upserts' \in 0..MaxAtoms /\ ends' \in 0..MaxAtoms
  BY <1>4, <1>5, <1>7, <1>8, Counts
<1>10. Accounting'
  BY <1>1, <1>4, <1>5 DEF Accounting
<1>11. TypeOK'
  BY <1>1, <1>2, <1>3, <1>4, <1>9 DEF TypeOK, EntriesOK, ServerInv
<1> QED
  BY <1>4, <1>10, <1>11 DEF ServerInv

\* A chunk read is so many atoms sent and unread.
LEMMA ReadKeeps ==
    ASSUME ServerInv, NEW s \in Session, Read(s)
    PROVE  ServerInv'
<1>1. PICK n \in 1..ChunkMax : /\ sent + n <= MaxAtoms
                               /\ sent' = sent + n
                               /\ buf' = [buf EXCEPT ![s] = n]
  BY DEF Read
<1>2. buf \in [Session -> 0..ChunkMax] /\ buf[s] = 0 /\ ChunkMax \in Nat
  BY PcpAssumption DEF ServerInv, TypeOK, Read, Waiting
<1>3. IsFiniteSet(Unread') /\ Cardinality(Unread') = Cardinality(Unread) + n
  <2> DEFINE New == {s} \X (1..n)
  <2>1. IsFiniteSet(New) /\ Cardinality(New) = n
    <3>1. IsFiniteSet({s}) /\ Cardinality({s}) = 1
      BY FS_Singleton
    <3>2. n \in Nat /\ n >= 1
      BY <1>2
    <3>3. IsFiniteSet(1..n) /\ Cardinality(1..n) = n
      BY <3>2, FS_Interval
    <3>4. IsFiniteSet(New) /\ Cardinality(New) = 1 * n
      BY <3>1, <3>3, FS_Product, ZenonT(60)
    <3> QED
      BY <3>2, <3>4
  <2>2. Unread' = Unread \union New
    <3>1. ASSUME NEW t \in Session, NEW i \in 1..ChunkMax
          PROVE  i <= buf'[t] <=> (i <= buf[t] \/ (t = s /\ i \in 1..n))
      <4>1. CASE t = s
        BY <4>1, <1>1, <1>2
      <4>2. CASE t # s
        BY <4>2, <1>1, <1>2
      <4> QED
        BY <4>1, <4>2
    <3>2. New \subseteq Session \X (1..ChunkMax)
      BY <1>2
    <3>3. \A p \in Session \X (1..ChunkMax) : p \in New <=> p[1] = s /\ p[2] \in 1..n
      OBVIOUS
    <3> HIDE DEF New
    <3> QED
      BY <3>1, <3>2, <3>3 DEF Unread
  <2>3. Unread \cap New = {}
    BY <1>2 DEF Unread
  <2>4. IsFiniteSet(Unread)
    BY DEF ServerInv, Accounting
  <2> HIDE DEF New
  <2>5. /\ IsFiniteSet(Unread \union New)
        /\ Cardinality(Unread \union New) = Cardinality(Unread) + Cardinality(New) - Cardinality({})
    BY <2>1, <2>3, <2>4, FS_Union
  <2>6. Cardinality({}) = 0
    BY FS_EmptySet
  <2> QED
    BY <1>2, <2>1, <2>2, <2>5, <2>6, Counts
<1>4. UNCHANGED <<now, shutdown, phase, handshake, rate, channels, listing, pending, queue, upserts, ends>>
  BY DEF Read, registryVars
<1>5. Held' = Held
  BY <1>4 DEF Held
<1>6. upserts' + Cardinality(Unread') <= sent' /\ sent' \in 0..MaxAtoms
  BY <1>1, <1>2, <1>3, <1>4, Counts
<1>7. Accounting'
  BY <1>3, <1>4, <1>5, <1>6 DEF Accounting, ServerInv
<1>8. buf' \in [Session -> 0..ChunkMax]
  BY <1>1, <1>2
<1>9. TypeOK'
  BY <1>4, <1>6, <1>8 DEF TypeOK, ServerInv
<1>10. MapsSound' /\ ListedAsHeld'
  BY <1>4 DEF MapsSound, ListedAsHeld, ServerInv
<1> QED
  BY <1>7, <1>9, <1>10 DEF ServerInv

\* end_all ends what was counted when the connection broke off.
LEMMA EndAllKeeps ==
    ASSUME ServerInv, NEW s \in Session, EndAll(s)
    PROVE  ServerInv'
<1>1. UNCHANGED <<now, shutdown, handshake, buf, rate, sent, ends>> /\ phase[s] = "ending"
  BY DEF EndAll
<1>2. Unread' = Unread
  BY <1>1 DEF Unread
<1>3. CASE \E c \in DOMAIN channels[s] : End(s, c) /\ UNCHANGED phase
  <2>1. PICK c \in DOMAIN channels[s] : End(s, c) /\ UNCHANGED phase
    BY <1>3
  <2>2. /\ EntriesOK' /\ MapsSound' /\ ListedAsHeld'
        /\ \A t \in Session \ {s} : channels'[t] = channels[t]
    BY <2>1, EndEntries
  <2>3. Held' = Held
    BY <1>1, <2>1, <2>2 DEF Held
  <2>4. queue' = queue /\ upserts' = upserts
    BY <2>1 DEF End
  <2>5. Accounting'
    BY <1>1, <1>2, <2>3, <2>4 DEF Accounting, ServerInv
  <2>6. TypeOK'
    BY <1>1, <2>1, <2>2, <2>4 DEF TypeOK, EntriesOK, ServerInv
  <2> QED
    BY <2>2, <2>5, <2>6 DEF ServerInv
<1>4. CASE /\ channels[s] = NoChannels
           /\ phase' = [phase EXCEPT ![s] = "none"]
           /\ UNCHANGED <<channels, listing, pending, queue, upserts>>
  <2>1. Held' = Held
    <3>1. DOMAIN channels[s] = {}
      BY <1>4 DEF NoChannels
    <3>2. \A t \in Session \ {s} : phase'[t] = phase[t]
      BY <1>4 DEF ServerInv, TypeOK
    <3> QED
      BY <3>1, <3>2, <1>4 DEF Held
  <2>2. Accounting'
    BY <1>1, <1>2, <1>4, <2>1 DEF Accounting, ServerInv
  <2>3. TypeOK' /\ MapsSound' /\ ListedAsHeld'
    BY <1>1, <1>4 DEF TypeOK, MapsSound, ListedAsHeld, ServerInv
  <2> QED
    BY <2>2, <2>3 DEF ServerInv
<1> QED
  BY <1>3, <1>4 DEF EndAll

\* The notification goes to a queue that drops its oldest value when full.
LEMMA NotifyKeeps ==
    ASSUME ServerInv, NEW s \in Session, Notify(s)
    PROVE  ServerInv'
<1>1. queue \in Seq(Change) /\ Len(queue) <= QueueMax /\ QueueMax \in Nat \ {0}
  BY PcpAssumption DEF ServerInv, TypeOK
<1>2. pending[s] \in Change /\ pending \in [Session -> Change \union {Nothing}]
  BY DEF Notify, ServerInv, TypeOK
<1>3. queue' = Append(IF Len(queue) = QueueMax THEN Tail(queue) ELSE queue, pending[s])
  BY DEF Notify
<1>4. queue' \in Seq(Change) /\ Len(queue') <= QueueMax
  <2>1. CASE Len(queue) = QueueMax
    <3>1. queue # <<>>
      BY <2>1, <1>1
    <3>2. Tail(queue) \in Seq(Change) /\ Len(Tail(queue)) = QueueMax - 1
      BY <3>1, <2>1, <1>1
    <3> QED
      BY <3>2, <2>1, <1>1, <1>2, <1>3
  <2>2. CASE Len(queue) # QueueMax
    BY <2>2, <1>1, <1>2, <1>3
  <2> QED
    BY <2>1, <2>2
<1>5. UNCHANGED <<now, shutdown, phase, handshake, buf, rate, channels, listing, sent, upserts, ends>>
  BY DEF Notify
<1>6. Held' = Held /\ Unread' = Unread
  BY <1>5 DEF Held, Unread
<1>7. pending' \in [Session -> Change \union {Nothing}]
  BY <1>2 DEF Notify
<1>8. TypeOK'
  BY <1>4, <1>5, <1>7 DEF TypeOK, ServerInv
<1>9. Accounting' /\ MapsSound' /\ ListedAsHeld'
  BY <1>5, <1>6 DEF Accounting, MapsSound, ListedAsHeld, ServerInv
<1> QED
  BY <1>8, <1>9 DEF ServerInv

\* The steps that touch neither the maps nor the counts.
LEMMA OthersKeep ==
    ASSUME ServerInv, Take \/ Shutdown \/ Tick \/ \E s \in Session : Accept(s)
    PROVE  ServerInv'
<1>1. UNCHANGED <<handshake, buf, rate, channels, listing, pending, sent, upserts, ends>>
  BY DEF Take, Shutdown, Tick, Accept, registryVars
<1>2. /\ phase' \in [Session -> {"none", "open", "ending"}]
      /\ \A t \in Session : phase'[t] # "ending" <=> phase[t] # "ending"
  BY DEF Take, Shutdown, Tick, Accept, ServerInv, TypeOK
<1>3. queue' \in Seq(Change) /\ Len(queue') <= QueueMax
  <2>1. queue \in Seq(Change) /\ Len(queue) <= QueueMax /\ QueueMax \in Nat
    BY PcpAssumption DEF ServerInv, TypeOK
  <2>2. CASE Take
    <3>1. queue # <<>> /\ queue' = Tail(queue)
      BY <2>2 DEF Take
    <3>2. Tail(queue) \in Seq(Change) /\ Len(Tail(queue)) = Len(queue) - 1
      BY <3>1, <2>1
    <3> QED
      BY <3>1, <3>2, <2>1
  <2>3. CASE queue' = queue
    BY <2>1, <2>3
  <2> QED
    BY <2>2, <2>3 DEF Shutdown, Tick, Accept, registryVars
<1>4. now' \in 0..MaxClock /\ shutdown' \in BOOLEAN
  <2>1. now \in 0..MaxClock /\ shutdown \in BOOLEAN /\ MaxClock \in Nat
    BY PcpAssumption DEF ServerInv, TypeOK
  <2>2. CASE Tick
    BY <2>1, <2>2 DEF Tick
  <2>3. CASE now' = now /\ shutdown' \in BOOLEAN
    BY <2>1, <2>3
  <2>4. Tick \/ (now' = now /\ shutdown' \in BOOLEAN)
    BY <2>1 DEF Take, Shutdown, Accept
  <2> QED
    BY <2>2, <2>3, <2>4
<1>5. Held' = Held /\ Unread' = Unread
  BY <1>1, <1>2 DEF Held, Unread
<1>6. Accounting' /\ MapsSound' /\ ListedAsHeld'
  BY <1>1, <1>5 DEF Accounting, MapsSound, ListedAsHeld, ServerInv
<1>7. TypeOK'
  BY <1>1, <1>2, <1>3, <1>4 DEF TypeOK, ServerInv
<1> QED
  BY <1>6, <1>7 DEF ServerInv

\* Handle either breaks the connection off or handles the atom.
LEMMA HandleCases ==
    ASSUME NEW s \in Session, Handle(s)
    PROVE  /\ phase[s] = "open" /\ pending[s] = Nothing
           /\ \/ Break(s)
              \/ \E a \in Atom :
                    /\ buf[s] > 0 /\ ~Fatal(s, a) /\ OnAtom(s, a)
                    /\ buf' = [buf EXCEPT ![s] = @ - 1]
                    /\ rate' = [rate EXCEPT ![s] = Charge(@)]
                    /\ UNCHANGED <<now, shutdown, phase, sent>>
BY DEF Handle

\* Every step keeps the invariant.
LEMMA ServerStep == ServerInv /\ [Next]_vars => ServerInv'
<1> SUFFICES ASSUME ServerInv, [Next]_vars PROVE ServerInv'
  OBVIOUS
<1>1. CASE UNCHANGED vars
  <2>1. Held' = Held /\ Unread' = Unread
    BY <1>1 DEF vars, Held, Unread
  <2> QED
    BY <1>1, <2>1 DEF vars, ServerInv, TypeOK, MapsSound, Accounting, ListedAsHeld
<1>2. ASSUME NEW s \in Session, Disconnect(s) \/ ObeyShutdown(s) PROVE ServerInv'
  BY <1>2, BreakKeeps DEF Disconnect, ObeyShutdown, Waiting
<1>3. ASSUME NEW s \in Session, Handle(s) PROVE ServerInv'
  BY <1>3, HandleCases, BreakKeeps, OnAtomKeeps
<1>4. ASSUME NEW s \in Session, Read(s) \/ EndAll(s) \/ Notify(s) PROVE ServerInv'
  BY <1>4, ReadKeeps, EndAllKeeps, NotifyKeeps
<1>5. CASE Take \/ Shutdown \/ Tick \/ \E s \in Session : Accept(s)
  BY <1>5, OthersKeep
<1> QED
  BY <1>1, <1>2, <1>3, <1>4, <1>5 DEF Next

\* The invariant holds in every reachable state of the announce server.
LEMMA ServerInvariant == Spec => []ServerInv
<1>1. ServerInv /\ [Next]_vars => ServerInv'
  BY ServerStep
<1> QED
  BY <1>1, ServerInit, PTL DEF Spec

-----------------------------------------------------------------------------
(***************************************************************************)
(* The theorems.                                                           *)
(***************************************************************************)

\* Whatever the sessions do, every map stays within its limits, and every
\* channel the registry lists is listed exactly as some session holds it.
THEOREM HoldingsAlwaysSound == Spec => []HoldingsSound
<1>1. ServerInv => HoldingsSound
  BY DEF ServerInv, HoldingsSound
<1> QED
  BY <1>1, ServerInvariant, PTL

\* No step takes the name or the start of a channel from a session that keeps
\* the channel.
THEOREM InfoIsKept == Spec => InfoKept
<1> DEFINE Kept == \A s \in Session : \A c \in DOMAIN channels[s] \intersect DOMAIN channels'[s] :
                      /\ channels[s][c].named => channels'[s][c].named
                      /\ channels[s][c].started = channels'[s][c].started
<1>1. ServerInv /\ [Next]_vars => [Kept]_vars
  <2> SUFFICES ASSUME ServerInv, Next PROVE Kept
    OBVIOUS
  <2>1. CASE channels' = channels
    BY <2>1
  <2>2. ASSUME NEW s \in Session, NEW c \in DOMAIN channels[s], End(s, c) PROVE Kept
    <3>1. /\ \A x \in DOMAIN channels'[s] : channels'[s][x] = channels[s][x]
          /\ \A t \in Session \ {s} : channels'[t] = channels[t]
      BY <2>2, EndEntries
    <3> QED
      BY <3>1
  <2>3. ASSUME NEW s \in Session, NEW a \in Atom, a.kind = "bcst", Fits(s, a.ch), Upsert(s, a)
        PROVE  Kept
    <3>1. /\ channels'[s][a.ch] = Merged(s, a)
          /\ \A x \in DOMAIN channels[s] \ {a.ch} : channels'[s][x] = channels[s][x]
          /\ \A t \in Session \ {s} : channels'[t] = channels[t]
      BY <2>3, UpsertEntries
    <3>2. a.ch \in DOMAIN channels[s] =>
             /\ channels[s][a.ch].named => Merged(s, a).named
             /\ Merged(s, a).started = channels[s][a.ch].started
      BY <2>3, MergedRecord DEF ServerInv
    <3> QED
      BY <3>1, <3>2
  <2>4. ASSUME NEW s \in Session, Handle(s) PROVE Kept
    <3>1. CASE Break(s)
      BY <3>1, <2>1 DEF Break
    <3>2. ASSUME NEW a \in Atom, OnAtom(s, a) PROVE Kept
      <4>1. CASE a.kind = "bcst" /\ HandleBcst(s, a)
        BY <4>1, <2>1, <2>2, <2>3 DEF HandleBcst
      <4>2. CASE channels' = channels
        BY <4>2, <2>1
      <4> QED
        BY <3>2, <4>1, <4>2 DEF OnAtom
    <3> QED
      BY <2>4, <3>1, <3>2, HandleCases
  <2>5. ASSUME NEW s \in Session, EndAll(s) PROVE Kept
    BY <2>5, <2>1, <2>2 DEF EndAll
  <2>6. ASSUME NEW s \in Session,
               Accept(s) \/ Read(s) \/ Disconnect(s) \/ ObeyShutdown(s) \/ Notify(s)
        PROVE  channels' = channels
    BY <2>6 DEF Accept, Read, Disconnect, ObeyShutdown, Notify, Break
  <2>7. CASE Take \/ Shutdown \/ Tick
    BY <2>7, <2>1 DEF Take, Shutdown, Tick
  <2> QED
    BY <2>1, <2>4, <2>5, <2>6, <2>7 DEF Next
<1> QED
  BY <1>1, ServerInvariant, PTL DEF Spec, InfoKept

-----------------------------------------------------------------------------
(***************************************************************************)
(* The sessions implement AnnounceRegistry.                                *)
(***************************************************************************)

\* What the publishing bridge sees of the sessions.
owned == [s \in Session |-> DOMAIN channels[s]]
closing == {s \in Session : phase[s] = "ending"}

\* The registry counts as this module does.
LEMMA SameCount ==
    ASSUME NEW S
    PROVE  Registry!Cardinality(S) = Cardinality(S)
BY DEF Cardinality, Registry!Cardinality

\* A step that changes nothing the bridge sees is a stuttering step of the
\* registry.
LEMMA Invisible ==
    ASSUME DOMAIN listing' = DOMAIN listing, owned' = owned, closing' = closing,
           pending' = pending, queue' = queue, upserts' = upserts, ends' = ends
    PROVE  UNCHANGED Registry!announced
BY DEF Registry!announced, owned, closing

\* A connection that breaks off enters end_all, or held nothing.
LEMMA BreakImplements ==
    ASSUME ServerInv, NEW s \in Session, phase[s] = "open", pending[s] = Nothing, Break(s), ServerInv'
    PROVE  [Registry!RegistryNext \/ Registry!Take]_Registry!announced
<1> DEFINE D == DOMAIN channels[s]
<1>1. UNCHANGED <<channels, listing, pending, queue, upserts>> /\ ends' = ends + Cardinality(D)
  BY DEF Break
<1>2. channels[s] = NoChannels <=> D = {}
  BY EmptyMap DEF ServerInv, MapsSound
<1>3. phase \in [Session -> {"none", "open", "ending"}]
  BY DEF ServerInv, TypeOK
<1>4. owned' = owned /\ owned[s] = D
  BY <1>1 DEF owned
<1>5. CASE D = {}
  <2>1. Cardinality(D) = 0 /\ ends \in Nat
    BY <1>5, FS_EmptySet, Counts
  <2>2. ends' = ends
    BY <1>1, <2>1
  <2>3. closing' = closing
    BY <1>2, <1>3, <1>5 DEF closing, Break
  <2> QED
    BY <1>1, <1>4, <2>2, <2>3, Invisible
<1>6. CASE D # {}
  <2>1. closing' = closing \union {s} /\ s \notin closing
    BY <1>2, <1>3, <1>6 DEF closing, Break
  <2>2. ends + Cardinality(D) <= MaxAtoms
    BY <1>1 DEF ServerInv, TypeOK
  <2>3. /\ owned[s] # {} /\ ends + Cardinality(owned[s]) <= MaxAtoms
        /\ ends' = ends + Cardinality(owned[s])
    BY <1>1, <1>4, <1>6, <2>2
  <2>4. Registry!Disconnect(s)
    BY <1>1, <1>4, <2>1, <2>3, SameCount, Zenon DEF Registry!Disconnect, owned, closing
  <2> QED
    BY <2>4 DEF Registry!RegistryNext
<1> QED
  BY <1>5, <1>6

\* A broadcast of a playing channel is the registry's Bcst.
LEMMA UpsertImplements ==
    ASSUME ServerInv, NEW s \in Session, NEW a \in Atom, a.kind = "bcst",
           phase[s] = "open", pending[s] = Nothing, buf[s] > 0,
           Fits(s, a.ch), Upsert(s, a), phase' = phase
    PROVE  Registry!Bcst(s, a.ch)
<1>1. /\ DOMAIN channels'[s] = DOMAIN channels[s] \union {a.ch}
      /\ DOMAIN listing' = DOMAIN listing \union {a.ch}
      /\ \A t \in Session \ {s} : channels'[t] = channels[t]
  BY UpsertEntries
<1>2. owned' = [owned EXCEPT ![s] = @ \union {a.ch}]
  BY <1>1 DEF owned
<1>3. closing' = closing /\ s \notin closing
  BY DEF closing
<1>4. upserts < MaxAtoms
  <2>1. <<s, buf[s]>> \in Unread
    BY PcpAssumption DEF Unread, ServerInv, TypeOK
  <2>2. Cardinality(Unread) # 0
    BY <2>1, FS_EmptySet DEF ServerInv, Accounting
  <2> QED
    BY <2>2, Counts
<1>5. a.ch \in owned[s] \/ Cardinality(owned[s]) < MaxChannelsPerSession
  BY DEF owned, Fits
<1>6. /\ pending' = [pending EXCEPT ![s] = [ch |-> a.ch, kind |-> "live"]]
      /\ upserts' = upserts + 1 /\ UNCHANGED <<queue, ends>>
  BY DEF Upsert
<1> QED
  BY <1>1, <1>2, <1>3, <1>4, <1>5, <1>6, SameCount, Zenon DEF Registry!Bcst, owned, closing

\* ending a channel of a session is the registry's End.
LEMMA EndImplements ==
    ASSUME ServerInv, NEW s \in Session, NEW c \in DOMAIN channels[s], End(s, c)
    PROVE  Registry!End(s, c)
<1>1. /\ DOMAIN channels'[s] = DOMAIN channels[s] \ {c}
      /\ DOMAIN listing' = DOMAIN listing \ {c}
      /\ \A t \in Session \ {s} : channels'[t] = channels[t]
  BY EndEntries
<1>2. owned' = [owned EXCEPT ![s] = @ \ {c}]
  BY <1>1 DEF owned
<1>3. /\ pending' = IF c \in DOMAIN listing
                    THEN [pending EXCEPT ![s] = [ch |-> c, kind |-> "ended"]]
                    ELSE pending
      /\ UNCHANGED <<queue, upserts>>
  BY DEF End
<1> QED
  BY <1>1, <1>2, <1>3 DEF Registry!End, owned

\* Every step of the sessions is a step of the registry or invisible to it.
LEMMA ServerImplements ==
    ServerInv /\ ServerInv' /\ [Next]_vars => [Registry!RegistryNext \/ Registry!Take]_Registry!announced
<1> SUFFICES ASSUME ServerInv, ServerInv', [Next]_vars
             PROVE  [Registry!RegistryNext \/ Registry!Take]_Registry!announced
  OBVIOUS
<1>1. ASSUME UNCHANGED <<channels, listing, pending, queue, upserts, ends>>, closing' = closing
      PROVE  UNCHANGED Registry!announced
  <2>1. owned' = owned /\ DOMAIN listing' = DOMAIN listing
    BY <1>1 DEF owned
  <2> QED
    BY <1>1, <2>1, Invisible
<1>2. CASE UNCHANGED vars
  <2>1. closing' = closing
    BY <1>2 DEF vars, closing
  <2> QED
    BY <1>1, <1>2, <2>1 DEF vars
<1>3. ASSUME NEW s \in Session, Disconnect(s) \/ ObeyShutdown(s)
      PROVE  [Registry!RegistryNext \/ Registry!Take]_Registry!announced
  BY <1>3, BreakImplements DEF Disconnect, ObeyShutdown, Waiting
<1>4. ASSUME NEW s \in Session, Handle(s)
      PROVE  [Registry!RegistryNext \/ Registry!Take]_Registry!announced
  <2>1. phase[s] = "open" /\ pending[s] = Nothing
    BY <1>4, HandleCases
  <2>2. CASE Break(s)
    BY <2>1, <2>2, BreakImplements
  <2>3. ASSUME NEW a \in Atom, buf[s] > 0, OnAtom(s, a), phase' = phase
        PROVE  [Registry!RegistryNext \/ Registry!Take]_Registry!announced
    <3>0. closing' = closing /\ s \notin closing
      BY <2>1, <2>3 DEF closing
    <3>1. CASE a.kind = "bcst" /\ Fits(s, a.ch) /\ Upsert(s, a)
      <4>1. Registry!Bcst(s, a.ch)
        BY <2>1, <2>3, <3>1, UpsertImplements
      <4>2. a.ch \in Channel
        BY <3>1, BcstFields
      <4> QED
        BY <4>1, <4>2 DEF Registry!RegistryNext
    <3>2. CASE a.kind = "bcst" /\ a.ch \in DOMAIN channels[s] /\ ends' = ends + 1 /\ End(s, a.ch)
      <4>1. Registry!End(s, a.ch)
        BY <3>2, EndImplements
      <4>2. a.ch \in Channel
        BY <3>2, BcstFields
      <4>3. ends < MaxAtoms
        <5>1. ends' = ends + 1 /\ ends \in Nat /\ MaxAtoms \in Nat
          BY <3>2, Counts
        <5>2. ends' <= MaxAtoms
          BY DEF ServerInv, TypeOK
        <5> QED
          BY <5>1, <5>2
      <4>4. Registry!BcstStopped(s, a.ch)
        BY <2>1, <3>0, <3>2, <4>1, <4>3 DEF Registry!BcstStopped, closing
      <4> QED
        BY <4>2, <4>4 DEF Registry!RegistryNext
    <3>3. CASE UNCHANGED <<channels, registryVars>>
      BY <1>1, <3>0, <3>3 DEF registryVars
    <3> QED
      BY <2>3, <3>1, <3>2, <3>3 DEF OnAtom, HandleBcst
  <2> QED
    BY <1>4, <2>2, <2>3, HandleCases
<1>5. ASSUME NEW s \in Session, EndAll(s)
      PROVE  [Registry!RegistryNext \/ Registry!Take]_Registry!announced
  <2>1. phase[s] = "ending" /\ pending[s] = Nothing /\ ends' = ends
    BY <1>5 DEF EndAll
  <2>2. s \in closing
    BY <2>1 DEF closing
  <2>3. CASE \E c \in DOMAIN channels[s] : End(s, c) /\ UNCHANGED phase
    <3>1. PICK c \in DOMAIN channels[s] : End(s, c) /\ UNCHANGED phase
      BY <2>3
    <3>2. Registry!End(s, c)
      BY <3>1, EndImplements
    <3>3. closing' = closing
      BY <3>1 DEF closing
    <3>4. Registry!EndAll(s)
      BY <2>1, <2>2, <3>2, <3>3 DEF Registry!EndAll, closing
    <3> QED
      BY <3>4 DEF Registry!RegistryNext
  <2>4. CASE /\ channels[s] = NoChannels
             /\ phase' = [phase EXCEPT ![s] = "none"]
             /\ UNCHANGED <<channels, listing, pending, queue, upserts>>
    <3>1. DOMAIN channels[s] = {}
      BY <2>4 DEF NoChannels
    <3>2. closing' = closing \ {s}
      BY <2>4 DEF closing, ServerInv, TypeOK
    <3>3. owned' = owned /\ owned[s] = {}
      BY <2>4, <3>1 DEF owned
    <3>4. Registry!EndAll(s)
      BY <2>1, <2>2, <2>4, <3>2, <3>3 DEF Registry!EndAll, closing, owned
    <3> QED
      BY <3>4 DEF Registry!RegistryNext
  <2> QED
    BY <1>5, <2>3, <2>4 DEF EndAll
<1>6. ASSUME NEW s \in Session, Notify(s)
      PROVE  [Registry!RegistryNext \/ Registry!Take]_Registry!announced
  <2>1. Registry!Notify(s)
    BY <1>6 DEF Notify, Registry!Notify
  <2> QED
    BY <2>1 DEF Registry!RegistryNext
<1>7. CASE Take
  <2>1. Registry!Take
    BY <1>7 DEF Take, Registry!Take
  <2> QED
    BY <2>1
<1>8. ASSUME Shutdown \/ Tick \/ \E s \in Session : Accept(s) \/ Read(s)
      PROVE  UNCHANGED Registry!announced
  <2>1. UNCHANGED <<channels, listing, pending, queue, upserts, ends>>
    BY <1>8 DEF Shutdown, Tick, Accept, Read, registryVars
  <2>2. closing' = closing
    BY <1>8 DEF Shutdown, Tick, Accept, Read, closing, ServerInv, TypeOK
  <2> QED
    BY <1>1, <2>1, <2>2
<1> QED
  BY <1>2, <1>3, <1>4, <1>5, <1>6, <1>7, <1>8 DEF Next

\* Handshake, chunks, rate limit, permits and the merging of info and host are
\* invisible to the publishing bridge: the sessions implement the registry the
\* publishing engine is verified with.
THEOREM SessionsImplementRegistry == Spec => ImplementsRegistry
<1>1. Init => Registry!RegistryInit
  BY DEF Init, Registry!RegistryInit, NoChannels
<1>2. ServerInv /\ ServerInv' /\ [Next]_vars => [Registry!RegistryNext \/ Registry!Take]_Registry!announced
  BY ServerImplements
<1> QED
  BY <1>1, <1>2, ServerInvariant, PTL DEF Spec, ImplementsRegistry, Registry!RegistrySpec
=============================================================================
