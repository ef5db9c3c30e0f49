----------------------------- MODULE NodeProofs -----------------------------
(***************************************************************************)
(* Proofs about the life of the process, for any number of starts, keys,   *)
(* personas and concurrent requests, and whatever updates and command      *)
(* lines ask for: stored personas keep their key, what is saved passes the *)
(* gate of the next start, and listeners are where they may be.            *)
(***************************************************************************)
EXTENDS Node, TLAPS

\* The steps of run() before the key is in memory, and those after its health
\* is known.
BeforeKey == {"down", "config", "keystore", "keyWrite", "keySync"}
AfterHealth == {"p2p", "pcp", "http", "index", "audit", "running", "stopping"}

-----------------------------------------------------------------------------
(***************************************************************************)
(* The inductive invariant.                                                *)
(***************************************************************************)

\* The process and its listeners: what passed the gate is what is bound.
ProcSound ==
  /\ pc \in BeforeKey \cup {"permissions"} \cup AfterHealth
  /\ proc \in [effective : {proc.effective}, health : {"Ok", "Unavailable"},
               http : {Absent, "loopback"}, index : {Absent, "loopback", "mapped", "lan"},
               audited : BOOLEAN, reachable : BOOLEAN, tasks : SUBSET Task,
               mapping : BOOLEAN, clients : SUBSET Server]
  /\ pc \notin {"down", "config"} => Validate(proc.effective)
  /\ Serving => (proc.audited <=> proc.index = "lan")

\* Every value a request has yet to save passed the gate together with its
\* neighbours, and the gate judges each key by itself.
PutSound(put) ==
  \/ put = Idle
  \/ /\ put \in [left : Seq(SettingKey), next : {put.next}]
     /\ put.left # <<>> /\ Validate(put.next)

SettingsSound ==
  /\ DOMAIN table = SettingKey
  /\ Validate(Load(table))
  /\ DOMAIN puts = Handler
  /\ \A h \in Handler : PutSound(puts[h])

\* What the key file and the secrets are at any time.
KeyTyped ==
  /\ file \in {Absent, Short} \cup Key /\ lastKey \in 0..MaxKeys
  /\ synced \in BOOLEAN /\ readable \in BOOLEAN
  /\ secret \in [Persona -> {Absent, OtherScheme} \cup Key]
  /\ master \in {Absent} \cup Key

\* Where the creation of the key is, and what memory holds of it.
KeyProgress ==
  /\ pc = "keyWrite" => file = Short /\ lastKey < MaxKeys
  /\ pc = "keySync" => file \in Key /\ ~synced
  /\ pc \in BeforeKey => master = Absent
  /\ master # Absent => file = master
  /\ ~tampered => readable /\ perm \in {"strict", "loose"}

\* Without damage: a key is synced as soon as it can be used, every secret is
\* encrypted under the key in the file, and a process that got past the
\* keystore holds that key and is in good health.
KeySafe ==
  ~tampered /\ ~cut =>
    /\ file \in Key => synced \/ pc = "keySync"
    /\ \A p \in Persona : secret[p] \in Key =>
         /\ file = secret[p] /\ synced
         /\ pc = "permissions" => master = file /\ init \notin {"Corrupt", "Unreadable"}
         /\ pc \in AfterHealth => master = file /\ proc.health = "Ok"

NodeInv == ProcSound /\ SettingsSound /\ KeyTyped /\ KeyProgress /\ KeySafe

-----------------------------------------------------------------------------
(***************************************************************************)
(* The settings.                                                           *)
(***************************************************************************)

\* The keys that are saved.
LEMMA Keys == SettingKey = {"http", "encoding", "index"}
  BY DEF SettingKey, ToSet, SaveOrder

\* A save starts with all of them.
LEMMA SaveOrderTyped == SaveOrder \in Seq(SettingKey) /\ SaveOrder # <<>>
  <1>1. SaveOrder \in Seq({"http", "encoding", "index"})
    BY DEF SaveOrder
  <1>2. SaveOrder # <<>>
    BY DEF SaveOrder
  <1> QED BY <1>1, <1>2, Keys

\* The gate judges each key by itself, so that a table of which one key is
\* replaced by that of settings that passed still passes: this is what makes
\* saves that are cut off, or that interleave, harmless.
LEMMA GateIsKeywise ==
    ASSUME NEW t, DOMAIN t = SettingKey, Validate(Load(t)),
           NEW s, Validate(s), NEW k \in SettingKey
    PROVE  Validate(Load([t EXCEPT ![k] = s[k]]))
  <1> DEFINE u == [t EXCEPT ![k] = s[k]]
  <1>1. \A j \in SettingKey : u[j] = IF j = k THEN s[k] ELSE t[j]
    OBVIOUS
  <1> HIDE DEF u
  <1>2. /\ Load(u)["http"] = IF u["http"] = Unset THEN "loopback" ELSE u["http"]
        /\ Load(u)["encoding"] = IF u["encoding"] = Unset THEN "utf-8" ELSE u["encoding"]
        /\ Load(u)["index"] = IF u["index"] = Unset THEN "" ELSE u["index"]
    BY Keys DEF Load, Default
  <1>3. /\ Load(t)["http"] = IF t["http"] = Unset THEN "loopback" ELSE t["http"]
        /\ Load(t)["encoding"] = IF t["encoding"] = Unset THEN "utf-8" ELSE t["encoding"]
        /\ Load(t)["index"] = IF t["index"] = Unset THEN "" ELSE t["index"]
    BY Keys DEF Load, Default
  <1>4. Validate(Load(u))
    <2>1. RequireLoopback(Load(u)["http"])
      BY <1>1, <1>2, <1>3, Keys DEF Validate, RequireLoopback, Parses, IsLoopback
    <2>2. Load(u)["encoding"] \in {"utf-8", "utf8", "shift_jis"}
      BY <1>1, <1>2, <1>3, Keys DEF Validate
    <2>3. Load(u)["index"] # "" => RequireLanOrLoopback(Load(u)["index"])
      BY <1>1, <1>2, <1>3, Keys DEF Validate
    <2> QED BY <2>1, <2>2, <2>3 DEF Validate
  <1> QED BY <1>4 DEF u

\* Saving a key takes the first from a request that passed the gate.
LEMMA SaveKeyStep ==
    ASSUME SettingsSound, NEW h \in Handler, SaveKey(h)
    PROVE  SettingsSound'
  <1>1. PICK put : put = puts[h]
    OBVIOUS
  <1>2. PICK k : k = Head(put.left)
    OBVIOUS
  <1>3. PICK rest : rest = Tail(put.left)
    OBVIOUS
  <1>4. /\ put \in [left : Seq(SettingKey), next : {put.next}]
        /\ put.left # <<>> /\ Validate(put.next)
    BY <1>1 DEF SettingsSound, PutSound, SaveKey
  <1>5. k \in SettingKey /\ rest \in Seq(SettingKey)
    BY <1>2, <1>3, <1>4
  <1>6. /\ table' = [table EXCEPT ![k] = put.next[k]]
        /\ puts' = [puts EXCEPT ![h] = IF rest = <<>> THEN Idle ELSE [put EXCEPT !.left = rest]]
    BY <1>1, <1>2, <1>3 DEF SaveKey
  <1>7. DOMAIN table' = SettingKey /\ Validate(Load(table'))
    BY <1>4, <1>5, <1>6, GateIsKeywise DEF SettingsSound
  <1>8. rest # <<>> => PutSound([put EXCEPT !.left = rest])
    BY <1>4, <1>5 DEF PutSound
  <1>9. \A g \in Handler : PutSound(puts'[g])
    BY <1>6, <1>8 DEF SettingsSound, PutSound
  <1> QED BY <1>6, <1>7, <1>9 DEF SettingsSound

\* A request that passes the gate starts with all keys to save.
LEMMA PutStep ==
    ASSUME SettingsSound, NEW h \in Handler, NEW u, PutSettings(h, u)
    PROVE  SettingsSound'
  <1>1. PICK next : next = ApplyTo(Load(table), u)
    OBVIOUS
  <1>2. /\ puts' = [puts EXCEPT ![h] =
             IF Validate(next) THEN [left |-> SaveOrder, next |-> next] ELSE Idle]
        /\ table' = table
    BY <1>1 DEF PutSettings, Acceptable, stored
  <1>3. Validate(next) => PutSound([left |-> SaveOrder, next |-> next])
    BY SaveOrderTyped DEF PutSound
  <1>4. \A g \in Handler : PutSound(puts'[g])
    BY <1>2, <1>3 DEF SettingsSound, PutSound
  <1> QED BY <1>2, <1>4 DEF SettingsSound

\* Every step keeps what is stored, and what is yet to be stored, valid.
LEMMA SettingsStep ==
    ASSUME SettingsSound, [Next]_vars
    PROVE  SettingsSound'
  <1>1. CASE UNCHANGED <<table, puts>>
    BY <1>1 DEF SettingsSound
  <1>2. CASE Gone
    BY <1>2 DEF Gone, stored, SettingsSound, PutSound
  <1>3. ASSUME NEW h \in Handler, NEW u \in Updates, PutSettings(h, u) PROVE SettingsSound'
    BY <1>3, PutStep
  <1>4. ASSUME NEW h \in Handler, SaveKey(h) PROVE SettingsSound'
    BY <1>4, SaveKeyStep
  <1>5. ASSUME NEW h \in Handler, SaveFails(h) PROVE SettingsSound'
    BY <1>5 DEF SaveFails, stored, SettingsSound, PutSound
  <1>6. CASE \/ \E c \in CommandLines : Start(c)
             \/ EnforcePermissions \/ BindIndex \/ Audit
             \/ \E p \in Persona : CreatePersona(p)
             \/ TryMap \/ Signal \/ Tamper
             \/ \E t \in proc.tasks : TaskEnds(t)
             \/ \E s \in proc.clients : ClientsLeave(s)
    BY <1>1, <1>6 DEF Start, EnforcePermissions, BindIndex, Audit, CreatePersona, TryMap, Signal,
                      Tamper, TaskEnds, ClientsLeave, Step, stored
  <1>7. CASE CheckSettings \/ OpenKeystore \/ BindP2p \/ BindPcp \/ BindHttp \/ Stopped \/ Crash
    BY <1>1, <1>2, <1>7 DEF CheckSettings, OpenKeystore, BindP2p, BindPcp, BindHttp, Stopped,
                            Crash, Exit, Step, stored
  <1>8. CASE UNCHANGED vars
    BY <1>1, <1>8 DEF vars, stored
  <1> QED BY <1>3, <1>4, <1>5, <1>6, <1>7, <1>8 DEF Next

-----------------------------------------------------------------------------
(***************************************************************************)
(* The process.                                                            *)
(***************************************************************************)

Process ==
  [effective : {proc.effective}, health : {"Ok", "Unavailable"},
   http : {Absent, "loopback"}, index : {Absent, "loopback", "mapped", "lan"},
   audited : BOOLEAN, reachable : BOOLEAN, tasks : SUBSET Task, mapping : BOOLEAN,
   clients : SUBSET Server]

\* A process that is gone leaves nothing behind.
LEMMA GoneProc ==
    ASSUME Gone
    PROVE  ProcSound'
  <1>1. pc' = "down" /\ proc' = NoProcess
    BY DEF Gone
  <1>2. proc' \in Process'
    BY <1>1 DEF Process, NoProcess
  <1> QED BY <1>1, <1>2 DEF ProcSound, Process, BeforeKey, Serving

\* A step that leaves the process alone and stays before or within the same
\* part of its life.
LEMMA ProcKept ==
    ASSUME ProcSound, proc' = proc,
           pc' \in BeforeKey \cup {"permissions"} \cup AfterHealth,
           pc' \notin {"down", "config"} => Validate(proc.effective),
           Serving' => Serving
    PROVE  ProcSound'
  BY DEF ProcSound

\* A start reads its settings; nothing is bound yet.
LEMMA StartProc ==
    ASSUME ProcSound, NEW c \in CommandLines, Start(c)
    PROVE  ProcSound'
  <1>1. PICK e : e = ApplyOverrides(Load(table), c)
    OBVIOUS
  <1>2. pc' = "config" /\ proc' = [proc EXCEPT !.effective = e]
    BY <1>1 DEF Start
  <1>3. proc' \in Process'
    BY <1>2 DEF ProcSound, Process
  <1> QED BY <1>2, <1>3 DEF ProcSound, Process, BeforeKey, Serving

\* The binds use the settings that passed the gate.
LEMMA BindProc ==
    ASSUME ProcSound, EnforcePermissions \/ BindP2p \/ BindPcp \/ BindHttp \/ BindIndex \/ Audit
    PROVE  ProcSound'
  <1>1. proc \in Process /\ pc \in BeforeKey \cup {"permissions"} \cup AfterHealth
    BY DEF ProcSound, Process
  <1>2. CASE EnforcePermissions
    <2>1. PICK v : v = Evaluate(perm')
      OBVIOUS
    <2>2. v \in {"Ok", "Unavailable"}
      BY <2>1 DEF Evaluate
    <2>3. pc = "permissions" /\ pc' = "p2p" /\ proc' = [proc EXCEPT !.health = v]
      BY <1>2, <2>1 DEF EnforcePermissions
    <2>4. proc'.effective = proc.effective /\ proc' \in Process
      BY <1>1, <2>2, <2>3 DEF Process
    <2> QED BY <2>3, <2>4 DEF ProcSound, Process, AfterHealth, Serving
  <1>3. CASE BindP2p
    <2>1. CASE Gone
      BY <2>1, GoneProc
    <2>2. ASSUME NEW bound \in SUBSET {"v4", "v6"}, Step("p2p", "pcp"),
                 proc' = [proc EXCEPT
                   !.reachable = bound = {"v6"},
                   !.tasks = {"loops"} \cup (IF "v4" \in bound THEN {"upnp"} ELSE {})]
          PROVE  ProcSound'
      <3>1. PICK T \in SUBSET Task : T = {"loops"} \cup (IF "v4" \in bound THEN {"upnp"} ELSE {})
        BY DEF Task
      <3>2. PICK b \in BOOLEAN : b = (bound = {"v6"})
        OBVIOUS
      <3>3. PICK half : half = [proc EXCEPT !.reachable = b]
        OBVIOUS
      <3>4. half \in Process /\ half.effective = proc.effective
        BY <1>1, <3>3 DEF Process
      <3>5. proc' = [half EXCEPT !.tasks = T]
        BY <1>1, <2>2, <3>1, <3>2, <3>3 DEF Process
      <3>6. proc' \in Process /\ proc'.effective = proc.effective
        BY <3>4, <3>5 DEF Process
      <3>7. pc = "p2p" /\ pc' = "pcp"
        BY <2>2 DEF Step
      <3> QED BY <3>6, <3>7 DEF ProcSound, Process, AfterHealth, Serving
    <2> QED BY <1>3, <2>1, <2>2 DEF BindP2p, Exit
  <1>4. CASE BindPcp
    <2>1. CASE Gone
      BY <2>1, GoneProc
    <2>2. CASE Step("pcp", "http") /\ UNCHANGED proc
      BY <2>2, ProcKept DEF Step, ProcSound, AfterHealth, Serving
    <2> QED BY <1>4, <2>1, <2>2 DEF BindPcp, Exit
  <1>5. CASE BindHttp
    <2>1. CASE Gone
      BY <2>1, GoneProc
    <2>2. CASE Step("http", "index") /\ proc' = [proc EXCEPT !.http = proc.effective.http]
      <3>1. pc = "http" /\ pc' = "index"
        BY <2>2 DEF Step
      <3>2. proc.effective.http = "loopback"
        BY <3>1 DEF ProcSound, Validate, RequireLoopback, IsLoopback
      <3>3. proc' = [proc EXCEPT !.http = "loopback"]
        BY <2>2, <3>2
      <3>4. proc' \in Process /\ proc'.effective = proc.effective
        BY <1>1, <3>3 DEF Process
      <3> QED BY <3>1, <3>4 DEF ProcSound, Process, AfterHealth, Serving
    <2> QED BY <1>5, <2>1, <2>2 DEF BindHttp, Exit
  <1>6. CASE BindIndex
    <2>1. pc = "index" /\ pc' = "audit"
      BY <1>6 DEF BindIndex, Step
    <2>2. PICK listener \in {Absent} \cup ({proc.effective.index} \ {""}) :
             proc' = [proc EXCEPT !.index = listener]
      BY <1>6 DEF BindIndex
    <2>3. listener \in {Absent, "loopback", "mapped", "lan"}
      BY <2>1, <2>2 DEF ProcSound, Validate, RequireLanOrLoopback, Canonical
    <2>4. proc' \in Process /\ proc'.effective = proc.effective
      BY <1>1, <2>2, <2>3 DEF Process
    <2> QED BY <2>1, <2>4 DEF ProcSound, Process, AfterHealth, Serving
  <1>7. CASE Audit
    <2>1. pc = "audit" /\ pc' = "running"
      BY <1>7 DEF Audit, Step
    <2>2. PICK exposed \in BOOLEAN :
             exposed = (proc.index # Absent /\ ~IsLoopback(Canonical(proc.index)))
      OBVIOUS
    <2>3. PICK T : /\ T = proc.tasks \cup (IF proc.index = Absent THEN {"http"} ELSE Server)
                   /\ proc' = [proc EXCEPT !.audited = exposed, !.tasks = T]
      BY <1>7, <2>2 DEF Audit
    <2>4. /\ proc' \in Process /\ proc'.effective = proc.effective
          /\ proc'.audited = exposed /\ proc'.index = proc.index
      <3>1. T \in SUBSET Task
        BY <1>1, <2>3 DEF Process, Task, Server
      <3>2. PICK half : half = [proc EXCEPT !.audited = exposed]
        OBVIOUS
      <3>3. /\ half \in Process /\ half.effective = proc.effective
            /\ half.audited = exposed /\ half.index = proc.index
        BY <1>1, <3>2 DEF Process
      <3>4. proc' = [half EXCEPT !.tasks = T]
        BY <1>1, <2>3, <3>2 DEF Process
      <3> QED BY <3>1, <3>3, <3>4 DEF Process
    <2>5. proc.index \in {Absent, "loopback", "mapped", "lan"}
      BY <1>1 DEF Process
    <2>6. exposed <=> proc.index = "lan"
      BY <2>2, <2>5, NodeAssumption DEF IsLoopback, Canonical
    <2> QED BY <2>1, <2>4, <2>6 DEF ProcSound, Process, AfterHealth
  <1> QED BY <1>2, <1>3, <1>4, <1>5, <1>6, <1>7

\* The tasks of a running process, and the clients of a stopping one, leave
\* its listeners alone.
LEMMA TaskProc ==
    ASSUME ProcSound,
           \/ TryMap \/ \E t \in proc.tasks : TaskEnds(t)
           \/ Signal \/ \E s \in proc.clients : ClientsLeave(s)
    PROVE  ProcSound'
  <1>1. proc \in Process /\ pc \in BeforeKey \cup {"permissions"} \cup AfterHealth
    BY DEF ProcSound, Process
  <1>2. /\ pc' = pc \/ (pc = "running" /\ pc' = "stopping")
        /\ proc' \in Process /\ proc'.effective = proc.effective
        /\ proc'.audited = proc.audited /\ proc'.index = proc.index
    <2>3. ASSUME NEW busy \in SUBSET Server, proc' = [proc EXCEPT !.clients = busy]
          PROVE  /\ proc' \in Process /\ proc'.effective = proc.effective
                 /\ proc'.audited = proc.audited /\ proc'.index = proc.index
      BY <1>1, <2>3 DEF Process
    <2>4. CASE Signal
      BY <2>3, <2>4 DEF Signal, Step
    <2>5. ASSUME NEW s \in proc.clients, ClientsLeave(s)
          PROVE  /\ pc' = pc /\ proc' \in Process /\ proc'.effective = proc.effective
                 /\ proc'.audited = proc.audited /\ proc'.index = proc.index
      <3>1. proc.clients \ {s} \in SUBSET Server
        BY <1>1 DEF Process
      <3>2. pc' = pc /\ proc' = [proc EXCEPT !.clients = proc.clients \ {s}]
        BY <2>5 DEF ClientsLeave, Step
      <3> QED BY <2>3, <3>1, <3>2
    <2>1. ASSUME NEW t \in proc.tasks, TaskEnds(t)
          PROVE  /\ pc' = pc /\ proc' \in Process /\ proc'.effective = proc.effective
                 /\ proc'.audited = proc.audited /\ proc'.index = proc.index
      <3>1. pc' = pc /\ proc' = [proc EXCEPT !.tasks = proc.tasks \ {t}]
        BY <2>1 DEF TaskEnds, Step
      <3> QED BY <1>1, <3>1 DEF Process
    <2>2. CASE TryMap
      <3>1. CASE proc' = [proc EXCEPT !.mapping = TRUE]
        BY <1>1, <2>2, <3>1 DEF TryMap, Process
      <3>2. ASSUME NEW ok \in BOOLEAN, proc' = [proc EXCEPT !.mapping = FALSE, !.reachable = ok]
            PROVE  /\ proc' \in Process /\ proc'.effective = proc.effective
                   /\ proc'.audited = proc.audited /\ proc'.index = proc.index
        <4>1. PICK half : half = [proc EXCEPT !.mapping = FALSE]
          OBVIOUS
        <4>2. /\ half \in Process /\ half.effective = proc.effective
              /\ half.audited = proc.audited /\ half.index = proc.index
          BY <1>1, <4>1 DEF Process
        <4>3. proc' = [half EXCEPT !.reachable = ok]
          BY <1>1, <3>2, <4>1 DEF Process
        <4> QED BY <4>2, <4>3 DEF Process
      <3> QED BY <2>2, <3>1, <3>2 DEF TryMap
    <2> QED BY <2>1, <2>2, <2>4, <2>5
  <1> QED BY <1>1, <1>2 DEF ProcSound, Process, Serving, AfterHealth

\* Every step keeps the process and its listeners sound.
LEMMA ProcStep ==
    ASSUME ProcSound, [Next]_vars
    PROVE  ProcSound'
  <1>1. ASSUME NEW c \in CommandLines, Start(c) PROVE ProcSound'
    BY <1>1, StartProc
  <1>2. CASE CheckSettings
    <2>1. CASE Gone
      BY <2>1, GoneProc
    <2>2. CASE Admitted /\ Step("config", "keystore") /\ UNCHANGED proc
      BY <2>2, ProcKept DEF Admitted, Step, BeforeKey, Serving
    <2> QED BY <1>2, <2>1, <2>2 DEF CheckSettings, Exit
  <1>3. CASE OpenKeystore
    <2>1. CASE Gone
      BY <2>1, GoneProc
    <2>2. CASE /\ pc \in {"keystore", "keyWrite", "keySync"}
               /\ pc' \in {"keyWrite", "keySync", "permissions"} /\ proc' = proc
      BY <2>2, ProcKept DEF ProcSound, BeforeKey, Serving
    <2> QED BY <1>3, <2>1, <2>2 DEF OpenKeystore, Exit
  <1>4. CASE EnforcePermissions \/ BindP2p \/ BindPcp \/ BindHttp \/ BindIndex \/ Audit
    BY <1>4, BindProc
  <1>5. CASE UNCHANGED <<pc, proc>>
    BY <1>5 DEF ProcSound, Serving
  <1>6. ASSUME NEW p \in Persona, CreatePersona(p) PROVE ProcSound'
    BY <1>5, <1>6 DEF CreatePersona
  <1>7. ASSUME NEW h \in Handler,
               (\E u \in Updates : PutSettings(h, u)) \/ SaveKey(h) \/ SaveFails(h)
        PROVE  ProcSound'
    BY <1>5, <1>7 DEF PutSettings, SaveKey, SaveFails
  <1>8. CASE \/ TryMap \/ \E t \in proc.tasks : TaskEnds(t)
             \/ Signal \/ \E s \in proc.clients : ClientsLeave(s)
    BY <1>8, TaskProc
  <1>10. CASE Stopped \/ Crash
    BY <1>10, GoneProc DEF Stopped, Crash, Exit
  <1>11. CASE Tamper \/ UNCHANGED vars
    BY <1>5, <1>11 DEF Tamper, vars
  <1> QED
    BY <1>1, <1>2, <1>3, <1>4, <1>6, <1>7, <1>8, <1>10, <1>11 DEF Next

-----------------------------------------------------------------------------
(***************************************************************************)
(* The key.                                                                *)
(***************************************************************************)

KeySound == KeyTyped /\ KeyProgress /\ KeySafe

\* The process goes, and possibly the power: a key that secrets depend on is
\* synced, and a key that is not yet synced has no secrets (cut remembers it).
LEMMA GoneKey ==
    ASSUME KeySound, Gone, Die \/ LosePower
    PROVE  KeySound'
  <1> USE KeystoreAssumption DEF KeySound
  <1>1. /\ pc' = "down" /\ cut' = (cut \/ pc = "keySync") /\ tampered' = tampered
        /\ perm' = perm
    BY DEF Gone, stored
  <1>2. /\ master' = Absent /\ UNCHANGED <<readable, secret, lastKey>>
        /\ file' = file \/ (~synced /\ file' \in {Absent, Short})
        /\ (synced' = synced /\ file' = file) \/ synced' = TRUE
    BY DEF Die, LosePower, disk
  <1>3. KeyTyped'
    BY <1>2 DEF KeyTyped
  <1>4. KeyProgress'
    BY <1>1, <1>2 DEF KeyProgress
  <1>5. KeySafe'
    <2> SUFFICES ASSUME ~tampered', ~cut' PROVE KeySafe'
      BY DEF KeySafe
    <2>1. ~tampered /\ ~cut /\ pc # "keySync"
      BY <1>1
    <2>2. file' \in Key => synced'
      BY <1>2, <2>1 DEF KeySafe
    <2>3. \A p \in Persona : secret'[p] \in Key => file' = secret'[p] /\ synced'
      BY <1>2, <2>1 DEF KeySafe
    <2> QED BY <1>1, <2>2, <2>3 DEF KeySafe, AfterHealth
  <1> QED BY <1>3, <1>4, <1>5

\* A step that leaves keystore and damage alone keeps the key safe unless it
\* enters the part of the start that relies on it.
LEMMA KeyKept ==
    ASSUME KeySound, UNCHANGED <<keystoreVars, perm, tampered, cut>>,
           \/ pc' = pc /\ proc'.health = proc.health
           \/ /\ {pc, pc'} \subseteq {"down", "config", "keystore"}
           \/ /\ {pc, pc'} \subseteq AfterHealth /\ proc'.health = proc.health
    PROVE  KeySound'
  <1> USE DEF KeySound, keystoreVars, disk, BeforeKey, AfterHealth
  <1>1. KeyTyped'
    BY DEF KeyTyped
  <1>2. KeyProgress'
    BY DEF KeyProgress
  <1>3. KeySafe'
    BY DEF KeySafe
  <1> QED BY <1>1, <1>2, <1>3

\* The key is created, written and synced, or the existing one is read.
LEMMA OpenKey ==
    ASSUME KeySound, OpenKeystore
    PROVE  KeySound'
  <1> USE KeystoreAssumption DEF KeySound
  <1>1. CASE Gone /\ Die
    BY <1>1, GoneKey
  <1>2. CASE pc = "keystore" /\ CreateKey /\ pc' = "keyWrite" /\ UNCHANGED <<stored, proc, bounds>>
    <2>1. /\ file = Absent /\ lastKey < MaxKeys /\ file' = Short /\ ~synced' /\ readable'
          /\ UNCHANGED <<secret, lastKey, master, perm, tampered, cut>>
      BY <1>2 DEF CreateKey, stored, bounds
    <2>2. KeyTyped'
      BY <1>2, <2>1 DEF KeyTyped, CreateKey
    <2>3. KeyProgress'
      BY <1>2, <2>1 DEF KeyProgress, BeforeKey
    <2>4. KeySafe'
      BY <1>2, <2>1 DEF KeySafe, KeyTyped, AfterHealth, Key, Short
    <2> QED BY <2>2, <2>3, <2>4
  <1>3. CASE pc = "keystore" /\ LoadExisting /\ pc' = "permissions"
             /\ UNCHANGED <<stored, proc, bounds>>
    <2>1. /\ file # Absent /\ UNCHANGED <<disk, perm, tampered, cut>>
          /\ init' = CASE ~readable -> "Unreadable" [] file = Short -> "Corrupt"
                       [] OTHER -> "Loaded"
          /\ master' = IF init' = "Loaded" THEN file ELSE Absent
      BY <1>3 DEF LoadExisting, stored, bounds
    <2>2. init' = "Loaded" => readable /\ file \in Key
      BY <2>1 DEF KeyTyped
    <2>3. readable /\ file \in Key => init' = "Loaded"
      BY <2>1 DEF Key, Short
    <2>4. KeyTyped'
      BY <2>1, <2>2 DEF KeyTyped, disk
    <2>5. KeyProgress'
      BY <1>3, <2>1 DEF KeyProgress, BeforeKey, disk
    <2>6. KeySafe'
      <3> SUFFICES ASSUME ~tampered, ~cut PROVE KeySafe'
        BY <2>1 DEF KeySafe
      <3>1. readable
        BY DEF KeyProgress
      <3>2. file' \in Key => synced'
        BY <1>3, <2>1 DEF KeySafe, disk
      <3>3. ASSUME NEW p \in Persona, secret'[p] \in Key
            PROVE  /\ file' = secret'[p] /\ synced'
                   /\ master' = file' /\ init' \notin {"Corrupt", "Unreadable"}
        BY <3>1, <3>3, <2>1, <2>3 DEF KeySafe, disk
      <3> QED BY <1>3, <3>2, <3>3 DEF KeySafe, AfterHealth
    <2> QED BY <2>4, <2>5, <2>6
  <1>4. CASE pc = "keyWrite" /\ WriteKey /\ pc' = "keySync" /\ UNCHANGED <<stored, proc, bounds>>
    <2>1. /\ lastKey' = lastKey + 1 /\ file' = lastKey' /\ ~synced'
          /\ UNCHANGED <<readable, secret, master, perm, tampered, cut>>
      BY <1>4 DEF WriteKey, stored, bounds
    <2>2. file = Short /\ lastKey < MaxKeys /\ master = Absent
      BY <1>4 DEF KeyProgress, BeforeKey
    <2>3. lastKey' \in 0..MaxKeys /\ file' \in Key
      BY <2>1, <2>2 DEF KeyTyped, Key
    <2>4. KeyTyped'
      BY <1>4, <2>1, <2>3 DEF KeyTyped, WriteKey
    <2>5. KeyProgress'
      BY <1>4, <2>1, <2>2, <2>3 DEF KeyProgress
    <2>6. KeySafe'
      <3>1. ~tampered /\ ~cut => \A p \in Persona : secret[p] \notin Key
        BY <2>2 DEF KeySafe, Key, Short
      <3> QED BY <1>4, <2>1, <3>1 DEF KeySafe
    <2> QED BY <2>4, <2>5, <2>6
  <1>5. CASE pc = "keySync" /\ SyncKey /\ pc' = "permissions" /\ UNCHANGED <<stored, proc, bounds>>
    <2>1. /\ synced' = TRUE /\ master' = file
          /\ UNCHANGED <<file, readable, secret, lastKey, init, perm, tampered, cut>>
      BY <1>5 DEF SyncKey, stored, bounds
    <2>2. file \in Key /\ ~synced
      BY <1>5 DEF KeyProgress
    <2>3. KeyTyped'
      BY <2>1, <2>2 DEF KeyTyped
    <2>4. KeyProgress'
      BY <1>5, <2>1 DEF KeyProgress, BeforeKey
    <2>5. KeySafe'
      <3>1. ~tampered /\ ~cut => \A p \in Persona : secret[p] \notin Key
        BY <2>2 DEF KeySafe
      <3> QED BY <1>5, <2>1, <3>1 DEF KeySafe
    <2> QED BY <2>3, <2>4, <2>5
  <1> QED BY <1>1, <1>2, <1>3, <1>4, <1>5 DEF OpenKeystore, Exit

\* A health that is bad is not the fault of a key that secrets depend on.
LEMMA PermissionsKey ==
    ASSUME KeySound, ProcSound, EnforcePermissions
    PROVE  KeySound'
  <1> USE DEF KeySound
  <1>1. PICK v : v = Evaluate(perm')
    OBVIOUS
  <1>2. /\ pc = "permissions" /\ pc' = "p2p" /\ proc' = [proc EXCEPT !.health = v]
        /\ perm' = IF perm = "loose" THEN "strict" ELSE perm
        /\ UNCHANGED <<keystoreVars, tampered, cut>>
    BY <1>1 DEF EnforcePermissions, bounds
  <1>3. proc'.health = v
    BY <1>2 DEF ProcSound
  <1>4. KeyTyped' /\ KeyProgress'
    BY <1>2 DEF KeyTyped, KeyProgress, keystoreVars, disk, BeforeKey
  <1>5. KeySafe'
    <2> SUFFICES ASSUME ~tampered, ~cut PROVE KeySafe'
      BY <1>2 DEF KeySafe
    <2>1. perm' = "strict"
      BY <1>2 DEF KeyProgress
    <2>2. ASSUME NEW p \in Persona, secret[p] \in Key
          PROVE  /\ file = secret[p] /\ synced /\ master = file /\ v = "Ok"
      <3>1. /\ file = secret[p] /\ synced /\ master = file
            /\ init \notin {"Corrupt", "Unreadable"}
        BY <1>2, <2>2 DEF KeySafe
      <3> QED BY <3>1, <1>1, <1>2, <2>1 DEF Evaluate
    <2>3. file \in Key => synced
      BY <1>2 DEF KeySafe
    <2> QED BY <1>2, <1>3, <2>2, <2>3 DEF KeySafe, keystoreVars, disk
  <1> QED BY <1>4, <1>5

\* A persona is stored under the key in memory, which is the one in the file
\* and, in a process that runs, synced.
LEMMA PersonaKey ==
    ASSUME KeySound, NEW p \in Persona, CreatePersona(p)
    PROVE  KeySound'
  <1> USE KeystoreAssumption DEF KeySound
  <1>1. /\ pc = "running" /\ pc' = pc /\ proc.health = "Ok" /\ proc' = proc
        /\ master # Absent /\ secret' = [secret EXCEPT ![p] = master]
        /\ UNCHANGED <<file, synced, readable, lastKey, master, init, perm, tampered, cut>>
    BY DEF CreatePersona, Protect, stored, bounds
  <1>2. master \in Key /\ file = master
    BY <1>1 DEF KeyTyped, KeyProgress
  <1>3. KeyTyped'
    BY <1>1, <1>2 DEF KeyTyped
  <1>4. KeyProgress'
    BY <1>1 DEF KeyProgress
  <1>5. KeySafe'
    <2> SUFFICES ASSUME ~tampered, ~cut PROVE KeySafe'
      BY <1>1 DEF KeySafe
    <2>1. synced
      BY <1>1, <1>2 DEF KeySafe
    <2>2. \A q \in Persona : secret'[q] \in Key => file = secret'[q]
      BY <1>1, <1>2 DEF KeySafe, KeyTyped
    <2> QED BY <1>1, <1>2, <2>1, <2>2 DEF KeySafe
  <1> QED BY <1>3, <1>4, <1>5

\* Every step keeps the key safe.
LEMMA KeyStep ==
    ASSUME KeySound, ProcSound, ProcSound', [Next]_vars
    PROVE  KeySound'
  <1>1. ASSUME NEW c \in CommandLines, Start(c) PROVE KeySound'
    BY <1>1, KeyKept DEF Start, stored
  <1>2. CASE CheckSettings
    <2>1. CASE Gone /\ Die
      BY <2>1, GoneKey
    <2>2. CASE Step("config", "keystore")
      BY <2>2, KeyKept DEF Step, stored, bounds
    <2> QED BY <1>2, <2>1, <2>2 DEF CheckSettings, Exit
  <1>3. CASE OpenKeystore
    BY <1>3, OpenKey
  <1>4. CASE EnforcePermissions
    BY <1>4, PermissionsKey
  <1>5. ASSUME NEW from \in AfterHealth, NEW to \in AfterHealth, Step(from, to),
               proc'.health = proc.health
        PROVE  KeySound'
    BY <1>5, KeyKept DEF Step, stored, bounds
  <1>6. CASE BindP2p \/ BindPcp \/ BindHttp
    <2>1. CASE Gone /\ Die
      BY <2>1, GoneKey
    <2>2. CASE BindP2p /\ ~(Gone /\ Die)
      <3>1. Step("p2p", "pcp") /\ proc'.health = proc.health
        BY <2>2 DEF BindP2p, Exit, ProcSound
      <3> QED BY <1>5, <3>1 DEF AfterHealth
    <2>3. CASE BindPcp /\ ~(Gone /\ Die)
      BY <1>5, <2>3 DEF BindPcp, Exit, AfterHealth
    <2>4. CASE BindHttp /\ ~(Gone /\ Die)
      <3>1. Step("http", "index") /\ proc'.health = proc.health
        BY <2>4 DEF BindHttp, Exit, ProcSound
      <3> QED BY <1>5, <3>1 DEF AfterHealth
    <2> QED BY <1>6, <2>1, <2>2, <2>3, <2>4
  <1>7. CASE BindIndex
    <2>1. Step("index", "audit") /\ proc'.health = proc.health
      BY <1>7 DEF BindIndex, ProcSound
    <2> QED BY <1>5, <2>1 DEF AfterHealth
  <1>8. CASE Audit
    <2>1. Step("audit", "running") /\ proc'.health = proc.health
      BY <1>8 DEF Audit, ProcSound
    <2> QED BY <1>5, <2>1 DEF AfterHealth
  <1>9. ASSUME NEW p \in Persona, CreatePersona(p) PROVE KeySound'
    BY <1>9, PersonaKey
  <1>10. ASSUME NEW h \in Handler,
                (\E u \in Updates : PutSettings(h, u)) \/ SaveKey(h) \/ SaveFails(h)
         PROVE  KeySound'
    BY <1>10, KeyKept DEF PutSettings, SaveKey, SaveFails, stored, bounds
  <1>11. CASE TryMap
    <2>1. proc'.health = proc.health
      BY <1>11 DEF TryMap, ProcSound
    <2> QED BY <1>11, <2>1, KeyKept DEF TryMap, stored, bounds
  <1>12. ASSUME NEW t \in proc.tasks, TaskEnds(t) PROVE KeySound'
    <2>1. Step("stopping", "stopping") /\ proc'.health = proc.health
      BY <1>12 DEF TaskEnds, ProcSound
    <2> QED BY <1>5, <2>1 DEF AfterHealth
  <1>13. CASE Signal \/ \E s \in proc.clients : ClientsLeave(s)
    <2>1. PICK from \in {"running", "stopping"} :
             Step(from, "stopping") /\ proc'.health = proc.health
      BY <1>13 DEF Signal, ClientsLeave, ProcSound
    <2> QED BY <1>5, <2>1 DEF AfterHealth
  <1>14. CASE Stopped \/ Crash
    BY <1>14, GoneKey DEF Stopped, Crash, Exit
  <1>15. CASE Tamper
    <2>1. /\ pc = "down" /\ pc' = pc /\ tampered'
          /\ UNCHANGED <<synced, secret, lastKey, master>>
          /\ file' \in {file, Absent, Short} /\ readable' \in {readable, FALSE}
      BY <1>15 DEF Tamper
    <2>2. master = Absent
      BY <2>1 DEF KeySound, KeyProgress, BeforeKey
    <2> QED BY <2>1, <2>2 DEF KeySound, KeyTyped, KeyProgress, KeySafe
  <1>16. CASE UNCHANGED vars
    BY <1>16, KeyKept DEF vars, stored, bounds
  <1> QED
    BY <1>1, <1>2, <1>3, <1>4, <1>6, <1>7, <1>8, <1>9, <1>10, <1>11, <1>12, <1>13, <1>14, <1>15,
       <1>16 DEF Next

-----------------------------------------------------------------------------
(***************************************************************************)
(* The theorems.                                                           *)
(***************************************************************************)

\* The invariant holds before the first start.
LEMMA InitNode == Init => NodeInv
  <1> SUFFICES ASSUME Init PROVE NodeInv
    OBVIOUS
  <1> USE KeystoreAssumption DEF Init, KeystoreInitial
  <1>1. ProcSound
    BY DEF ProcSound, NoProcess, BeforeKey, Serving
  <1>2. SettingsSound
    <2>1. /\ Load(table)["http"] = "loopback" /\ Load(table)["encoding"] = "utf-8"
          /\ Load(table)["index"] = ""
      BY Keys DEF Load, Default
    <2>2. Validate(Load(table))
      BY <2>1 DEF Validate, RequireLoopback, Parses, IsLoopback
    <2> QED BY <2>2 DEF SettingsSound, PutSound
  <1>3. KeyTyped /\ KeyProgress
    BY DEF KeyTyped, KeyProgress, Short
  <1>4. KeySafe
    BY DEF KeySafe
  <1> QED BY <1>1, <1>2, <1>3, <1>4 DEF NodeInv

\* The inductive invariant holds over any number of starts, crashes, losses
\* of power and requests.
THEOREM NodeInvariant == Spec => []NodeInv
  <1>1. NodeInv /\ [Next]_vars => NodeInv'
    <2> SUFFICES ASSUME NodeInv, [Next]_vars PROVE NodeInv'
      OBVIOUS
    <2>1. ProcSound' /\ SettingsSound'
      BY ProcStep, SettingsStep DEF NodeInv
    <2>2. KeySound'
      BY <2>1, KeyStep DEF NodeInv, KeySound
    <2> QED BY <2>1, <2>2 DEF NodeInv, KeySound
  <1> QED BY <1>1, InitNode, PTL DEF Spec

\* A stored persona keeps the key it was encrypted under, on disk for good,
\* and a running node can decrypt it, unless the user damaged the key file or
\* a process ended between writing and syncing it.
THEOREM KeysAlwaysOutlivePersonas == Spec => []KeyOutlivesPersonas
  <1>1. NodeInv => KeyOutlivesPersonas
    BY DEF NodeInv, KeySafe, KeyOutlivesPersonas, Serving, AfterHealth, Usable
  <1> QED BY <1>1, NodeInvariant, PTL

\* What is in the settings table passes the gate of the next start, whatever
\* requests asked for and wherever their saves were cut or interleaved.
THEOREM AlwaysCanRestart == Spec => []CanRestart
  <1>1. NodeInv => CanRestart
    BY DEF NodeInv, SettingsSound, CanRestart
  <1> QED BY <1>1, NodeInvariant, PTL

\* The listeners are only ever where they may be, and a running node recorded
\* its exposure exactly when the LAN can reach it.
THEOREM ExposureAlwaysControlled == Spec => []ExposureControlled
  <1>1. NodeInv => ExposureControlled
    BY DEF NodeInv, ProcSound, ExposureControlled
  <1> QED BY <1>1, NodeInvariant, PTL
=============================================================================
