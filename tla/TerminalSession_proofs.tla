------------------------ MODULE TerminalSession_proofs ------------------------
(***************************************************************************)
(* Proofs about the native sessions, for any number of sessions and        *)
(* connections: the types, that no callback is called once its session has *)
(* given it up, that no wake-up is lost, that sizes reach the remote side, *)
(* and that a poll that ends a session has read all it was sent.           *)
(***************************************************************************)
EXTENDS TerminalSession, TLAPS

(* A callback that is set belongs to an open session that has this worker. *)
SlotOwned ==
    \A w \in Workers : worker[w].slot =>
        /\ worker[w].owner \in Sessions
        /\ session[worker[w].owner].life = "open" /\ session[worker[w].owner].wakeup
        /\ session[worker[w].owner].conn = w
        /\ runtime \in {"running", "stopping"}

(* It is called under the lock of the slot that holds it.                  *)
CalledFromSlot == \A w \in Workers : worker[w].calling => worker[w].slot

(* No two sessions share a worker, and a worker in use is not free.        *)
OneOwner ==
    \A s \in Sessions : \A w \in Workers : session[s].conn = w =>
        session[s].life = "open" /\ worker[w].owner = s /\ worker[w].phase # "free"

(* What the holder of the manager's lock relies on.                        *)
LockKept ==
    /\ manager.op = "bootstrap" =>
        /\ manager.s \in Sessions /\ runtime \in {"running", "stopping"}
        /\ \A w \in Workers : session[manager.s].conn = w => ~ worker[w].slot
    /\ manager.op = "poll" =>
        /\ manager.s \in Sessions /\ manager.w \in Workers
        /\ session[manager.s].conn = manager.w
    /\ manager.op = "join" =>
        /\ manager.w \in Workers /\ ~ worker[manager.w].slot
        /\ \A s \in Sessions : session[s].conn # manager.w

SessionInv == TypeOK /\ SlotOwned /\ CalledFromSlot /\ OneOwner /\ LockKept

-----------------------------------------------------------------------------
(* What else a session and its worker keep: sizes, wake-ups and polls.       *)

(* A worker takes commands until its receiver is gone.                     *)
Accepting == {"connecting", "up", "awaiting"}

(* The last size among the commands is z, or there is none and z is what   *)
(* the remote side was told, unless SSH dropped it.                        *)
Only(commands, from) == \A i \in from .. Len(commands) : commands[i] = Input
SizeQueued(r, z) ==
    \/ \E i \in 1 .. Len(r.commands) : r.commands[i] = z /\ Only(r.commands, i + 1)
    \/ Only(r.commands, 1) /\ (r.size = z \/ (r.swallowed /\ r.kind = "ssh"))
SizeComes(r, z) ==
    /\ r.kind = "mosh" => r.size = z
    /\ r.kind \notin {"mosh", "serial"} /\ r.phase \in Accepting => SizeQueued(r, z)

(* What a session's record and its worker's agree on.                      *)
Fit(n, r) == n.kind = r.kind /\ SizeComes(r, n.size) /\ (r.kind = "local" => ~ r.news)

(* A session whose callback is to be called, once for all that waits.      *)
Watched(s) ==
    /\ session[s].wakeup /\ runtime = "running"
    /\ ~ (manager.op = "bootstrap" /\ manager.s = s)
Polled(s) == manager.op = "poll" /\ manager.s = s
Has(todo, stages) == \E i \in 1 .. Len(todo) : todo[i] \in stages
Coming(s, stages) == Polled(s) /\ Has(manager.todo, stages)
Told(s, w) == s \in wake \/ worker[w].owes

Woke(s, w) ==
    /\ worker[w].slot
    /\ worker[w].buffered > 0 => Told(s, w) \/ Coming(s, {"output", "library"})
    /\ worker[w].news /\ worker[w].phase # "ending" =>
        Told(s, w) \/ Coming(s, {"events", "library"})
    /\ Exited(w) => \/ Told(s, w) \/ Coming(s, {"exit", "library"})
                    \/ Polled(s) /\ manager.exit
    /\ Polled(s) /\ manager.more => s \in wake

ConnOK(s) ==
    \A w \in Workers : session[s].conn = w =>
        Fit(session[s], worker[w]) /\ (Watched(s) => Woke(s, w))

(* What is left to do of a poll that reads the flag before the buffer.     *)
TelnetRests == {TelnetDrain, <<"output", "events">>, <<"events">>, <<>>}
MoshRests == {MoshDrain, <<>>}
PollOK ==
    LET m == manager  r == worker[manager.w] IN
    m.op = "poll" /\ r.kind \in {"telnet", "mosh"} =>
        /\ m.todo \in (IF r.kind = "mosh" THEN MoshRests ELSE TelnetRests)
        /\ m.taken <= MaxPollChunks
        /\ Has(m.todo, {"output", "library"}) => m.taken < MaxPollChunks
        /\ m.todo = <<>> /\ m.more => m.taken = MaxPollChunks
        /\ m.exit =>
            /\ r.phase = "exited"
            /\ Has(m.todo, {"output", "library"}) \/ m.more \/ r.buffered = 0
            /\ Has(m.todo, {"events", "library"}) \/ ~ r.news

WakeInv == (\A s \in Sessions : ConnOK(s)) /\ PollOK

\* What is proved of a step.
Continues == SessionInv' /\ (WakeInv => WakeInv')

-----------------------------------------------------------------------------
(* Records                                                                   *)

LEMMA IdleTyped == Idle \in ManagerType /\ Idle.op = "idle"
  BY DEF Idle, ManagerType, Stages

LEMMA JoinTyped ==
  ASSUME NEW w \in Workers
  PROVE  Join(w) \in ManagerType /\ Join(w).op = "join" /\ Join(w).w = w
  BY IdleTyped DEF Join, ManagerType

LEMMA FreeTyped ==
  ASSUME NEW kind \in Kinds, NEW size \in Sizes
  PROVE  /\ FreeWorker(kind, size) \in WorkerType
         /\ FreeWorker(kind, size).phase = "free"
         /\ ~ FreeWorker(kind, size).slot /\ ~ FreeWorker(kind, size).calling
  BY BoundsAssumption DEF FreeWorker, WorkerType, Phases

LEMMA SpawnedTyped ==
  ASSUME NEW kind \in Kinds, NEW s \in Sessions, NEW size \in Sizes, NEW wakeup \in BOOLEAN
  PROVE  LET r == Spawned(kind, s, size, wakeup) IN
         /\ r \in WorkerType /\ r.owner = s /\ r.phase # "free"
         /\ r.slot = wakeup /\ ~ r.calling
  <1> DEFINE onWorker == kind \in {"ssh", "telnet"}
             news == onWorker \/ kind = "mosh"
             phase == IF onWorker THEN "connecting" ELSE "up"
             free == FreeWorker(kind, size)
  <1>1. onWorker \in BOOLEAN /\ news \in BOOLEAN /\ phase \in Phases /\ phase # "free"
    BY DEF Phases
  <1>2. Spawned(kind, s, size, wakeup) =
          [free EXCEPT !.owner = s, !.slot = wakeup, !.phase = phase,
                       !.news = news, !.owes = onWorker]
    BY DEF Spawned
  <1>3. free \in WorkerType /\ ~ free.calling
    BY FreeTyped
  <1> HIDE DEF onWorker, news, phase, free
  <1>4. LET q == [free EXCEPT !.owner = s, !.slot = wakeup, !.phase = phase, !.news = news,
                              !.owes = onWorker] IN
        /\ q \in WorkerType /\ q.owner = s /\ q.phase = phase /\ q.slot = wakeup
        /\ q.calling = free.calling
    BY <1>1, <1>3 DEF WorkerType
  <1> QED
    BY <1>1, <1>2, <1>3, <1>4

LEMMA DroppedTyped ==
  ASSUME NEW r \in WorkerType
  PROVE  /\ Dropped(r) \in WorkerType /\ Dropped(r).owner = r.owner /\ Dropped(r).phase = r.phase
         /\ ~ Dropped(r).slot /\ Dropped(r).calling = r.calling
  BY DEF Dropped, WorkerType

LEMMA QueueTyped ==
  ASSUME NEW r \in WorkerType, NEW command \in Commands
  PROVE  LET q == Queue(r, command) IN
         /\ q \in WorkerType /\ q.owner = r.owner /\ q.phase = r.phase
         /\ q.slot = r.slot /\ q.calling = r.calling
  <1>1. CASE r.kind = "mosh"
    BY <1>1, SizesAssumption DEF Queue, WorkerType, Commands, Input
  <1>2. CASE r.kind # "mosh" /\ r.phase \in {"connecting", "up", "awaiting"}
    <2>1. Append(r.commands, command) \in Seq(Commands)
      BY DEF WorkerType
    <2> QED
      BY <1>2, <2>1 DEF Queue, WorkerType
  <1>3. CASE r.kind # "mosh" /\ r.phase \notin {"connecting", "up", "awaiting"}
    BY <1>3 DEF Queue
  <1> QED
    BY <1>1, <1>2, <1>3

LEMMA RunTyped ==
  ASSUME NEW r \in WorkerType, r.commands # <<>>
  PROVE  /\ Run(r) \in WorkerType /\ Run(r).owner = r.owner /\ Run(r).phase = r.phase
         /\ Run(r).slot = r.slot /\ Run(r).calling = r.calling
  <1>1. Head(r.commands) \in Commands /\ Tail(r.commands) \in Seq(Commands)
    BY DEF WorkerType
  <1> QED
    BY <1>1 DEF Run, WorkerType, Commands, Input

\* Sizes and commands as they pass through a worker.
LEMMA QueueSize ==
  ASSUME NEW r \in WorkerType, NEW z \in Sizes
  PROVE  /\ SizeComes(r, z) => SizeComes(Queue(r, Input), z)
         /\ SizeComes(Queue(r, z), z)
  <1> USE DEF Accepting
  <1>0. z # Input /\ z \in Commands /\ Input \in Commands
    BY SizesAssumption DEF Input, Commands
  <1>1. CASE r.kind = "mosh"
    BY <1>0, <1>1 DEF Queue, SizeComes, WorkerType
  <1>2. CASE r.kind # "mosh" /\ r.phase \in Accepting
    <2>1. ASSUME NEW c \in Commands
          PROVE  LET q == Queue(r, c) IN
                 /\ q.commands = Append(r.commands, c) /\ q.size = r.size /\ q.kind = r.kind
                 /\ q.swallowed = r.swallowed /\ q.phase = r.phase
      BY <1>2 DEF Queue, WorkerType
    <2>2. r.commands \in Seq(Commands)
      BY DEF WorkerType
    <2> DEFINE old == r.commands
    <2>3. /\ Len(Append(old, z)) = Len(old) + 1 /\ Append(old, z)[Len(old) + 1] = z
          /\ Len(Append(old, Input)) = Len(old) + 1 /\ Append(old, Input)[Len(old) + 1] = Input
          /\ \A i \in 1 .. Len(old) : Append(old, Input)[i] = old[i]
          /\ Len(old) \in Nat
      BY <1>0, <2>2
    <2>4. SizeQueued(Queue(r, z), z)
      BY <1>0, <2>1, <2>3 DEF SizeQueued, Only
    <2>5. SizeQueued(r, z) => SizeQueued(Queue(r, Input), z)
      <3>1. ASSUME NEW i \in 1 .. Len(old), old[i] = z, Only(old, i + 1)
            PROVE  SizeQueued(Queue(r, Input), z)
        <4> DEFINE now == Append(old, Input)
        <4>1. Queue(r, Input).commands = now
          BY <1>0, <2>1
        <4>2. i \in 1 .. Len(now) /\ now[i] = z /\ Only(now, i + 1)
          BY <2>3, <3>1 DEF Only
        <4> HIDE DEF now
        <4> QED
          BY <4>1, <4>2 DEF SizeQueued
      <3>2. ASSUME Only(old, 1) PROVE Only(Append(old, Input), 1)
        BY <2>3, <3>2 DEF Only
      <3> QED
        BY <1>0, <2>1, <3>1, <3>2 DEF SizeQueued
    <2> QED
      BY <1>0, <1>2, <2>1, <2>4, <2>5 DEF SizeComes
  <1>3. CASE r.kind # "mosh" /\ r.phase \notin Accepting
    BY <1>3 DEF Queue, SizeComes
  <1> QED
    BY <1>1, <1>2, <1>3

\* The first command is run, or taken and dropped.
LEMMA SizeTaken ==
  ASSUME NEW r \in WorkerType, NEW q \in WorkerType, NEW z \in Sizes, SizeQueued(r, z),
         r.commands # <<>>, q.commands = Tail(r.commands), q.kind = r.kind,
         r.swallowed /\ Head(r.commands) = Input => q.swallowed,
         \/ q.size = IF Head(r.commands) = Input THEN r.size ELSE Head(r.commands)
         \/ /\ q.size = r.size /\ r.kind = "ssh"
            /\ q.swallowed = (r.swallowed \/ Head(r.commands) # Input)
  PROVE  SizeQueued(q, z)
  <1> DEFINE old == r.commands
             rest == Tail(r.commands)
  <1>0. z # Input
    BY SizesAssumption DEF Input
  <1>1. /\ old \in Seq(Commands) /\ Len(old) \in Nat /\ Len(old) > 0 /\ Len(rest) = Len(old) - 1
        /\ Head(old) = old[1] /\ \A i \in 1 .. Len(rest) : rest[i] = old[i + 1]
    BY DEF WorkerType
  <1>2. ASSUME NEW i \in 1 .. Len(old), old[i] = z, Only(old, i + 1)
        PROVE  SizeQueued(q, z)
    <2>1. CASE i = 1
      <3>1. Only(rest, 1)
        BY <1>1, <1>2, <2>1 DEF Only
      <3>2. q.size = z \/ (q.swallowed /\ q.kind = "ssh")
        BY <1>0, <1>1, <1>2, <2>1
      <3> QED
        BY <3>1, <3>2 DEF SizeQueued
    <2>2. CASE i > 1
      <3>1. i - 1 \in 1 .. Len(rest) /\ rest[i - 1] = z
        BY <1>1, <1>2, <2>2
      <3>2. Only(rest, (i - 1) + 1)
        BY <1>1, <1>2, <2>2 DEF Only
      <3> QED
        BY <3>1, <3>2 DEF SizeQueued
    <2> QED
      BY <2>1, <2>2
  <1>3. ASSUME Only(old, 1), r.size = z \/ (r.swallowed /\ r.kind = "ssh")
        PROVE  SizeQueued(q, z)
    <2>1. Head(old) = Input /\ Only(rest, 1)
      BY <1>1, <1>3 DEF Only
    <2> QED
      BY <1>3, <2>1 DEF SizeQueued
  <1> QED
    BY <1>2, <1>3 DEF SizeQueued

\* Nothing happens to the sizes.
LEMMA SizeStays ==
  ASSUME NEW r, NEW q, NEW z, SizeComes(r, z), q.kind = r.kind, q.size = r.size,
         q.commands = r.commands, q.swallowed = r.swallowed,
         q.phase \in Accepting => r.phase \in Accepting
  PROVE  SizeComes(q, z)
  BY DEF SizeComes, SizeQueued

LEMMA SpawnedFits ==
  ASSUME NEW kind \in Kinds, NEW s \in Sessions, NEW size \in Sizes, NEW wakeup \in BOOLEAN
  PROVE  LET r == Spawned(kind, s, size, wakeup) IN
         /\ r.kind = kind /\ SizeComes(r, size) /\ (kind = "local" => ~ r.news)
  <1> DEFINE r == Spawned(kind, s, size, wakeup)
  <1>1. r.kind = kind /\ r.commands = <<>> /\ r.size = size /\ (kind = "local" => ~ r.news)
    BY DEF Spawned, FreeWorker
  <1>2. Only(r.commands, 1)
    BY <1>1 DEF Only
  <1> HIDE DEF r
  <1>3. SizeComes(r, size)
    BY <1>1, <1>2 DEF SizeComes, SizeQueued
  <1> QED
    BY <1>1, <1>3 DEF r

LEMMA DrainTyped ==
  ASSUME NEW kind \in Kinds
  PROVE  DrainOrder(kind) \in Seq(Stages)
  <1>1. /\ SshDrain \in Seq(Stages) /\ TelnetDrain \in Seq(Stages)
        /\ SerialDrain \in Seq(Stages) /\ LocalDrain \in Seq(Stages)
        /\ MoshDrain \in Seq(Stages)
    BY DEF Stages, SshDrain, TelnetDrain, SerialDrain, LocalDrain, MoshDrain
  <1> QED
    BY <1>1 DEF Kinds, DrainOrder

LEMMA ProceedTyped ==
  ASSUME TypeOK, NEW m \in ManagerType, m.todo # <<>>, m.w \in Workers
  PROVE  /\ Proceed(m) \in ManagerType
         /\ Proceed(m).op = m.op /\ Proceed(m).s = m.s /\ Proceed(m).w = m.w
  <1>1. Tail(m.todo) \in Seq(Stages)
    BY DEF ManagerType
  <1>2. DrainOrder(worker[m.w].kind) \in Seq(Stages)
    BY DrainTyped DEF TypeOK, WorkerType
  <1> QED
    BY <1>1, <1>2 DEF Proceed, ManagerType

-----------------------------------------------------------------------------
(* Three kinds of step                                                       *)

\* The sessions keep their workers, and the workers their callbacks.
LEMMA FrameKeeps ==
  ASSUME SessionInv, TypeOK', LockKept', UNCHANGED <<session, runtime>>,
         \A w \in Workers :
            /\ worker'[w].owner = worker[w].owner /\ worker'[w].slot = worker[w].slot
            /\ worker[w].phase # "free" => worker'[w].phase # "free"
            /\ worker'[w].calling => worker'[w].slot
  PROVE  SessionInv'
  BY DEF SessionInv, SlotOwned, CalledFromSlot, OneOwner

\* One worker moves, with or without the manager.
LEMMA WorkerKeeps ==
  ASSUME SessionInv, NEW w \in Workers, NEW r \in WorkerType,
         r.owner = worker[w].owner, r.slot = worker[w].slot,
         worker[w].phase # "free" => r.phase # "free", r.calling => r.slot,
         worker' = [worker EXCEPT ![w] = r], UNCHANGED <<session, runtime>>,
         manager' \in ManagerType, wake' \subseteq Sessions,
         manager'.op # "idle" => /\ manager'.op = manager.op
                                 /\ manager'.s = manager.s /\ manager'.w = manager.w
  PROVE  SessionInv'
  <1>1. \A x \in Workers : worker'[x] = IF x = w THEN r ELSE worker[x]
    BY DEF SessionInv, TypeOK
  <1>2. TypeOK'
    BY DEF SessionInv, TypeOK
  <1>3. LockKept'
    BY <1>1 DEF SessionInv, LockKept
  <1>4. \A x \in Workers :
            /\ worker'[x].owner = worker[x].owner /\ worker'[x].slot = worker[x].slot
            /\ worker[x].phase # "free" => worker'[x].phase # "free"
            /\ worker'[x].calling => worker'[x].slot
    BY <1>1 DEF SessionInv, CalledFromSlot
  <1> QED
    BY <1>2, <1>3, <1>4, FrameKeeps

\* Session s may become n, with worker w as r where w is one.
Exchangeable(s, w, r, n) ==
    /\ w \in Workers \cup {None} /\ n \in SessionType /\ n.conn = w
    /\ manager.op = "idle" \/ (manager.op = "bootstrap" /\ manager.s = s)
    /\ w \in Workers =>
        /\ worker[w].phase = "free" /\ n.life = "open"
        /\ runtime \in {"running", "stopping"}
        /\ r \in WorkerType /\ r.owner = s /\ r.phase # "free" /\ Fit(n, r)
        /\ (r.slot => n.wakeup) /\ ~ r.calling
    /\ \A x \in Workers : session[s].conn = x => ~ worker[x].calling

\* The interface is woken for the new worker, and the other wake-ups stay.
Rung(s, w, r, n) ==
    /\ wake' \subseteq Sessions /\ \A t \in Sessions : t # s /\ t \in wake => t \in wake'
    /\ w \in Workers /\ n.wakeup => r.slot /\ s \in wake'

\* It does, and the worker that it had is dropped.
Exchanged(s, w, r, n) ==
    /\ session' = [session EXCEPT ![s] = n]
    /\ worker' = [x \in Workers |-> IF x = w THEN r
                                   ELSE IF x = session[s].conn THEN Dropped(worker[x])
                                   ELSE worker[x]]
    /\ \/ manager' \in ManagerType /\ manager'.op = "idle"
       \/ session[s].conn \in Workers /\ manager' = Join(session[s].conn)
    /\ UNCHANGED runtime
    /\ Rung(s, w, r, n)

\* A session gives its worker up, for another one or for none.
LEMMA ExchangeKeeps ==
  ASSUME SessionInv, NEW s \in Sessions, NEW w, NEW r, NEW n, Exchangeable(s, w, r, n),
         Exchanged(s, w, r, n)
  PROVE  Continues
  <1> USE DEF Exchangeable, Exchanged
  <1> DEFINE old == session[s].conn
  <1>1. /\ session \in [Sessions -> SessionType] /\ worker \in [Workers -> WorkerType]
        /\ None \notin Workers
    BY NoneAssumption DEF SessionInv, TypeOK
  <1>2. /\ session' \in [Sessions -> SessionType] /\ session'[s] = n
        /\ \A t \in Sessions : t # s => session'[t] = session[t]
    BY <1>1
  <1>3. old \in Workers => old # w
    BY <1>1 DEF SessionInv, OneOwner
  <1>4. \A x \in Workers : x # w /\ x # old => worker'[x] = worker[x]
    OBVIOUS
  <1>5. w \in Workers => worker'[w] = r
    OBVIOUS
  <1>6. old \in Workers => /\ worker'[old] \in WorkerType
                           /\ worker'[old].owner = worker[old].owner
                           /\ worker'[old].phase = worker[old].phase
                           /\ ~ worker'[old].slot /\ ~ worker'[old].calling
    <2> SUFFICES ASSUME old \in Workers PROVE
            /\ worker'[old] \in WorkerType /\ worker'[old].owner = worker[old].owner
            /\ worker'[old].phase = worker[old].phase
            /\ ~ worker'[old].slot /\ ~ worker'[old].calling
      OBVIOUS
    <2>1. worker'[old] = Dropped(worker[old]) /\ worker[old] \in WorkerType
      BY <1>1, <1>3
    <2> QED
      BY <2>1, DroppedTyped
  <1>7. worker' \in [Workers -> WorkerType]
    <2>1. \A x \in Workers : worker'[x] \in WorkerType
      BY <1>1, <1>4, <1>5, <1>6
    <2> QED
      BY <2>1
  <1>8. manager' \in ManagerType
    BY JoinTyped
  <1>9. TypeOK'
    BY <1>2, <1>7, <1>8 DEF SessionInv, TypeOK, Rung
  <1> HIDE DEF old
  <1>10. SlotOwned'
    <2> SUFFICES ASSUME NEW x \in Workers, worker'[x].slot
                 PROVE  LET t == worker'[x].owner IN
                        /\ t \in Sessions /\ session'[t].life = "open" /\ session'[t].wakeup
                        /\ session'[t].conn = x /\ runtime' \in {"running", "stopping"}
      BY DEF SlotOwned
    <2>1. CASE x = w
      BY <2>1, <1>2, <1>5
    <2>2. CASE x # w
      <3>1. x # old /\ worker'[x] = worker[x]
        BY <2>2, <1>4, <1>6
      <3>2. worker[x].owner # s
        BY <3>1 DEF SessionInv, SlotOwned, old
      <3> QED
        BY <3>1, <3>2, <1>2 DEF SessionInv, SlotOwned
    <2> QED
      BY <2>1, <2>2
  <1>11. CalledFromSlot'
    BY <1>4, <1>5, <1>6 DEF SessionInv, CalledFromSlot
  <1>12. ASSUME NEW t \in Sessions, t # s
         PROVE  session'[t] = session[t] /\ (session[t].conn \in Workers =>
                    session[t].conn # w /\ session[t].conn # old)
    BY <1>2, <1>12 DEF SessionInv, OneOwner, old
  <1>13. OneOwner'
    <2> SUFFICES ASSUME NEW t \in Sessions, NEW x \in Workers, session'[t].conn = x
                 PROVE  session'[t].life = "open" /\ worker'[x].owner = t
                        /\ worker'[x].phase # "free"
      BY DEF OneOwner
    <2>1. CASE t = s
      BY <2>1, <1>2, <1>5
    <2>2. CASE t # s
      BY <2>2, <1>12, <1>4 DEF SessionInv, OneOwner
    <2> QED
      BY <2>1, <2>2
  <1>14. LockKept'
    <2>1. CASE manager'.op = "idle"
      BY <2>1 DEF LockKept
    <2>2. CASE old \in Workers /\ manager' = Join(old)
      <3>1. manager'.op = "join" /\ manager'.w = old
        BY <2>2, JoinTyped
      <3>2. \A t \in Sessions : session'[t].conn # old
        BY <2>2, <1>2, <1>3, <1>12
      <3> QED
        BY <2>2, <3>1, <3>2, <1>6 DEF LockKept
    <2> QED
      BY <2>1, <2>2 DEF old
  <1>15. SessionInv'
    BY <1>9, <1>10, <1>11, <1>13, <1>14 DEF SessionInv
  <1>16. ASSUME WakeInv PROVE WakeInv'
    <2>1. manager.op # "poll" /\ manager'.op \in {"idle", "join"}
      BY JoinTyped
    <2>2. ASSUME NEW t \in Sessions, NEW x \in Workers, session'[t].conn = x
          PROVE  Fit(session'[t], worker'[x]) /\ (Watched(t)' => Woke(t, x)')
      <3>1. CASE t = s
        <4>1. x = w /\ session'[t] = n /\ worker'[x] = r
          BY <1>2, <1>5, <2>2, <3>1
        <4>2. Watched(t)' => Woke(t, x)'
          BY <2>1, <3>1, <4>1 DEF Rung, Watched, Woke, Told, Polled
        <4> QED
          BY <2>2, <4>1, <4>2
      <3>2. CASE t # s
        <4>1. session'[t] = session[t] /\ worker'[x] = worker[x] /\ session[t].conn = x
          BY <1>4, <1>12, <2>2, <3>2
        <4>2. Fit(session[t], worker[x]) /\ (Watched(t) => Woke(t, x))
          BY <1>16, <4>1 DEF WakeInv, ConnOK
        <4>3. (Watched(t)' => Watched(t)) /\ (t \in wake => t \in wake')
          BY <2>1, <3>2, <4>1 DEF Watched, Rung
        <4>4. Woke(t, x) => Woke(t, x)'
          BY <2>1, <4>1, <4>3 DEF Woke, Told, Coming, Polled, Exited
        <4> QED
          BY <4>1, <4>2, <4>3, <4>4
      <3> QED
        BY <3>1, <3>2
    <2>3. PollOK'
      BY <2>1 DEF PollOK
    <2> QED
      BY <2>2, <2>3 DEF WakeInv, ConnOK
  <1> QED
    BY <1>15, <1>16 DEF Continues

\* The same with the transport dropped at once, and the manager left to join its worker.
LEMMA ReplaceKeeps ==
  ASSUME SessionInv, NEW s \in Sessions, NEW w, NEW r, NEW n, Exchangeable(s, w, r, n),
         Replace(s, w, r), session' = [session EXCEPT ![s] = n],
         UNCHANGED runtime, Rung(s, w, r, n)
  PROVE  Continues
  <1>1. session[s].conn \in Workers \cup {None}
    BY DEF SessionInv, TypeOK, SessionType
  <1>2. \/ manager' \in ManagerType /\ manager'.op = "idle"
        \/ session[s].conn \in Workers /\ manager' = Join(session[s].conn)
    BY <1>1, IdleTyped DEF Replace
  <1>3. Exchanged(s, w, r, n)
    BY <1>2 DEF Replace, Exchanged
  <1> QED
    BY <1>3, ExchangeKeeps

\* A new session has no worker to give up.
LEMMA NewUnconnected ==
  ASSUME SessionInv, NEW s \in Sessions, session[s].life = "new"
  PROVE  /\ session[s].conn = None /\ None \notin Workers
         /\ \A w \in Workers : session[s].conn # w
  BY NoneAssumption DEF SessionInv, OneOwner, TypeOK, SessionType

LEMMA InsertedKeeps ==
  ASSUME SessionInv, NEW s \in Sessions, NEW kind \in Kinds, New(s), Inserted(s, kind),
         UNCHANGED <<manager, wake, runtime>>
  PROVE  Continues
  <1>1. PICK w \in Workers, size \in Sizes :
            /\ Fresh(w)
            /\ worker' = [worker EXCEPT ![w] = Spawned(kind, s, size, FALSE)]
            /\ session' = [session EXCEPT ![s] =
                    [life |-> "open", kind |-> kind, exited |-> FALSE, size |-> size,
                     wakeup |-> FALSE, conn |-> w]]
    BY DEF Inserted
  <1> DEFINE r == Spawned(kind, s, size, FALSE)
             n == [life |-> "open", kind |-> kind, exited |-> FALSE, size |-> size,
                   wakeup |-> FALSE, conn |-> w]
  <1>2. /\ r \in WorkerType /\ r.owner = s /\ r.phase # "free" /\ ~ r.slot /\ ~ r.calling
        /\ r.kind = kind /\ SizeComes(r, size) /\ (kind = "local" => ~ r.news)
    BY SpawnedTyped, SpawnedFits
  <1>3. /\ n \in SessionType /\ n.conn = w /\ n.life = "open" /\ ~ n.wakeup
        /\ n.kind = kind /\ n.size = size
    BY DEF SessionType
  <1>4. worker[w].phase = "free" /\ runtime = "running" /\ session[s].life = "new"
    BY <1>1 DEF Fresh, New
  <1>5. /\ session[s].conn = None
        /\ \A x \in Workers : session[s].conn # x
    BY <1>4, NewUnconnected
  <1> HIDE DEF r, n
  <1>6. worker' = [x \in Workers |-> IF x = w THEN r
                                     ELSE IF x = session[s].conn THEN Dropped(worker[x])
                                     ELSE worker[x]]
    BY <1>1, <1>5 DEF SessionInv, TypeOK, r
  <1>7. session' = [session EXCEPT ![s] = n]
    BY <1>1 DEF n
  <1>8. manager' \in ManagerType /\ manager'.op = "idle" /\ manager.op = "idle"
        /\ Rung(s, w, r, n)
    BY <1>3 DEF SessionInv, TypeOK, New, Rung
  <1>9. Exchangeable(s, w, r, n)
    BY <1>2, <1>3, <1>4, <1>5, <1>8 DEF Exchangeable, Fit
  <1>10. Exchanged(s, w, r, n)
    BY <1>6, <1>7, <1>8 DEF Exchanged
  <1> QED
    BY <1>9, <1>10, ExchangeKeeps

LEMMA DisconnectedKeeps ==
  ASSUME SessionInv, NEW s \in Sessions, NEW kind \in Kinds, New(s), Disconnected(s, kind),
         UNCHANGED <<manager, wake, runtime>>
  PROVE  Continues
  <1> DEFINE n == [session[s] EXCEPT !.life = "open", !.kind = kind, !.exited = TRUE]
  <1>1. session[s] \in SessionType /\ session[s].life = "new"
    BY DEF SessionInv, TypeOK, New
  <1>2. /\ session[s].conn = None /\ None \notin Workers
        /\ \A x \in Workers : session[s].conn # x
    BY <1>1, NewUnconnected
  <1>3. n \in SessionType /\ n.conn = None
    BY <1>1, <1>2 DEF SessionType
  <1>4. session' = [session EXCEPT ![s] = n]
    BY DEF Disconnected, SessionInv, TypeOK, SessionType
  <1>5. worker' = [x \in Workers |-> IF x = None THEN None
                                     ELSE IF x = session[s].conn THEN Dropped(worker[x])
                                     ELSE worker[x]]
    BY <1>2 DEF Disconnected, SessionInv, TypeOK
  <1>6. manager' \in ManagerType /\ manager'.op = "idle" /\ manager.op = "idle"
        /\ Rung(s, None, None, n)
    BY <1>2 DEF SessionInv, TypeOK, New, Rung
  <1> HIDE DEF n
  <1>7. Exchangeable(s, None, None, n)
    BY <1>2, <1>3, <1>6 DEF Exchangeable
  <1>8. Exchanged(s, None, None, n)
    BY <1>4, <1>5, <1>6 DEF Exchanged
  <1> QED
    BY <1>7, <1>8, ExchangeKeeps

-----------------------------------------------------------------------------
(* What workers do                                                           *)

LEMMA SetKeeps ==
  ASSUME SessionInv, NEW w \in Workers, NEW r \in WorkerType,
         r.owner = worker[w].owner, r.slot = worker[w].slot,
         worker[w].phase # "free" => r.phase # "free", r.calling => r.slot, Set(w, r)
  PROVE  SessionInv'
  BY WorkerKeeps DEF Set, SessionInv, TypeOK

\* What comes for the interface is announced, and nothing comes from a worker that has
\* exited.
Announces(r, q) ==
    /\ \/ q.owes
       \/ /\ ~ r.owes
          /\ q.buffered > 0 => r.buffered > 0
          /\ q.news /\ q.phase # "ending" => r.news /\ r.phase # "ending"
          /\ q.phase = "exited" => r.phase = "exited"
    /\ q.kind = "local" /\ q.news => r.news
    /\ r.phase = "exited" =>
          q.phase = "exited" /\ q.buffered = r.buffered /\ q.news = r.news

Follows(r, q) ==
    /\ q.slot = r.slot /\ q.kind = r.kind /\ Announces(r, q)
    /\ \A z \in Sizes : SizeComes(r, z) => SizeComes(q, z)

\* What a worker's own steps do to its record.
Moves(r, q) == /\ q \in WorkerType /\ q.owner = r.owner /\ q.phase # "free"
               /\ q.calling = r.calling /\ Follows(r, q)

\* It moves without touching sizes and commands.
LEMMA SimplyMoves ==
  ASSUME NEW r, NEW q \in WorkerType, q.owner = r.owner, q.slot = r.slot, q.phase # "free",
         q.calling = r.calling, q.kind = r.kind, q.size = r.size, q.commands = r.commands,
         q.swallowed = r.swallowed, q.phase \in Accepting => r.phase \in Accepting,
         Announces(r, q)
  PROVE  Moves(r, q)
  <1>1. \A z \in Sizes : SizeComes(r, z) => SizeComes(q, z)
    BY SizeStays
  <1> QED
    BY <1>1 DEF Moves, Follows

LEMMA RunMoves ==
  ASSUME NEW r \in WorkerType, r.phase \in Accepting, r.kind # "mosh", r.commands # <<>>
  PROVE  Moves(r, Run(r))
  <1> DEFINE head == Head(r.commands)
             size == IF head = Input THEN r.size ELSE head
             rest == Tail(r.commands)
             swallowed == r.swallowed /\ head = Input
             q == [r EXCEPT !.commands = rest, !.size = size, !.swallowed = swallowed]
  <1>1. Run(r) = q
    BY DEF Run, WorkerType
  <1>2. q \in WorkerType
    BY <1>1, RunTyped
  <1> HIDE DEF rest, size, swallowed
  <1>3. /\ q.commands = rest /\ q.size = size /\ q.swallowed = swallowed
        /\ q.owner = r.owner /\ q.slot = r.slot /\ q.phase = r.phase /\ q.calling = r.calling
        /\ q.kind = r.kind /\ q.owes = r.owes /\ q.buffered = r.buffered /\ q.news = r.news
    BY DEF WorkerType
  <1> HIDE DEF q
  <1>4. ASSUME NEW z \in Sizes, SizeComes(r, z) PROVE SizeComes(q, z)
    <2>1. CASE r.kind = "serial"
      BY <1>3, <2>1 DEF SizeComes
    <2>2. CASE r.kind # "serial"
      <3>1. SizeQueued(r, z)
        BY <1>4, <2>2 DEF SizeComes
      <3>2. SizeQueued(q, z)
        BY <1>2, <1>3, <3>1, SizeTaken DEF rest, size, swallowed
      <3> QED
        BY <1>3, <3>2 DEF SizeComes
    <2> QED
      BY <2>1, <2>2
  <1>5. Announces(r, q)
    BY <1>3 DEF Announces, WorkerType
  <1>6. r.phase # "free"
    BY DEF Accepting
  <1> QED
    BY <1>1, <1>2, <1>3, <1>4, <1>5, <1>6 DEF Moves, Follows

LEMMA RecordMoves ==
  ASSUME NEW r \in WorkerType, r.phase \in Accepting \cup {"ending"}
  PROVE  /\ \A phase \in Accepting : r.phase \in Accepting => Moves(r, [r EXCEPT !.phase = phase])
         /\ Moves(r, Ending(r))
         /\ r.kind # "local" => Moves(r, Push(r))
         /\ r.buffered < MaxChunks => Moves(r, Append1(r))
         /\ r.commands # <<>> /\ r.kind # "mosh" /\ r.phase \in Accepting => Moves(r, Run(r))
  <1> USE DEF Accepting
  <1>1. ASSUME NEW phase \in Accepting, r.phase \in Accepting
        PROVE  Moves(r, [r EXCEPT !.phase = phase])
    <2> DEFINE q == [r EXCEPT !.phase = phase]
    <2>1. /\ q \in WorkerType /\ q.owner = r.owner /\ q.slot = r.slot /\ q.phase = phase
          /\ q.calling = r.calling /\ q.kind = r.kind /\ q.size = r.size
          /\ q.commands = r.commands /\ q.swallowed = r.swallowed /\ q.owes = r.owes
          /\ q.buffered = r.buffered /\ q.news = r.news
      BY DEF WorkerType, Phases
    <2> HIDE DEF q
    <2>2. Announces(r, q) /\ phase # "free"
      BY <1>1, <2>1 DEF Announces, WorkerType
    <2>3. Moves(r, q)
      BY <1>1, <2>1, <2>2, SimplyMoves
    <2> QED
      BY <2>3 DEF q
  <1>2. Moves(r, Ending(r))
    <2> DEFINE q == [r EXCEPT !.phase = "ending"]
    <2>1. /\ q \in WorkerType /\ q.owner = r.owner /\ q.slot = r.slot /\ q.phase = "ending"
          /\ q.calling = r.calling /\ q.kind = r.kind /\ q.size = r.size
          /\ q.commands = r.commands /\ q.swallowed = r.swallowed /\ q.owes = r.owes
          /\ q.buffered = r.buffered /\ q.news = r.news
      BY DEF WorkerType, Phases
    <2> HIDE DEF q
    <2>2. Announces(r, q)
      BY <2>1 DEF Announces, WorkerType
    <2>3. Moves(r, q)
      BY <2>1, <2>2, SimplyMoves
    <2> QED
      BY <2>3 DEF q, Ending
  <1>3. ASSUME r.kind # "local" PROVE Moves(r, Push(r))
    <2> DEFINE q == [r EXCEPT !.news = TRUE, !.owes = TRUE]
    <2>1. /\ q \in WorkerType /\ q.owner = r.owner /\ q.slot = r.slot /\ q.phase = r.phase
          /\ q.calling = r.calling /\ q.kind = r.kind /\ q.size = r.size
          /\ q.commands = r.commands /\ q.swallowed = r.swallowed /\ q.owes
      BY DEF WorkerType
    <2> HIDE DEF q
    <2>2. Announces(r, q)
      BY <1>3, <2>1 DEF Announces
    <2>3. Moves(r, q)
      BY <2>1, <2>2, SimplyMoves
    <2> QED
      BY <2>3 DEF q, Push
  <1>4. ASSUME r.buffered < MaxChunks PROVE Moves(r, Append1(r))
    <2> DEFINE more == r.buffered + 1
               q == [r EXCEPT !.buffered = more, !.owes = TRUE]
    <2>1. more \in 0..MaxChunks
      BY <1>4, BoundsAssumption DEF WorkerType
    <2>2. Append1(r) = q
      BY DEF Append1
    <2> HIDE DEF more
    <2>3. /\ q \in WorkerType /\ q.owner = r.owner /\ q.slot = r.slot /\ q.phase = r.phase
          /\ q.calling = r.calling /\ q.kind = r.kind /\ q.size = r.size
          /\ q.commands = r.commands /\ q.swallowed = r.swallowed /\ q.owes /\ q.news = r.news
      BY <2>1 DEF WorkerType
    <2> HIDE DEF q
    <2>4. Announces(r, q)
      BY <2>3 DEF Announces
    <2> QED
      BY <2>2, <2>3, <2>4, SimplyMoves
  <1> QED
    BY <1>1, <1>2, <1>3, <1>4, RunMoves

LEMMA MovesCompose ==
  ASSUME NEW r, NEW q, NEW p, Moves(r, q), Moves(q, p), ~ q.owes \/ p.owes
  PROVE  Moves(r, p)
  <1>1. Announces(r, p)
    BY DEF Moves, Follows, Announces
  <1> QED
    BY <1>1 DEF Moves, Follows

\* One worker's own step, as the session that has it sees it.
LEMMA FollowsWake ==
  ASSUME SessionInv, WakeInv, NEW w \in Workers, NEW q, Follows(worker[w], q), Set(w, q)
  PROVE  WakeInv'
  <1>1. /\ worker'[w] = q /\ \A x \in Workers : x # w => worker'[x] = worker[x]
        /\ UNCHANGED <<session, manager, wake, runtime>>
        /\ \A x \in Workers : worker[x] \in WorkerType
    BY DEF Set, SessionInv, TypeOK
  <1>2. \A s \in Sessions : /\ Watched(s)' = Watched(s) /\ Polled(s)' = Polled(s)
                            /\ \A stages : Coming(s, stages)' = Coming(s, stages)
    BY <1>1 DEF Watched, Polled, Coming
  <1>3. ASSUME NEW s \in Sessions, NEW x \in Workers, session[s].conn = x
        PROVE  Fit(session'[s], worker'[x]) /\ (Watched(s)' => Woke(s, x)')
    <2>1. Fit(session[s], worker[x]) /\ (Watched(s) => Woke(s, x)) /\ session[s].size \in Sizes
      BY <1>3 DEF WakeInv, ConnOK, SessionInv, TypeOK, SessionType
    <2>2. CASE x # w
      <3>1. Woke(s, x)' = Woke(s, x)
        BY <1>1, <1>2, <2>2 DEF Woke, Told, Exited
      <3> QED
        BY <1>1, <1>2, <2>1, <2>2, <3>1
    <2>3. CASE x = w
      <3>1. Fit(session[s], q)
        BY <2>1, <2>3 DEF Fit, Follows, Announces
      <3>2. Woke(s, x) => Woke(s, x)'
        BY <1>1, <1>2, <2>3 DEF Woke, Told, Exited, Follows, Announces
      <3> QED
        BY <1>1, <1>2, <2>1, <2>3, <3>1, <3>2
    <2> QED
      BY <2>2, <2>3
  <1>4. PollOK'
    <2>1. CASE manager.op = "poll" /\ manager.w = w
      BY <1>1, <2>1 DEF WakeInv, PollOK, Follows, Announces
    <2>2. CASE manager.op = "poll" /\ manager.w # w
      BY <1>1, <2>2 DEF SessionInv, LockKept, WakeInv, PollOK
    <2>3. CASE manager.op # "poll"
      BY <1>1, <2>3 DEF PollOK
    <2> QED
      BY <2>1, <2>2, <2>3
  <1> QED
    BY <1>1, <1>3, <1>4 DEF WakeInv, ConnOK

\* A notification is over: it had no callback to call, or has called it.
LEMMA SettledWakes ==
  ASSUME SessionInv, WakeInv, NEW w \in Workers, NEW q, worker' = [worker EXCEPT ![w] = q],
         UNCHANGED <<session, manager, runtime>>, wake \subseteq wake',
         q.kind = worker[w].kind, q.size = worker[w].size, q.commands = worker[w].commands,
         q.swallowed = worker[w].swallowed, q.phase = worker[w].phase, q.slot = worker[w].slot,
         q.buffered = worker[w].buffered, q.news = worker[w].news,
         \A s \in Sessions : session[s].conn = w /\ Watched(s) => s \in wake'
  PROVE  WakeInv'
  <1>1. /\ worker'[w] = q /\ \A x \in Workers : x # w => worker'[x] = worker[x]
    BY DEF SessionInv, TypeOK
  <1>2. \A s \in Sessions : /\ Watched(s)' = Watched(s) /\ Polled(s)' = Polled(s)
                            /\ \A stages : Coming(s, stages)' = Coming(s, stages)
    BY DEF Watched, Polled, Coming
  <1>3. ASSUME NEW s \in Sessions, NEW x \in Workers, session[s].conn = x
        PROVE  Fit(session'[s], worker'[x]) /\ (Watched(s)' => Woke(s, x)')
    <2>1. Fit(session[s], worker[x]) /\ (Watched(s) => Woke(s, x))
      BY <1>3 DEF WakeInv, ConnOK
    <2>2. CASE x # w
      <3>1. Woke(s, x) => Woke(s, x)'
        BY <1>1, <1>2, <2>2 DEF Woke, Told, Exited
      <3> QED
        BY <1>1, <1>2, <2>1, <2>2, <3>1
    <2>3. CASE x = w
      <3>1. Fit(session[s], q)
        BY <2>1, <2>3, SizeStays DEF Fit
      <3>2. Watched(s) /\ Woke(s, x) => Woke(s, x)'
        BY <1>1, <1>2, <1>3, <2>3 DEF Woke, Told, Exited
      <3> QED
        BY <1>1, <1>2, <2>1, <2>3, <3>1, <3>2
    <2> QED
      BY <2>2, <2>3
  <1>4. PollOK'
    <2>1. CASE manager.op = "poll" /\ manager.w = w
      BY <1>1, <2>1 DEF WakeInv, PollOK
    <2>2. CASE manager.op = "poll" /\ manager.w # w
      BY <1>1, <2>2 DEF SessionInv, LockKept, WakeInv, PollOK
    <2>3. CASE manager.op # "poll"
      BY <1>1, <2>3 DEF PollOK
    <2> QED
      BY <2>1, <2>2, <2>3
  <1> QED
    BY <1>1, <1>3, <1>4 DEF WakeInv, ConnOK

LEMMA MovesKeep ==
  ASSUME SessionInv, NEW w \in Workers, NEW q, Moves(worker[w], q), Set(w, q)
  PROVE  Continues
  <1>1. SessionInv'
    BY SetKeeps DEF Moves, Follows, SessionInv, CalledFromSlot
  <1>2. WakeInv => WakeInv'
    BY FollowsWake DEF Moves
  <1> QED
    BY <1>1, <1>2 DEF Continues

LEMMA RemoteStepKeeps ==
  ASSUME SessionInv, NEW w \in Workers, RemoteStep(w)
  PROVE  Continues
  <1> DEFINE r == worker[w]
  <1>1. r \in WorkerType
    BY DEF SessionInv, TypeOK
  <1>2. r.phase \in Accepting /\ ~ r.owes
    BY DEF RemoteStep, SshConnects, SshFails, SshSent, SshReceives, SshEnds, TelnetConnects,
           TelnetFails, TelnetReceives, TelnetEnds, SerialReceives, SerialEnds, LocalReceives,
           LocalEnds, MoshSteps, KindAt, At, Accepting
  <1>3. /\ Moves(r, [r EXCEPT !.phase = "up"])
        /\ r.kind # "local" => Moves(r, Push([r EXCEPT !.phase = "up"]))
    <2> DEFINE q == [r EXCEPT !.phase = "up"]
    <2>1. Moves(r, q)
      BY <1>1, <1>2, RecordMoves DEF Accepting
    <2>2. q.phase = "up" /\ q.kind = r.kind /\ Push(q).owes
      BY <1>1 DEF Push, WorkerType
    <2> HIDE DEF q
    <2>3. r.kind # "local" => Moves(q, Push(q))
      BY <2>1, <2>2, RecordMoves DEF Moves, Accepting
    <2> QED
      BY <2>1, <2>2, <2>3, MovesCompose DEF q
  <1>4. Moves(r, Ending(r)) /\ (r.kind # "local" => Moves(r, Push(Ending(r))))
    <2> DEFINE q == Ending(r)
    <2>1. Moves(r, q)
      BY <1>1, <1>2, RecordMoves
    <2>2. q.phase = "ending" /\ q.kind = r.kind /\ Push(q).owes
      BY <1>1 DEF Ending, Push, WorkerType
    <2> HIDE DEF q
    <2>3. r.kind # "local" => Moves(q, Push(q))
      BY <2>1, <2>2, RecordMoves DEF Moves
    <2> QED
      BY <2>1, <2>2, <2>3, MovesCompose DEF q
  <1>5. ASSUME r.kind # "local" PROVE Moves(r, [Ending(r) EXCEPT !.news = TRUE])
    <2> DEFINE q == [Ending(r) EXCEPT !.news = TRUE]
    <2>1. /\ q \in WorkerType /\ q.owner = r.owner /\ q.slot = r.slot /\ q.phase = "ending"
          /\ q.calling = r.calling /\ q.kind = r.kind /\ q.size = r.size
          /\ q.commands = r.commands /\ q.swallowed = r.swallowed /\ q.owes = r.owes
          /\ q.buffered = r.buffered
      BY <1>1 DEF Ending, WorkerType, Phases
    <2> HIDE DEF q
    <2>2. Announces(r, q)
      BY <1>2, <1>5, <2>1 DEF Announces, Accepting
    <2>3. Moves(r, q)
      BY <2>1, <2>2, SimplyMoves DEF Accepting
    <2> QED
      BY <2>3 DEF q
  <1>6. /\ r.kind # "local" => Moves(r, Push(r))
        /\ r.buffered < MaxChunks => Moves(r, Append1(r))
    BY <1>1, <1>2, RecordMoves
  <1>7. \E q : Moves(r, q) /\ Set(w, q)
    <2>1. CASE SshConnects(w) \/ TelnetConnects(w) \/ SshSent(w)
      BY <2>1, <1>3 DEF SshConnects, TelnetConnects, SshSent, KindAt
    <2>2. CASE SshFails(w) \/ TelnetFails(w) \/ SshEnds(w) \/ TelnetEnds(w) \/ LocalEnds(w)
      BY <2>2, <1>4 DEF SshFails, TelnetFails, SshEnds, TelnetEnds, LocalEnds, KindAt
    <2>3. CASE SerialEnds(w)
      BY <2>3, <1>5 DEF SerialEnds, KindAt
    <2>4. CASE SshReceives(w) \/ TelnetReceives(w) \/ SerialReceives(w) \/ LocalReceives(w)
      BY <2>4, <1>6 DEF SshReceives, TelnetReceives, SerialReceives, LocalReceives, KindAt
    <2>5. CASE MoshSteps(w)
      BY <2>5, <1>4, <1>6 DEF MoshSteps, KindAt
    <2> QED
      BY <2>1, <2>2, <2>3, <2>4, <2>5 DEF RemoteStep
  <1> QED
    BY <1>7, MovesKeep

LEMMA NotifyKeeps ==
  ASSUME SessionInv, NEW w \in Workers, Notify(w)
  PROVE  Continues
  <1> DEFINE r == worker[w]
  <1>1. r \in WorkerType
    BY DEF SessionInv, TypeOK
  <1>2. CASE r.slot /\ runtime = "running"
    <2> DEFINE q == [r EXCEPT !.calling = TRUE]
    <2>1. /\ q \in WorkerType /\ q.owner = r.owner /\ q.slot = r.slot /\ q.phase = r.phase
          /\ q.kind = r.kind /\ q.size = r.size /\ q.commands = r.commands
          /\ q.swallowed = r.swallowed /\ q.owes = r.owes /\ q.news = r.news
          /\ q.buffered = r.buffered
      BY <1>1 DEF WorkerType
    <2>2. Set(w, q) /\ r.owes
      BY <1>2 DEF Notify
    <2> HIDE DEF q
    <2>3. Follows(r, q)
      BY <2>1, <2>2, SizeStays DEF Follows, Announces
    <2>4. SessionInv'
      BY <1>2, <2>1, <2>2, SetKeeps
    <2>5. WakeInv => WakeInv'
      BY <2>2, <2>3, FollowsWake
    <2> QED
      BY <2>4, <2>5 DEF Continues
  <1>3. CASE ~ (r.slot /\ runtime = "running")
    <2> DEFINE q == [r EXCEPT !.owes = FALSE]
    <2>1. /\ q \in WorkerType /\ q.owner = r.owner /\ q.slot = r.slot /\ q.phase = r.phase
          /\ q.kind = r.kind /\ q.size = r.size /\ q.commands = r.commands
          /\ q.swallowed = r.swallowed /\ q.calling = r.calling /\ q.news = r.news
          /\ q.buffered = r.buffered
      BY <1>1 DEF WorkerType
    <2>2. Set(w, q) /\ ~ r.calling
      BY <1>3 DEF Notify
    <2> HIDE DEF q
    <2>3. SessionInv'
      BY <2>1, <2>2, SetKeeps
    <2>4. ASSUME WakeInv PROVE WakeInv'
      <3>1. \A s \in Sessions : session[s].conn = w => ~ Watched(s)
        BY <1>3, <2>4 DEF WakeInv, ConnOK, Woke, Watched
      <3>2. worker' = [worker EXCEPT ![w] = q] /\ UNCHANGED <<session, manager, wake, runtime>>
        BY <2>2 DEF Set
      <3> HIDE DEF r
      <3> QED
        BY <2>1, <2>4, <3>1, <3>2, SettledWakes DEF r
    <2> QED
      BY <2>3, <2>4 DEF Continues
  <1> QED
    BY <1>2, <1>3

LEMMA CallbackReturnsKeeps ==
  ASSUME SessionInv, NEW w \in Workers, CallbackReturns(w)
  PROVE  Continues
  <1> DEFINE r == worker[w]
             q == [r EXCEPT !.owes = FALSE, !.calling = FALSE]
  <1>1. r \in WorkerType /\ r.owner \in Sessions
    BY DEF SessionInv, TypeOK, CallbackReturns, CalledFromSlot, SlotOwned
  <1> HIDE DEF r
  <1>2. /\ q \in WorkerType /\ q.owner = r.owner /\ q.slot = r.slot /\ q.phase = r.phase
        /\ q.kind = r.kind /\ q.size = r.size /\ q.commands = r.commands
        /\ q.swallowed = r.swallowed /\ q.news = r.news /\ q.buffered = r.buffered
        /\ ~ q.calling
    BY <1>1 DEF WorkerType
  <1>3. worker' = [worker EXCEPT ![w] = q]
    BY DEF CallbackReturns, SessionInv, TypeOK, WorkerType, r
  <1>4. /\ UNCHANGED <<session, manager, runtime>> /\ manager' \in ManagerType
        /\ wake' \subseteq Sessions /\ wake' = wake \cup {r.owner}
    BY <1>1 DEF CallbackReturns, SessionInv, TypeOK, r
  <1> HIDE DEF q
  <1>5. SessionInv'
    BY <1>2, <1>3, <1>4, WorkerKeeps DEF r
  <1>6. ASSUME WakeInv PROVE WakeInv'
    <2>1. \A s \in Sessions : session[s].conn = w => s \in wake'
      BY <1>4 DEF SessionInv, OneOwner, r
    <2> QED
      BY <1>2, <1>3, <1>4, <1>6, <2>1, SettledWakes DEF r
  <1> QED
    BY <1>5, <1>6 DEF Continues

LEMMA WorkerStepKeeps ==
  ASSUME SessionInv, NEW w \in Workers, WorkerStep(w)
  PROVE  Continues
  <1> DEFINE r == worker[w]
  <1>1. r \in WorkerType
    BY DEF SessionInv, TypeOK
  <1>2. CASE SshSwallows(w)
    <2> DEFINE swallowed == r.swallowed \/ Head(r.commands) # Input
               rest == Tail(r.commands)
               q == [r EXCEPT !.commands = rest, !.swallowed = swallowed]
    <2>1. /\ r.commands # <<>> /\ r.phase = "connecting" /\ r.kind = "ssh" /\ ~ r.owes
      BY <1>2 DEF SshSwallows, KindAt, At
    <2>2. Set(w, q)
      BY <1>1, <1>2 DEF SshSwallows, WorkerType
    <2>3. rest \in Seq(Commands) /\ swallowed \in BOOLEAN
      BY <1>1, <2>1 DEF WorkerType
    <2> HIDE DEF r, swallowed, rest
    <2>4. /\ q \in WorkerType /\ q.owner = r.owner /\ q.slot = r.slot /\ q.phase = r.phase
          /\ q.kind = r.kind /\ q.size = r.size /\ q.commands = rest
          /\ q.swallowed = swallowed /\ q.news = r.news /\ q.buffered = r.buffered
          /\ q.calling = r.calling /\ q.owes = r.owes
      BY <1>1, <2>3 DEF WorkerType
    <2> HIDE DEF q
    <2>5. ASSUME NEW z \in Sizes, SizeComes(r, z) PROVE SizeComes(q, z)
      <3>1. SizeQueued(r, z)
        BY <2>1, <2>5 DEF SizeComes, Accepting
      <3>2. SizeQueued(q, z)
        BY <1>1, <2>1, <2>4, <3>1, SizeTaken DEF rest, swallowed
      <3> QED
        BY <2>1, <2>4, <3>2 DEF SizeComes
    <2>6. Announces(r, q)
      BY <2>1, <2>4 DEF Announces
    <2>7. Moves(r, q)
      BY <2>1, <2>4, <2>5, <2>6 DEF Moves, Follows
    <2> QED
      BY <2>2, <2>7, MovesKeep DEF r
  <1>3. CASE SshRuns(w)
    <2>1. PICK phase \in {"up", "awaiting"} : Set(w, [Run(r) EXCEPT !.phase = phase])
      BY <1>3 DEF SshRuns
    <2> DEFINE q == Run(r)
    <2>2. Moves(r, q) /\ q.phase = "up" /\ q.owes = r.owes /\ ~ r.owes
      BY <1>1, <1>3, RunMoves, RunTyped DEF SshRuns, KindAt, At, Accepting, Run, WorkerType
    <2> HIDE DEF q
    <2>3. Moves(q, [q EXCEPT !.phase = phase])
      <3>1. q \in WorkerType /\ q.phase \in Accepting /\ phase \in Accepting
        BY <2>2 DEF Moves, Accepting
      <3> QED
        BY <3>1, RecordMoves
    <2>4. Moves(r, [q EXCEPT !.phase = phase])
      BY <2>2, <2>3, MovesCompose
    <2> USE DEF q
    <2> QED
      BY <2>1, <2>4, MovesKeep
  <1>4. CASE TelnetRuns(w) \/ SerialRuns(w) \/ LocalRuns(w)
    <2>1. r.commands # <<>> /\ r.phase \in Accepting /\ r.kind # "mosh" /\ Set(w, Run(r))
      BY <1>4 DEF TelnetRuns, SerialRuns, LocalRuns, KindAt, At, Accepting
    <2> QED
      BY <1>1, <2>1, RunMoves, MovesKeep
  <1>5. CASE StopRequested(w)
    <2>1. r.phase \in Accepting /\ Set(w, Ending(r))
      BY <1>5 DEF StopRequested, At, Accepting
    <2> QED
      BY <1>1, <2>1, RecordMoves, MovesKeep
  <1>6. CASE StoreExited(w)
    <2> DEFINE q == [r EXCEPT !.phase = "exited", !.owes = TRUE]
    <2>1. Set(w, q) /\ r.phase = "ending"
      BY <1>6 DEF StoreExited, At
    <2> HIDE DEF r
    <2>2. /\ q \in WorkerType /\ q.owner = r.owner /\ q.slot = r.slot /\ q.phase = "exited"
          /\ q.kind = r.kind /\ q.size = r.size /\ q.commands = r.commands
          /\ q.swallowed = r.swallowed /\ q.calling = r.calling /\ q.news = r.news
          /\ q.buffered = r.buffered /\ q.owes
      BY <1>1 DEF WorkerType, Phases
    <2> HIDE DEF q
    <2>3. Announces(r, q)
      BY <2>1, <2>2 DEF Announces
    <2>4. Moves(r, q)
      BY <2>2, <2>3, SimplyMoves DEF Accepting
    <2> QED
      BY <2>1, <2>4, MovesKeep DEF r
  <1> QED
    BY <1>2, <1>3, <1>4, <1>5, <1>6, NotifyKeeps, CallbackReturnsKeeps DEF WorkerStep

-----------------------------------------------------------------------------
(* The poll                                                                  *)

LEMMA DrainKeeps ==
  ASSUME SessionInv, NEW left \in Nat, NEW exit \in BOOLEAN, NEW buffered \in 0..MaxChunks,
         NEW news \in BOOLEAN,
         manager.op = "poll", manager.todo # <<>>,
         worker' = [worker EXCEPT ![manager.w] =
                        [worker[manager.w] EXCEPT !.buffered = buffered, !.news = news]],
         manager' = Proceed([manager EXCEPT !.taken = @ + 1, !.more = left > 1, !.exit = exit]),
         wake' = IF left > 1 THEN Woken(manager.s, manager.w) ELSE wake,
         UNCHANGED <<session, runtime>>
  PROVE  SessionInv'
  <1> DEFINE w == manager.w
             r == worker[w]
             q == [r EXCEPT !.buffered = buffered, !.news = news]
             more == left > 1
             next == manager.taken + 1
             m == [manager EXCEPT !.taken = next, !.more = more, !.exit = exit]
  <1>1. w \in Workers /\ manager.s \in Sessions /\ manager \in ManagerType /\ TypeOK
    BY DEF SessionInv, LockKept, TypeOK
  <1>2. r \in WorkerType
    BY <1>1 DEF TypeOK
  <1>3. next \in Nat /\ more \in BOOLEAN
    BY <1>1 DEF ManagerType
  <1>4. manager' = Proceed(m) /\ worker' = [worker EXCEPT ![w] = q]
    OBVIOUS
  <1>5. wake' \subseteq Sessions
    BY <1>1 DEF Woken, TypeOK
  <1> HIDE DEF next, more
  <1>6. m \in ManagerType /\ m.todo = manager.todo /\ m.op = manager.op
        /\ m.s = manager.s /\ m.w = w
    BY <1>1, <1>3 DEF ManagerType
  <1> HIDE DEF m, r
  <1>7. q \in WorkerType /\ q.owner = r.owner /\ q.slot = r.slot /\ q.phase = r.phase
        /\ q.calling = r.calling
    BY <1>2 DEF WorkerType
  <1> HIDE DEF q, w
  <1>8. /\ manager' \in ManagerType /\ manager'.op = manager.op
        /\ manager'.s = manager.s /\ manager'.w = manager.w
    <2>1. m \in ManagerType /\ m.todo # <<>> /\ m.w \in Workers
      BY <1>1, <1>6 DEF w
    <2> QED
      BY <1>1, <1>4, <1>6, <2>1, ProceedTyped DEF w
  <1>9. r.calling => r.slot
    BY <1>1 DEF SessionInv, CalledFromSlot, r
  <1>10. /\ w \in Workers /\ q \in WorkerType
         /\ q.owner = worker[w].owner /\ q.slot = worker[w].slot
         /\ (worker[w].phase # "free" => q.phase # "free") /\ (q.calling => q.slot)
    BY <1>1, <1>7, <1>9 DEF r
  <1>11. UNCHANGED <<session, runtime>>
    OBVIOUS
  <1> QED
    BY ONLY SessionInv, <1>4, <1>5, <1>8, <1>10, <1>11, WorkerKeeps

LEMMA PollStageKeeps ==
  ASSUME SessionInv, DrainOutput \/ DrainEvents \/ LoadExited \/ DrainLibrary
  PROVE  SessionInv'
  <1> DEFINE w == manager.w
             r == worker[w]
             left == r.buffered
             fewer == IF left > 0 THEN left - 1 ELSE left
  <1>1. manager.op = "poll" /\ manager.todo # <<>>
    BY DEF DrainOutput, DrainEvents, LoadExited, DrainLibrary, PollStage
  <1>2. w \in Workers /\ manager.s \in Sessions /\ manager \in ManagerType /\ TypeOK
    BY <1>1 DEF SessionInv, LockKept, TypeOK
  <1>3. r \in WorkerType /\ (r.calling => r.slot)
    BY <1>2 DEF TypeOK, SessionInv, CalledFromSlot
  <1>4. left \in Nat /\ fewer \in 0..MaxChunks
    BY <1>3, BoundsAssumption DEF WorkerType
  <1>5. manager.exit \in BOOLEAN /\ r.news \in BOOLEAN
    BY <1>2, <1>3 DEF ManagerType, WorkerType
  <1>6. CASE DrainOutput
    <2>1. worker' = [worker EXCEPT ![w] = [r EXCEPT !.buffered = fewer, !.news = r.news]]
      BY <1>2, <1>3, <1>6 DEF DrainOutput, TypeOK, WorkerType
    <2>2. manager' = Proceed([manager EXCEPT !.taken = @ + 1, !.more = left > 1,
                                             !.exit = manager.exit])
      <3>1. [manager EXCEPT !.taken = @ + 1, !.more = left > 1, !.exit = manager.exit]
              = [manager EXCEPT !.taken = @ + 1, !.more = left > 1]
        BY <1>2 DEF ManagerType
      <3> QED
        BY <1>6, <3>1 DEF DrainOutput
    <2>3. /\ wake' = IF left > 1 THEN Woken(manager.s, w) ELSE wake
          /\ UNCHANGED <<session, runtime>>
      BY <1>6 DEF DrainOutput
    <2> HIDE DEF left, fewer
    <2> QED
      BY <1>1, <1>4, <1>5, <2>1, <2>2, <2>3, DrainKeeps
  <1>7. CASE DrainLibrary
    <2>1. worker' = [worker EXCEPT ![w] = [r EXCEPT !.buffered = fewer, !.news = FALSE]]
      BY <1>2, <1>3, <1>7 DEF DrainLibrary, TypeOK, WorkerType
    <2>2. /\ manager' = Proceed([manager EXCEPT !.taken = @ + 1, !.more = left > 1,
                                                !.exit = Exited(w)])
          /\ wake' = IF left > 1 THEN Woken(manager.s, w) ELSE wake
          /\ UNCHANGED <<session, runtime>>
      BY <1>7 DEF DrainLibrary
    <2>3. Exited(w) \in BOOLEAN
      BY DEF Exited
    <2> HIDE DEF left, fewer
    <2> QED
      BY <1>1, <1>4, <2>1, <2>2, <2>3, DrainKeeps
  <1>8. CASE DrainEvents
    <2> DEFINE q == [r EXCEPT !.news = FALSE]
    <2>1. worker' = [worker EXCEPT ![w] = q] /\ manager' = Proceed(manager)
      BY <1>2, <1>8 DEF DrainEvents, TypeOK
    <2>2. manager' \in ManagerType /\ manager'.op = manager.op
          /\ manager'.s = manager.s /\ manager'.w = manager.w
      BY <1>1, <1>2, <2>1, ProceedTyped
    <2>3. UNCHANGED <<session, runtime>> /\ wake' \subseteq Sessions
      BY <1>2, <1>8 DEF DrainEvents, TypeOK
    <2> HIDE DEF r
    <2>4. q \in WorkerType /\ q.owner = r.owner /\ q.slot = r.slot /\ q.phase = r.phase
          /\ q.calling = r.calling
      BY <1>3 DEF WorkerType
    <2> HIDE DEF q, w
    <2> QED
      BY <1>2, <1>3, <2>1, <2>2, <2>3, <2>4, WorkerKeeps DEF r
  <1>9. CASE LoadExited
    <2> DEFINE exit == Exited(w)
               m == [manager EXCEPT !.exit = exit]
    <2>1. exit \in BOOLEAN
      BY DEF Exited
    <2>2. manager' = Proceed(m) /\ worker' = [worker EXCEPT ![w] = r]
      BY <1>2, <1>9 DEF LoadExited, TypeOK
    <2>3. UNCHANGED <<session, runtime>> /\ wake' \subseteq Sessions
      BY <1>2, <1>9 DEF LoadExited, TypeOK
    <2> HIDE DEF exit
    <2>4. m \in ManagerType /\ m.todo = manager.todo /\ m.op = manager.op
          /\ m.s = manager.s /\ m.w = w
      BY <1>2, <2>1 DEF ManagerType
    <2> HIDE DEF m, w
    <2>5. manager' \in ManagerType /\ manager'.op = manager.op
          /\ manager'.s = manager.s /\ manager'.w = manager.w
      BY <1>1, <1>2, <2>2, <2>4, ProceedTyped DEF w
    <2> HIDE DEF r
    <2> QED
      BY <1>2, <1>3, <2>2, <2>3, <2>5, WorkerKeeps DEF r
  <1> QED
    BY <1>6, <1>7, <1>8, <1>9

LEMMA PollFinishKeeps ==
  ASSUME SessionInv, PollFinish
  PROVE  SessionInv'
  <1> DEFINE s == manager.s
             w == manager.w
             old == worker[w]
  <1>1. /\ s \in Sessions /\ w \in Workers /\ session[s].conn = w /\ TypeOK
        /\ manager \in ManagerType
    BY DEF SessionInv, LockKept, TypeOK, PollFinish
  <1>2. old \in WorkerType /\ (old.calling => old.slot) /\ old.owner = s /\ old.phase # "free"
    BY <1>1 DEF TypeOK, SessionInv, CalledFromSlot, OneOwner
  <1>3. PICK r : /\ r = old \/ r = Queue(old, Input)
                 /\ IF PollExit
                    THEN /\ ~ old.calling
                         /\ session' = [session EXCEPT ![s].exited = TRUE, ![s].conn = None]
                         /\ worker' = [worker EXCEPT ![w] = Dropped(r)]
                         /\ manager' = Join(w)
                    ELSE /\ worker' = [worker EXCEPT ![w] = r]
                         /\ manager' = Idle
                         /\ UNCHANGED session
    BY DEF PollFinish
  <1>4. r \in WorkerType /\ r.owner = old.owner /\ r.phase = old.phase
        /\ r.slot = old.slot /\ r.calling = old.calling
    BY <1>2, <1>3, QueueTyped DEF Commands
  <1>5. UNCHANGED <<wake, runtime>> /\ wake' \subseteq Sessions
    BY <1>1 DEF PollFinish, TypeOK
  <1>6. CASE ~ PollExit
    <2>1. worker' = [worker EXCEPT ![w] = r] /\ manager' = Idle /\ UNCHANGED session
      BY <1>3, <1>6
    <2> HIDE DEF w
    <2> QED
      BY <1>1, <1>2, <1>4, <1>5, <2>1, IdleTyped, WorkerKeeps
  <1>7. CASE PollExit
    <2> DEFINE n == [session[s] EXCEPT !.exited = TRUE, !.conn = None]
               q == Dropped(r)
    <2>1. q \in WorkerType /\ q.owner = s /\ q.phase # "free" /\ ~ q.slot /\ ~ q.calling
      BY <1>2, <1>3, <1>4, <1>7, DroppedTyped
    <2>2. n \in SessionType /\ session' = [session EXCEPT ![s] = n] /\ n.conn = None
      <3> DEFINE was == session[s]
      <3>1. was \in SessionType
        BY <1>1 DEF TypeOK
      <3>2. session' = [session EXCEPT ![s] = [was EXCEPT !.exited = TRUE, !.conn = None]]
        BY <1>1, <1>3, <1>7 DEF TypeOK, SessionType
      <3> HIDE DEF was
      <3>3. /\ [was EXCEPT !.exited = TRUE, !.conn = None] \in SessionType
            /\ [was EXCEPT !.exited = TRUE, !.conn = None].conn = None
        BY <3>1 DEF SessionType
      <3> QED
        BY <3>2, <3>3 DEF was
    <2>3. worker' = [worker EXCEPT ![w] = q] /\ manager' = Join(w)
      BY <1>3, <1>7
    <2> HIDE DEF q, n, s, w
    <2>4. /\ \A x \in Workers : x # w => worker'[x] = worker[x]
          /\ worker'[w] = q /\ worker' \in [Workers -> WorkerType]
      BY <1>1, <2>1, <2>3 DEF TypeOK
    <2>5. /\ \A t \in Sessions : t # s => session'[t] = session[t]
          /\ session'[s] = n /\ session' \in [Sessions -> SessionType]
      BY <1>1, <2>2 DEF TypeOK
    <2>6. /\ \A t \in Sessions : session'[t].conn # w
          /\ \A x \in Workers : x # w /\ worker[x].slot => worker[x].owner # s
      BY <1>1, <1>2, <2>2, <2>5, NoneAssumption DEF SessionInv, OneOwner, SlotOwned
    <2>7. TypeOK'
      BY <1>1, <1>5, <2>3, <2>4, <2>5, JoinTyped DEF TypeOK
    <2>8. SlotOwned' /\ CalledFromSlot'
      BY <1>1, <1>5, <2>1, <2>4, <2>5, <2>6 DEF SessionInv, SlotOwned, CalledFromSlot
    <2>9. OneOwner'
      <3>1. session'[s].conn \notin Workers
        BY <2>2, <2>5, NoneAssumption
      <3>2. \A t \in Sessions, x \in Workers : session'[t].conn = x =>
                t # s /\ x # w /\ session[t].conn = x /\ session'[t] = session[t]
                /\ worker'[x] = worker[x]
        BY <2>4, <2>5, <2>6, <3>1
      <3> QED
        BY <3>2 DEF SessionInv, OneOwner
    <2>10. LockKept'
      BY <1>1, <2>1, <2>3, <2>4, <2>6, JoinTyped DEF LockKept
    <2> QED
      BY <2>7, <2>8, <2>9, <2>10 DEF SessionInv
  <1> QED
    BY <1>6, <1>7

-----------------------------------------------------------------------------
(* Calls that give a worker up                                               *)

LEMMA DropKeeps ==
  ASSUME SessionInv, NEW s \in Sessions, NEW n \in SessionType, n.conn = None,
         \A x \in Workers : session[s].conn = x => ~ worker[x].calling,
         Replace(s, None, None), session' = [session EXCEPT ![s] = n],
         manager.op = "idle" \/ (manager.op = "bootstrap" /\ manager.s = s),
         UNCHANGED runtime, wake' \subseteq Sessions,
         \A t \in Sessions : t # s /\ t \in wake => t \in wake'
  PROVE  Continues
  <1>1. Exchangeable(s, None, None, n)
    BY NoneAssumption DEF Exchangeable
  <1>2. Rung(s, None, None, n)
    BY NoneAssumption DEF Rung
  <1> QED
    BY <1>1, <1>2, ReplaceKeeps

\* A session that is there gets another worker of the same kind or of Mosh's.
LEMMA ReconnectKeeps ==
  ASSUME SessionInv, NEW s \in Sessions, NEW w \in Workers, Fresh(w), NEW kind \in Kinds,
         NEW n \in SessionType, n.conn = w, n.life = "open", n.wakeup = session[s].wakeup,
         n.kind = kind, n.size = session[s].size,
         manager.op = "idle" \/ (manager.op = "bootstrap" /\ manager.s = s),
         runtime \in {"running", "stopping"},
         \A x \in Workers : session[s].conn = x => ~ worker[x].calling,
         Replace(s, w, Spawned(kind, s, session[s].size, session[s].wakeup)),
         session' = [session EXCEPT ![s] = n],
         wake' = IF session[s].wakeup THEN wake \cup {s} ELSE wake, UNCHANGED runtime
  PROVE  Continues
  <1> DEFINE r == Spawned(kind, s, session[s].size, session[s].wakeup)
  <1>1. session[s].size \in Sizes /\ session[s].wakeup \in BOOLEAN
    BY DEF SessionInv, TypeOK, SessionType
  <1>2. r \in WorkerType /\ r.owner = s /\ r.phase # "free" /\ ~ r.calling
        /\ r.slot = n.wakeup /\ Fit(n, r)
    BY <1>1, SpawnedTyped, SpawnedFits DEF Fit
  <1>3. Rung(s, w, r, n) /\ worker[w].phase = "free"
    BY <1>2 DEF SessionInv, TypeOK, Fresh, Rung
  <1> HIDE DEF r
  <1>4. Replace(s, w, r)
    BY DEF r
  <1>5. Exchangeable(s, w, r, n)
    BY <1>2, <1>3 DEF Exchangeable
  <1> QED
    BY <1>3, <1>4, <1>5, ReplaceKeeps

LEMMA CloseKeeps ==
  ASSUME SessionInv, NEW s \in Sessions, Close(s)
  PROVE  Continues
  <1> DEFINE was == session[s]
             n == [was EXCEPT !.life = "closed", !.wakeup = FALSE, !.conn = None]
  <1>1. was \in SessionType
    BY DEF SessionInv, TypeOK
  <1>2. session' = [session EXCEPT ![s] = n]
    BY DEF Close, SessionInv, TypeOK, SessionType
  <1>3. /\ \A x \in Workers : session[s].conn = x => ~ worker[x].calling
        /\ Replace(s, None, None) /\ UNCHANGED runtime /\ wake' \subseteq Sessions
        /\ \A t \in Sessions : t # s /\ t \in wake => t \in wake'
        /\ manager.op = "idle"
    BY DEF Close, Open, SessionInv, TypeOK
  <1> HIDE DEF was
  <1>4. n \in SessionType /\ n.conn = None
    BY <1>1 DEF SessionType
  <1> HIDE DEF n
  <1> QED
    BY <1>2, <1>3, <1>4, DropKeeps

LEMMA ClearSessionKeeps ==
  ASSUME SessionInv, NEW s \in Sessions, ClearSession(s)
  PROVE  Continues
  <1> DEFINE was == session[s]
             n == [was EXCEPT !.life = "closed", !.conn = None]
  <1>1. was \in SessionType
    BY DEF SessionInv, TypeOK
  <1>2. session' = [session EXCEPT ![s] = n]
    BY DEF ClearSession, SessionInv, TypeOK, SessionType
  <1>3. /\ \A x \in Workers : session[s].conn = x => ~ worker[x].calling
        /\ Replace(s, None, None) /\ UNCHANGED <<runtime, wake>> /\ wake' \subseteq Sessions
        /\ manager.op = "idle"
    BY DEF ClearSession, SessionInv, TypeOK, SlotOwned, CalledFromSlot
  <1> HIDE DEF was
  <1>4. n \in SessionType /\ n.conn = None
    BY <1>1 DEF SessionType
  <1> HIDE DEF n
  <1> QED
    BY <1>2, <1>3, <1>4, DropKeeps

LEMMA ReconnectSshKeeps ==
  ASSUME SessionInv, NEW s \in Sessions, ReconnectSsh(s)
  PROVE  Continues
  <1> DEFINE was == session[s]
  <1>1. was \in SessionType
    BY DEF SessionInv, TypeOK
  <1>2. /\ was.life = "open" /\ runtime = "running" /\ UNCHANGED runtime
        /\ was.kind = "ssh" /\ manager.op = "idle"
        /\ \A x \in Workers : session[s].conn = x => ~ worker[x].calling
    BY DEF ReconnectSsh, Open
  <1>3. CASE \E w \in Workers :
            /\ Fresh(w)
            /\ Replace(s, w, Spawned("ssh", s, session[s].size, session[s].wakeup))
            /\ session' = [session EXCEPT ![s].exited = FALSE, ![s].conn = w]
            /\ wake' = IF session[s].wakeup THEN wake \cup {s} ELSE wake
    <2>1. PICK w \in Workers :
            /\ Fresh(w)
            /\ Replace(s, w, Spawned("ssh", s, session[s].size, session[s].wakeup))
            /\ session' = [session EXCEPT ![s].exited = FALSE, ![s].conn = w]
            /\ wake' = IF session[s].wakeup THEN wake \cup {s} ELSE wake
      BY <1>3
    <2> DEFINE n == [was EXCEPT !.exited = FALSE, !.conn = w]
    <2>2. session' = [session EXCEPT ![s] = n] /\ "ssh" \in Kinds
      BY <2>1 DEF SessionInv, TypeOK, SessionType, Kinds
    <2> HIDE DEF was
    <2>3. /\ n \in SessionType /\ n.conn = w /\ n.life = was.life /\ n.wakeup = was.wakeup
          /\ n.kind = was.kind /\ n.size = was.size
      BY <1>1 DEF SessionType
    <2> HIDE DEF n
    <2>4. /\ n.life = "open" /\ n.wakeup = session[s].wakeup /\ n.kind = "ssh"
          /\ n.size = session[s].size
      BY <1>2, <2>3 DEF was
    <2> QED
      BY <1>2, <2>1, <2>2, <2>3, <2>4, ReconnectKeeps
  <1>4. CASE /\ Replace(s, None, None)
             /\ session' = [session EXCEPT ![s].exited = TRUE, ![s].conn = None]
             /\ UNCHANGED wake
    <2> DEFINE n == [was EXCEPT !.exited = TRUE, !.conn = None]
    <2>1. session' = [session EXCEPT ![s] = n] /\ wake' \subseteq Sessions
      BY <1>4 DEF SessionInv, TypeOK, SessionType
    <2> HIDE DEF was
    <2>2. n \in SessionType /\ n.conn = None
      BY <1>1 DEF SessionType
    <2> HIDE DEF n
    <2> QED
      BY <1>2, <1>4, <2>1, <2>2, DropKeeps
  <1> QED
    BY <1>3, <1>4 DEF ReconnectSsh

LEMMA BootstrapEndsKeeps ==
  ASSUME SessionInv, BootstrapEnds
  PROVE  Continues
  <1> DEFINE s == manager.s
             was == session[s]
  <1>1. /\ s \in Sessions /\ runtime \in {"running", "stopping"} /\ UNCHANGED runtime
        /\ manager.op = "bootstrap"
        /\ \A x \in Workers : session[s].conn = x => ~ worker[x].calling
    BY DEF SessionInv, LockKept, CalledFromSlot, BootstrapEnds
  <1>2. was \in SessionType
    BY <1>1 DEF SessionInv, TypeOK
  <1>3. CASE \E w \in Workers :
            /\ Fresh(w)
            /\ Replace(s, w, Spawned("mosh", s, session[s].size, session[s].wakeup))
            /\ session' = [session EXCEPT ![s] = [@ EXCEPT
                    !.life = "open", !.kind = "mosh", !.exited = FALSE, !.conn = w]]
            /\ wake' = IF session[s].wakeup THEN wake \cup {s} ELSE wake
    <2>1. PICK w \in Workers :
            /\ Fresh(w)
            /\ Replace(s, w, Spawned("mosh", s, session[s].size, session[s].wakeup))
            /\ session' = [session EXCEPT ![s] = [@ EXCEPT
                    !.life = "open", !.kind = "mosh", !.exited = FALSE, !.conn = w]]
            /\ wake' = IF session[s].wakeup THEN wake \cup {s} ELSE wake
      BY <1>3
    <2> DEFINE n == [was EXCEPT !.life = "open", !.kind = "mosh", !.exited = FALSE, !.conn = w]
    <2>2. session' = [session EXCEPT ![s] = n] /\ "mosh" \in Kinds
      BY <1>1, <2>1 DEF SessionInv, TypeOK, Kinds
    <2> HIDE DEF was
    <2>3. /\ n \in SessionType /\ n.conn = w /\ n.life = "open" /\ n.wakeup = was.wakeup
          /\ n.kind = "mosh" /\ n.size = was.size
      BY <1>2, <2>2 DEF SessionType
    <2> HIDE DEF n
    <2> QED
      BY <1>1, <2>1, <2>2, <2>3, ReconnectKeeps DEF was
  <1>4. CASE /\ Replace(s, None, None)
             /\ session' = [session EXCEPT ![s] = [@ EXCEPT
                    !.life = "open", !.kind = "mosh", !.exited = TRUE, !.conn = None]]
             /\ UNCHANGED wake
    <2> DEFINE n == [was EXCEPT !.life = "open", !.kind = "mosh", !.exited = TRUE, !.conn = None]
    <2>1. session' = [session EXCEPT ![s] = n] /\ wake' \subseteq Sessions /\ "mosh" \in Kinds
      BY <1>1, <1>4 DEF SessionInv, TypeOK, Kinds
    <2> HIDE DEF was
    <2>2. n \in SessionType /\ n.conn = None
      BY <1>2, <2>1 DEF SessionType
    <2> HIDE DEF n
    <2> QED
      BY <1>1, <1>4, <2>1, <2>2, DropKeeps
  <1> QED
    BY <1>3, <1>4 DEF BootstrapEnds

-----------------------------------------------------------------------------
(* The other calls                                                           *)

LEMMA CreateKeeps ==
  ASSUME SessionInv, NEW s \in Sessions,
         CreateLocal(s) \/ CreateSsh(s) \/ CreateTelnet(s) \/ CreateSerial(s)
  PROVE  Continues
  <1>1. UNCHANGED <<manager, wake, runtime>> /\ New(s)
    BY DEF CreateLocal, CreateSsh, CreateTelnet, CreateSerial
  <1>2. PICK kind \in Kinds : Inserted(s, kind) \/ Disconnected(s, kind)
    BY DEF CreateLocal, CreateSsh, CreateTelnet, CreateSerial, Kinds
  <1> QED
    BY <1>1, <1>2, InsertedKeeps, DisconnectedKeeps

LEMMA BootstrapTyped ==
  ASSUME NEW s \in Sessions
  PROVE  LET m == [Idle EXCEPT !.op = "bootstrap", !.s = s] IN
         m \in ManagerType /\ m.op = "bootstrap" /\ m.s = s
  BY IdleTyped DEF ManagerType

LEMMA CreateMoshKeeps ==
  ASSUME SessionInv, NEW s \in Sessions, CreateMosh(s)
  PROVE  SessionInv'
  <1>1. session[s].life = "new" /\ runtime = "running"
    BY DEF CreateMosh, New
  <1>2. \A w \in Workers : session[s].conn # w
    BY <1>1, NewUnconnected
  <1>3. /\ manager' \in ManagerType /\ manager'.op = "bootstrap" /\ manager'.s = s
        /\ UNCHANGED <<session, worker, wake, runtime>>
    BY BootstrapTyped DEF CreateMosh
  <1>4. TypeOK'
    BY <1>3 DEF SessionInv, TypeOK
  <1>5. LockKept'
    BY <1>1, <1>2, <1>3 DEF LockKept
  <1> QED
    BY <1>3, <1>4, <1>5, FrameKeeps DEF SessionInv, CalledFromSlot

LEMMA ReconnectMoshKeeps ==
  ASSUME SessionInv, NEW s \in Sessions, ReconnectMosh(s)
  PROVE  SessionInv'
  <1> DEFINE quiet(r) == [r EXCEPT !.slot = FALSE]
  <1>1. /\ manager' \in ManagerType /\ manager'.op = "bootstrap" /\ manager'.s = s
        /\ UNCHANGED <<session, wake, runtime>> /\ runtime = "running"
        /\ \A w \in Workers : session[s].conn = w => ~ worker[w].calling
    BY BootstrapTyped DEF ReconnectMosh, Open
  <1>2. ASSUME NEW r \in WorkerType
        PROVE  /\ quiet(r) \in WorkerType /\ quiet(r).owner = r.owner
               /\ quiet(r).phase = r.phase /\ ~ quiet(r).slot /\ quiet(r).calling = r.calling
    BY DEF WorkerType
  <1>3. \A w \in Workers :
            /\ worker'[w] \in WorkerType /\ worker[w] \in WorkerType
            /\ worker'[w] = IF session[s].conn = w THEN quiet(worker[w]) ELSE worker[w]
    BY <1>2 DEF ReconnectMosh, SessionInv, TypeOK
  <1>4. worker' \in [Workers -> WorkerType]
    BY <1>3 DEF ReconnectMosh
  <1> HIDE DEF quiet
  <1>5. \A w \in Workers :
            /\ worker'[w].owner = worker[w].owner /\ worker'[w].phase = worker[w].phase
            /\ worker'[w].slot => worker[w].slot
            /\ worker'[w].calling => worker'[w].slot
            /\ session[s].conn = w => ~ worker'[w].slot
    BY <1>1, <1>2, <1>3 DEF SessionInv, CalledFromSlot
  <1>6. TypeOK'
    BY <1>1, <1>4 DEF SessionInv, TypeOK
  <1>7. LockKept'
    BY <1>1, <1>5 DEF LockKept
  <1> QED
    BY <1>1, <1>5, <1>6, <1>7 DEF SessionInv, SlotOwned, CalledFromSlot, OneOwner

LEMMA SetWakeupCallbackKeeps ==
  ASSUME SessionInv, NEW s \in Sessions, SetWakeupCallback(s)
  PROVE  SessionInv'
  <1> DEFINE loud(r) == [r EXCEPT !.slot = TRUE]
             was == session[s]
             n == [was EXCEPT !.wakeup = TRUE]
  <1>1. was.life = "open" /\ runtime = "running" /\ manager.op = "idle"
        /\ UNCHANGED <<manager, runtime>>
    BY DEF SetWakeupCallback, Open
  <1>2. ASSUME NEW r \in WorkerType
        PROVE  /\ loud(r) \in WorkerType /\ loud(r).owner = r.owner
               /\ loud(r).phase = r.phase /\ loud(r).slot
    BY DEF WorkerType
  <1>3. \A w \in Workers :
            /\ worker'[w] \in WorkerType /\ worker[w] \in WorkerType
            /\ worker'[w] = IF session[s].conn = w THEN loud(worker[w]) ELSE worker[w]
    BY <1>2 DEF SetWakeupCallback, SessionInv, TypeOK
  <1>4. worker' \in [Workers -> WorkerType]
    BY <1>3 DEF SetWakeupCallback
  <1>5. was \in SessionType /\ session' = [session EXCEPT ![s] = n]
    BY DEF SetWakeupCallback, SessionInv, TypeOK
  <1> HIDE DEF loud, was
  <1>6. n \in SessionType /\ n.life = was.life /\ n.conn = was.conn /\ n.wakeup
    BY <1>5 DEF SessionType
  <1> HIDE DEF n
  <1>7. /\ session' \in [Sessions -> SessionType] /\ session'[s] = n
        /\ \A t \in Sessions : t # s => session'[t] = session[t]
    BY <1>5, <1>6 DEF SessionInv, TypeOK
  <1>8. TypeOK'
    BY <1>1, <1>4, <1>7 DEF SessionInv, TypeOK, SetWakeupCallback
  <1>9. \A t \in Sessions : /\ session'[t].life = session[t].life
                            /\ session'[t].conn = session[t].conn
                            /\ session[t].wakeup => session'[t].wakeup
    BY <1>6, <1>7 DEF was
  <1>10. \A w \in Workers :
            /\ worker'[w].owner = worker[w].owner /\ worker'[w].phase = worker[w].phase
            /\ session[s].conn # w => worker'[w] = worker[w]
            /\ session[s].conn = w => worker'[w].slot /\ worker'[w].owner = s
    BY <1>2, <1>3 DEF SessionInv, OneOwner
  <1>11. SlotOwned'
    <2> SUFFICES ASSUME NEW w \in Workers, worker'[w].slot
                 PROVE  LET t == worker'[w].owner IN
                        /\ t \in Sessions /\ session'[t].life = "open" /\ session'[t].wakeup
                        /\ session'[t].conn = w /\ runtime' \in {"running", "stopping"}
      BY DEF SlotOwned
    <2>1. CASE session[s].conn = w
      BY <2>1, <1>1, <1>6, <1>7, <1>10 DEF was
    <2>2. CASE session[s].conn # w
      BY <2>2, <1>1, <1>9, <1>10 DEF SessionInv, SlotOwned
    <2> QED
      BY <2>1, <2>2
  <1>12. CalledFromSlot' /\ OneOwner' /\ LockKept'
    BY <1>1, <1>9, <1>10 DEF SessionInv, CalledFromSlot, OneOwner, LockKept
  <1> QED
    BY <1>8, <1>11, <1>12 DEF SessionInv

LEMMA ResizeKeeps ==
  ASSUME SessionInv, NEW s \in Sessions, NEW size \in Sizes, Resize(s, size)
  PROVE  SessionInv'
  <1> DEFINE was == session[s]
             n == [was EXCEPT !.size = size]
  <1>1. manager.op = "idle" /\ UNCHANGED <<manager, wake, runtime>>
    BY DEF Resize, Open
  <1>2. \A w \in Workers :
            /\ worker[w] \in WorkerType
            /\ worker'[w] = worker[w] \/ worker'[w] = Queue(worker[w], size)
    BY DEF Resize, SessionInv, TypeOK
  <1>3. \A w \in Workers :
            /\ worker'[w] \in WorkerType /\ worker'[w].owner = worker[w].owner
            /\ worker'[w].phase = worker[w].phase /\ worker'[w].slot = worker[w].slot
            /\ worker'[w].calling = worker[w].calling
    BY <1>2, QueueTyped DEF Commands
  <1>4. worker' \in [Workers -> WorkerType]
    BY <1>3 DEF Resize
  <1>5. was \in SessionType /\ session' = [session EXCEPT ![s] = n]
    BY DEF Resize, SessionInv, TypeOK
  <1> HIDE DEF was
  <1>6. n \in SessionType /\ n.life = was.life /\ n.conn = was.conn /\ n.wakeup = was.wakeup
    BY <1>5 DEF SessionType
  <1> HIDE DEF n
  <1>7. /\ session' \in [Sessions -> SessionType]
        /\ \A t \in Sessions : /\ session'[t].life = session[t].life
                               /\ session'[t].conn = session[t].conn
                               /\ session'[t].wakeup = session[t].wakeup
    BY <1>5, <1>6 DEF SessionInv, TypeOK, was
  <1>8. TypeOK'
    BY <1>1, <1>4, <1>7 DEF SessionInv, TypeOK
  <1> QED
    BY <1>1, <1>3, <1>7, <1>8
       DEF SessionInv, SlotOwned, CalledFromSlot, OneOwner, LockKept

LEMMA SendInputKeeps ==
  ASSUME SessionInv, NEW s \in Sessions, SendInput(s)
  PROVE  SessionInv'
  <1> DEFINE w == session[s].conn
             r == Queue(worker[w], Input)
  <1>1. w \in Workers /\ worker[w] \in WorkerType
    BY DEF SendInput, SessionInv, TypeOK, SessionType
  <1>2. r \in WorkerType /\ r.owner = worker[w].owner /\ r.slot = worker[w].slot
        /\ r.phase = worker[w].phase /\ (r.calling => r.slot)
    BY <1>1, QueueTyped DEF Commands, SessionInv, CalledFromSlot
  <1>3. /\ worker' = [worker EXCEPT ![w] = r] /\ UNCHANGED <<session, manager, wake, runtime>>
        /\ manager' \in ManagerType /\ wake' \subseteq Sessions
    BY <1>1 DEF SendInput, SessionInv, TypeOK
  <1> HIDE DEF r, w
  <1> QED
    BY <1>1, <1>2, <1>3, WorkerKeeps

LEMMA PollBeginKeeps ==
  ASSUME SessionInv, NEW s \in Sessions, PollBegin(s)
  PROVE  SessionInv'
  <1>1. UNCHANGED <<session, worker, runtime>> /\ wake' \subseteq Sessions
    BY DEF PollBegin, SessionInv, TypeOK
  <1>2. session[s].conn \in Workers \cup {None} /\ session[s].kind \in Kinds
    BY DEF SessionInv, TypeOK, SessionType
  <1>3. manager' \in ManagerType /\ LockKept'
    <2>1. CASE session[s].conn = None
      <3>1. manager' = Idle
        BY <2>1 DEF PollBegin
      <3> QED
        BY <3>1, IdleTyped DEF LockKept
    <2>2. CASE session[s].conn # None
      <3> DEFINE w == session[s].conn
                 order == DrainOrder(session[s].kind)
                 m == [Idle EXCEPT !.op = "poll", !.s = s, !.w = w, !.todo = order]
      <3>1. order \in Seq(Stages)
        BY <1>2, DrainTyped
      <3>2. manager' = m /\ w \in Workers
        BY <1>2, <2>2 DEF PollBegin
      <3> HIDE DEF order
      <3>3. m \in ManagerType /\ m.op = "poll" /\ m.s = s /\ m.w = w
        BY <3>1, <3>2, IdleTyped DEF ManagerType
      <3> HIDE DEF m
      <3> QED
        BY <1>1, <3>2, <3>3 DEF LockKept
    <2> QED
      BY <2>1, <2>2
  <1>4. TypeOK'
    BY <1>1, <1>3 DEF SessionInv, TypeOK
  <1> QED
    BY <1>1, <1>3, <1>4, FrameKeeps DEF SessionInv, CalledFromSlot

-----------------------------------------------------------------------------
(* The manager and the shutdown                                              *)

LEMMA JoinWorkerKeeps ==
  ASSUME SessionInv, JoinWorker
  PROVE  SessionInv'
  <1> DEFINE w == manager.w
             r == FreeWorker(StartKind, StartSize)
  <1>1. /\ w \in Workers /\ ~ worker[w].slot
        /\ \A s \in Sessions : session[s].conn # w
    BY DEF SessionInv, LockKept, JoinWorker
  <1>2. r \in WorkerType /\ ~ r.slot /\ ~ r.calling
    BY FreeTyped, KindsAssumption, SizesAssumption
  <1>3. /\ worker' = [worker EXCEPT ![w] = r] /\ manager' = Idle
        /\ UNCHANGED <<session, wake, runtime>>
    BY DEF JoinWorker
  <1> HIDE DEF r, w
  <1>4. /\ worker' \in [Workers -> WorkerType] /\ worker'[w] = r
        /\ \A x \in Workers : x # w => worker'[x] = worker[x]
    BY <1>1, <1>2, <1>3 DEF SessionInv, TypeOK
  <1>5. TypeOK'
    BY <1>3, <1>4, IdleTyped DEF SessionInv, TypeOK
  <1>6. SlotOwned' /\ CalledFromSlot'
    BY <1>2, <1>3, <1>4 DEF SessionInv, SlotOwned, CalledFromSlot
  <1>7. OneOwner' /\ LockKept'
    BY <1>1, <1>3, <1>4, IdleTyped DEF SessionInv, OneOwner, LockKept
  <1> QED
    BY <1>5, <1>6, <1>7 DEF SessionInv

LEMMA SilenceSessionsKeeps ==
  ASSUME SessionInv, SilenceSessions
  PROVE  SessionInv'
  <1> DEFINE quiet(r) == [r EXCEPT !.slot = FALSE]
             mute(n) == [n EXCEPT !.wakeup = FALSE]
  <1>1. ASSUME NEW r \in WorkerType
        PROVE  /\ quiet(r) \in WorkerType /\ quiet(r).owner = r.owner
               /\ quiet(r).phase = r.phase /\ ~ quiet(r).slot /\ quiet(r).calling = r.calling
    BY DEF WorkerType
  <1>2. ASSUME NEW n \in SessionType
        PROVE  /\ mute(n) \in SessionType /\ mute(n).life = n.life /\ mute(n).conn = n.conn
    BY DEF SessionType
  <1>3. /\ runtime' = "clearing" /\ manager.op = "idle" /\ UNCHANGED <<manager, wake>>
        /\ \A w \in Workers : ~ worker[w].calling
        /\ worker' = [w \in Workers |-> quiet(worker[w])]
        /\ session' = [s \in Sessions |-> mute(session[s])]
    BY DEF SilenceSessions
  <1> HIDE DEF quiet, mute
  <1>4. TypeOK'
    BY <1>1, <1>2, <1>3 DEF SessionInv, TypeOK
  <1>5. \A w \in Workers : /\ worker'[w].owner = worker[w].owner /\ ~ worker'[w].slot
                           /\ worker'[w].phase = worker[w].phase /\ ~ worker'[w].calling
    BY <1>1, <1>3 DEF SessionInv, TypeOK
  <1>6. \A s \in Sessions : /\ session'[s].life = session[s].life
                            /\ session'[s].conn = session[s].conn
    BY <1>2, <1>3 DEF SessionInv, TypeOK
  <1>7. SlotOwned' /\ CalledFromSlot' /\ OneOwner' /\ LockKept'
    BY <1>3, <1>5, <1>6 DEF SessionInv, SlotOwned, CalledFromSlot, OneOwner, LockKept
  <1> QED
    BY <1>4, <1>7 DEF SessionInv

LEMMA ShutdownKeeps ==
  ASSUME SessionInv, BeginShutdown \/ EndShutdown
  PROVE  SessionInv'
  <1>1. CASE BeginShutdown
    BY <1>1 DEF BeginShutdown, SessionInv, TypeOK, SlotOwned, CalledFromSlot, OneOwner, LockKept
  <1>2. CASE EndShutdown
    BY <1>2 DEF EndShutdown, SessionInv, TypeOK, SlotOwned, CalledFromSlot, OneOwner, LockKept
  <1> QED
    BY <1>1, <1>2

-----------------------------------------------------------------------------
(* Sizes and wake-ups through calls and polls                                *)

\* What Queue leaves alone.
LEMMA QueueQuiet ==
  ASSUME NEW r \in WorkerType, NEW command \in Commands
  PROVE  LET q == Queue(r, command) IN
         /\ q.kind = r.kind /\ q.news = r.news /\ q.buffered = r.buffered /\ q.owes = r.owes
         /\ q.phase = r.phase /\ q.slot = r.slot
  <1>1. CASE r.kind = "mosh"
    BY <1>1 DEF Queue, WorkerType
  <1>2. CASE r.kind # "mosh" /\ r.phase \in {"connecting", "up", "awaiting"}
    BY <1>2 DEF Queue, WorkerType
  <1>3. CASE r.kind # "mosh" /\ r.phase \notin {"connecting", "up", "awaiting"}
    BY <1>3 DEF Queue
  <1> QED
    BY <1>1, <1>2, <1>3

\* The worker of a session has nothing new to tell and can tell what it had, or the
\* interface is woken.
Undisturbed(s, x) ==
    /\ session[s].conn = x
    /\ Fit(session[s], worker[x]) => Fit(session'[s], worker'[x])
    /\ Watched(s)' =>
        \/ worker'[x].slot /\ s \in wake'
        \/ /\ Watched(s) /\ worker'[x].slot = worker[x].slot
           /\ s \in wake => s \in wake'
           /\ worker[x].owes => worker'[x].owes
           /\ worker'[x].buffered = worker[x].buffered /\ worker'[x].news = worker[x].news
           /\ worker'[x].phase = worker[x].phase

LEMMA CallFrame ==
  ASSUME SessionInv, WakeInv, manager.op # "poll", manager'.op # "poll",
         \A s \in Sessions, x \in Workers : session'[s].conn = x => Undisturbed(s, x)
  PROVE  WakeInv'
  <1>1. ASSUME NEW s \in Sessions, NEW x \in Workers, session'[s].conn = x
        PROVE  Fit(session'[s], worker'[x]) /\ (Watched(s)' => Woke(s, x)')
    <2>1. Undisturbed(s, x)
      BY <1>1
    <2>2. Fit(session[s], worker[x]) /\ (Watched(s) => Woke(s, x))
      BY <2>1 DEF WakeInv, ConnOK, Undisturbed
    <2> QED
      BY <2>1, <2>2 DEF Undisturbed, Woke, Told, Coming, Polled, Exited
  <1>2. PollOK'
    BY DEF PollOK
  <1> QED
    BY <1>1, <1>2 DEF WakeInv, ConnOK

LEMMA CreateMoshWakes ==
  ASSUME SessionInv, WakeInv, NEW s \in Sessions, CreateMosh(s)
  PROVE  WakeInv'
  <1>1. /\ UNCHANGED <<session, worker, wake, runtime>> /\ manager.op = "idle"
        /\ manager'.op = "bootstrap"
    BY BootstrapTyped DEF CreateMosh, New
  <1>2. \A t \in Sessions, x \in Workers : session'[t].conn = x => Undisturbed(t, x)
    BY <1>1 DEF Undisturbed, Watched
  <1> QED
    BY <1>1, <1>2, CallFrame

LEMMA ReconnectMoshWakes ==
  ASSUME SessionInv, WakeInv, NEW s \in Sessions, ReconnectMosh(s)
  PROVE  WakeInv'
  <1>1. /\ UNCHANGED <<session, wake, runtime>> /\ manager.op = "idle"
        /\ manager'.op = "bootstrap" /\ manager'.s = s
    BY BootstrapTyped DEF ReconnectMosh, Open
  <1>2. ASSUME NEW t \in Sessions, NEW x \in Workers, session'[t].conn = x
        PROVE  Undisturbed(t, x)
    <2> DEFINE r == worker[x]
               q == [r EXCEPT !.slot = FALSE]
    <2>1. r \in WorkerType /\ session[t].conn = x
      BY <1>1, <1>2 DEF SessionInv, TypeOK
    <2>2. CASE t = s
      <3>1. worker'[x] = q
        BY <1>1, <1>2, <2>2 DEF ReconnectMosh
      <3> HIDE DEF r
      <3>2. /\ q.kind = r.kind /\ q.size = r.size /\ q.commands = r.commands
            /\ q.swallowed = r.swallowed /\ q.phase = r.phase /\ q.news = r.news
        BY <2>1 DEF WorkerType
      <3> HIDE DEF q
      <3>3. Fit(session[s], r) => Fit(session[s], q)
        BY <3>2, SizeStays DEF Fit
      <3> QED
        BY <1>1, <2>1, <2>2, <3>1, <3>3 DEF Undisturbed, Watched, r
    <2>3. CASE t # s
      <3>1. session[s].conn # x
        BY <2>1, <2>3 DEF SessionInv, OneOwner
      <3>2. worker'[x] = worker[x]
        BY <3>1 DEF ReconnectMosh
      <3> QED
        BY <1>1, <2>1, <3>2 DEF Undisturbed, Watched
    <2> QED
      BY <2>2, <2>3
  <1> QED
    BY <1>1, <1>2, CallFrame

LEMMA SetWakeupCallbackWakes ==
  ASSUME SessionInv, WakeInv, NEW s \in Sessions, SetWakeupCallback(s)
  PROVE  WakeInv'
  <1>1. /\ UNCHANGED <<manager, runtime>> /\ manager.op = "idle"
        /\ session' = [session EXCEPT ![s].wakeup = TRUE]
        /\ wake \subseteq wake'
    BY DEF SetWakeupCallback, Open
  <1>2. ASSUME NEW t \in Sessions, NEW x \in Workers, session'[t].conn = x
        PROVE  Undisturbed(t, x)
    <2> DEFINE r == worker[x]
               q == [r EXCEPT !.slot = TRUE]
    <2>1. /\ r \in WorkerType /\ session[t].conn = x /\ session'[t].kind = session[t].kind
          /\ session'[t].size = session[t].size
      BY <1>1, <1>2 DEF SessionInv, TypeOK, SessionType
    <2>2. CASE t = s
      <3>1. worker'[x] = q /\ s \in wake'
        BY <2>1, <2>2, NoneAssumption DEF SetWakeupCallback
      <3> HIDE DEF r
      <3>2. /\ q.kind = r.kind /\ q.size = r.size /\ q.commands = r.commands
            /\ q.swallowed = r.swallowed /\ q.phase = r.phase /\ q.news = r.news /\ q.slot
        BY <2>1 DEF WorkerType
      <3> HIDE DEF q
      <3>3. Fit(session[s], r) => Fit(session'[s], q)
        BY <2>1, <2>2, <3>2, SizeStays DEF Fit
      <3> QED
        BY <1>1, <2>1, <2>2, <3>1, <3>2, <3>3 DEF Undisturbed, r
    <2>3. CASE t # s
      <3>1. session[s].conn # x /\ session'[t] = session[t]
        BY <1>1, <2>1, <2>3 DEF SessionInv, OneOwner, TypeOK
      <3>2. worker'[x] = worker[x]
        BY <3>1 DEF SetWakeupCallback
      <3> QED
        BY <1>1, <2>1, <3>1, <3>2 DEF Undisturbed, Watched
    <2> QED
      BY <2>2, <2>3
  <1> QED
    BY <1>1, <1>2, CallFrame

LEMMA ResizeWakes ==
  ASSUME SessionInv, WakeInv, NEW s \in Sessions, NEW size \in Sizes, Resize(s, size)
  PROVE  WakeInv'
  <1>1. /\ UNCHANGED <<manager, wake, runtime>> /\ manager.op = "idle"
        /\ session' = [session EXCEPT ![s].size = size]
    BY DEF Resize, Open
  <1>2. ASSUME NEW t \in Sessions, NEW x \in Workers, session'[t].conn = x
        PROVE  Undisturbed(t, x)
    <2>1. /\ worker[x] \in WorkerType /\ session[t].conn = x
          /\ session'[t].kind = session[t].kind /\ session'[t].wakeup = session[t].wakeup
      BY <1>1, <1>2 DEF SessionInv, TypeOK, SessionType
    <2>2. Watched(t)' = Watched(t)
      BY <1>1, <2>1 DEF Watched
    <2>3. CASE t = s
      <3>1. session'[s].size = size
        BY <1>1 DEF SessionInv, TypeOK, SessionType
      <3>2. CASE session[s].kind = "serial"
        <4>1. worker'[x] = worker[x]
          BY <3>2 DEF Resize
        <4>2. Fit(session[s], worker[x]) => Fit(session'[s], worker'[x])
          BY <2>1, <2>3, <3>2, <4>1 DEF Fit, SizeComes
        <4> QED
          BY <1>1, <2>1, <2>2, <2>3, <4>1, <4>2 DEF Undisturbed
      <3>3. CASE session[s].kind # "serial"
        <4>1. worker'[x] = Queue(worker[x], size)
          BY <2>1, <2>3, <3>3 DEF Resize
        <4>2. SizeComes(worker'[x], size)
          BY <2>1, <4>1, QueueSize
        <4>3. LET q == worker'[x] r == worker[x] IN
              /\ q.kind = r.kind /\ q.news = r.news /\ q.buffered = r.buffered
              /\ q.owes = r.owes /\ q.phase = r.phase /\ q.slot = r.slot
          BY <2>1, <4>1, QueueQuiet DEF Commands
        <4> QED
          BY <1>1, <2>1, <2>2, <2>3, <3>1, <4>2, <4>3 DEF Undisturbed, Fit
      <3> QED
        BY <3>2, <3>3
    <2>4. CASE t # s
      <3>1. session[s].conn # x /\ session'[t] = session[t]
        BY <1>1, <2>1, <2>4 DEF SessionInv, OneOwner, TypeOK
      <3>2. worker'[x] = worker[x]
        BY <3>1 DEF Resize
      <3> QED
        BY <1>1, <2>1, <2>2, <3>1, <3>2 DEF Undisturbed
    <2> QED
      BY <2>3, <2>4
  <1> QED
    BY <1>1, <1>2, CallFrame

LEMMA SendInputWakes ==
  ASSUME SessionInv, WakeInv, NEW s \in Sessions, SendInput(s)
  PROVE  WakeInv'
  <1> DEFINE w == session[s].conn
  <1>1. /\ UNCHANGED <<session, manager, wake, runtime>> /\ manager.op = "idle"
        /\ w \in Workers /\ worker' = [worker EXCEPT ![w] = Queue(worker[w], Input)]
    BY DEF SendInput, Open, SessionInv, TypeOK, SessionType
  <1> HIDE DEF w
  <1>2. ASSUME NEW t \in Sessions, NEW x \in Workers, session'[t].conn = x
        PROVE  Undisturbed(t, x)
    <2>1. /\ worker[x] \in WorkerType /\ session[t].conn = x /\ session[t].size \in Sizes
          /\ Watched(t)' = Watched(t) /\ Input \in Commands
      BY <1>1, <1>2 DEF SessionInv, TypeOK, SessionType, Watched, Commands
    <2>2. worker'[x] = Queue(worker[x], Input) \/ worker'[x] = worker[x]
      BY <1>1 DEF SessionInv, TypeOK
    <2>3. /\ LET q == worker'[x] r == worker[x] IN
             /\ q.kind = r.kind /\ q.news = r.news /\ q.buffered = r.buffered
             /\ q.owes = r.owes /\ q.phase = r.phase /\ q.slot = r.slot
          /\ SizeComes(worker[x], session[t].size) => SizeComes(worker'[x], session[t].size)
      BY <2>1, <2>2, QueueQuiet, QueueSize
    <2> QED
      BY <1>1, <2>1, <2>3 DEF Undisturbed, Fit
  <1> QED
    BY <1>1, <1>2, CallFrame

LEMMA JoinWorkerWakes ==
  ASSUME SessionInv, WakeInv, JoinWorker
  PROVE  WakeInv'
  <1>1. /\ UNCHANGED <<session, wake, runtime>> /\ manager.op = "join" /\ manager'.op = "idle"
        /\ \A s \in Sessions : session[s].conn # manager.w
        /\ \A x \in Workers : x # manager.w => worker'[x] = worker[x]
    BY IdleTyped DEF SessionInv, TypeOK, LockKept, JoinWorker
  <1>2. \A s \in Sessions, x \in Workers : session'[s].conn = x => Undisturbed(s, x)
    BY <1>1 DEF Undisturbed, Watched
  <1> QED
    BY <1>1, <1>2, CallFrame

\* Once the shutdown has begun, nobody is woken any more.
LEMMA ShutdownWakes ==
  ASSUME SessionInv, WakeInv, BeginShutdown \/ SilenceSessions \/ EndShutdown
  PROVE  WakeInv'
  <1>1. \A s \in Sessions : ~ Watched(s)'
    BY DEF BeginShutdown, SilenceSessions, EndShutdown, Watched
  <1>2. ASSUME NEW s \in Sessions, NEW x \in Workers, session'[s].conn = x
        PROVE  Fit(session'[s], worker'[x])
    <2>1. CASE BeginShutdown \/ EndShutdown
      BY <1>2, <2>1 DEF BeginShutdown, EndShutdown, WakeInv, ConnOK
    <2>2. CASE SilenceSessions
      <3> DEFINE r == worker[x]
                 q == [r EXCEPT !.slot = FALSE]
      <3>1. /\ r \in WorkerType /\ worker'[x] = q /\ session[s].conn = x
            /\ session'[s].kind = session[s].kind /\ session'[s].size = session[s].size
        BY <1>2, <2>2 DEF SilenceSessions, SessionInv, TypeOK, SessionType
      <3>2. Fit(session[s], r)
        BY <3>1 DEF WakeInv, ConnOK
      <3> HIDE DEF r
      <3>3. /\ q.kind = r.kind /\ q.size = r.size /\ q.commands = r.commands
            /\ q.swallowed = r.swallowed /\ q.phase = r.phase /\ q.news = r.news
        BY <3>1 DEF WorkerType
      <3> HIDE DEF q
      <3> QED
        BY <3>1, <3>2, <3>3, SizeStays DEF Fit
    <2> QED
      BY <2>1, <2>2
  <1>3. PollOK'
    BY DEF BeginShutdown, SilenceSessions, EndShutdown, WakeInv, PollOK
  <1> QED
    BY <1>1, <1>2, <1>3 DEF WakeInv, ConnOK

\* What is left of a drain.
LEMMA HasTail ==
  ASSUME NEW todo \in Seq(Stages), todo # <<>>, NEW X, Has(todo, X)
  PROVE  Head(todo) \in X \/ Has(Tail(todo), X)
  <1>1. PICK i \in 1 .. Len(todo) : todo[i] \in X
    BY DEF Has
  <1>2. CASE i = 1
    BY <1>1, <1>2
  <1>3. CASE i > 1
    <2>1. /\ Len(Tail(todo)) = Len(todo) - 1 /\ Len(todo) \in Nat
          /\ \A j \in 1 .. Len(Tail(todo)) : Tail(todo)[j] = todo[j + 1]
      OBVIOUS
    <2>2. i - 1 \in 1 .. Len(Tail(todo)) /\ Tail(todo)[i - 1] \in X
      BY <1>1, <1>3, <2>1
    <2> QED
      BY <2>2 DEF Has
  <1> QED
    BY <1>2, <1>3

LEMMA HasNone == \A X : ~ Has(<<>>, X)
  BY DEF Has

\* Every poll comes to the output, the flag and, but for a local shell, to the events.
LEMMA HasDrain ==
  ASSUME NEW kind \in Kinds
  PROVE  /\ Has(DrainOrder(kind), {"output", "library"})
         /\ Has(DrainOrder(kind), {"exit", "library"})
         /\ kind # "local" => Has(DrainOrder(kind), {"events", "library"})
  <1>1. CASE kind = "ssh"
    BY <1>1 DEF DrainOrder, SshDrain, Has
  <1>2. CASE kind = "telnet"
    BY <1>2 DEF DrainOrder, TelnetDrain, Has
  <1>3. CASE kind = "serial"
    BY <1>3 DEF DrainOrder, SerialDrain, Has
  <1>4. CASE kind = "local"
    BY <1>4 DEF DrainOrder, LocalDrain, Has
  <1>5. CASE kind = "mosh"
    BY <1>5 DEF DrainOrder, MoshDrain, Has
  <1> QED
    BY <1>1, <1>2, <1>3, <1>4, <1>5 DEF Kinds

LEMMA ProceedGoesOn ==
  ASSUME NEW m \in ManagerType, m.todo # <<>>
  PROVE  LET p == Proceed(m) IN
         /\ p.op = m.op /\ p.s = m.s /\ p.w = m.w /\ p.taken = m.taken /\ p.exit = m.exit
         /\ p.more = m.more
         /\ p.todo = IF Tail(m.todo) = <<>> /\ m.more /\ m.taken < MaxPollChunks
                     THEN DrainOrder(worker[m.w].kind) ELSE Tail(m.todo)
         /\ \A X : Has(m.todo, X) => Head(m.todo) \in X \/ Has(p.todo, X)
  <1> DEFINE next == IF Tail(m.todo) = <<>> /\ m.more /\ m.taken < MaxPollChunks
                     THEN DrainOrder(worker[m.w].kind) ELSE Tail(m.todo)
             p == [m EXCEPT !.todo = next]
  <1>1. Proceed(m) = p
    BY DEF Proceed
  <1>2. \A X : Has(m.todo, X) => Head(m.todo) \in X \/ Has(next, X)
    BY HasTail, HasNone DEF ManagerType
  <1> HIDE DEF next
  <1>3. /\ p.op = m.op /\ p.s = m.s /\ p.w = m.w /\ p.taken = m.taken /\ p.exit = m.exit
        /\ p.more = m.more /\ p.todo = next
    BY DEF ManagerType
  <1> QED
    BY <1>1, <1>2, <1>3 DEF next

\* The rests of a Telnet and of a Mosh drain.
LEMMA Rests ==
  /\ DrainOrder("telnet") = TelnetDrain /\ DrainOrder("mosh") = MoshDrain
  /\ Head(TelnetDrain) = "exit" /\ Tail(TelnetDrain) = <<"output", "events">>
  /\ Head(<<"output", "events">>) = "output" /\ Tail(<<"output", "events">>) = <<"events">>
  /\ Head(<<"events">>) = "events" /\ Tail(<<"events">>) = <<>>
  /\ Head(MoshDrain) = "library" /\ Tail(MoshDrain) = <<>>
  /\ <<"output", "events">> # <<>> /\ <<"events">> # <<>> /\ TelnetDrain # <<>> /\ MoshDrain # <<>>
  /\ Has(TelnetDrain, {"output", "library"}) /\ Has(TelnetDrain, {"events", "library"})
  /\ Has(<<"output", "events">>, {"output", "library"})
  /\ Has(<<"output", "events">>, {"events", "library"})
  /\ ~ Has(<<"events">>, {"output", "library"}) /\ Has(<<"events">>, {"events", "library"})
  /\ Has(MoshDrain, {"output", "library"}) /\ Has(MoshDrain, {"events", "library"})
  <1>1. DrainOrder("telnet") = TelnetDrain /\ DrainOrder("mosh") = MoshDrain
    BY DEF DrainOrder
  <1>2. /\ Head(TelnetDrain) = "exit" /\ Tail(TelnetDrain) = <<"output", "events">>
        /\ Head(MoshDrain) = "library" /\ Tail(MoshDrain) = <<>>
        /\ TelnetDrain # <<>> /\ MoshDrain # <<>>
    BY DEF TelnetDrain, MoshDrain
  <1>3. /\ Head(<<"output", "events">>) = "output" /\ Tail(<<"output", "events">>) = <<"events">>
        /\ Head(<<"events">>) = "events" /\ Tail(<<"events">>) = <<>>
        /\ <<"output", "events">> # <<>> /\ <<"events">> # <<>>
    OBVIOUS
  <1>4. /\ Has(<<"output", "events">>, {"output", "library"})
        /\ Has(<<"output", "events">>, {"events", "library"})
        /\ ~ Has(<<"events">>, {"output", "library"}) /\ Has(<<"events">>, {"events", "library"})
    BY DEF Has
  <1>5. /\ Has(TelnetDrain, {"output", "library"}) /\ Has(TelnetDrain, {"events", "library"})
        /\ Has(MoshDrain, {"output", "library"}) /\ Has(MoshDrain, {"events", "library"})
    BY <1>1, HasDrain DEF Kinds
  <1> QED
    BY <1>1, <1>2, <1>3, <1>4, <1>5

LEMMA PollBeginWakes ==
  ASSUME SessionInv, WakeInv, NEW s \in Sessions, PollBegin(s)
  PROVE  WakeInv'
  <1> DEFINE order == DrainOrder(session[s].kind)
             m == [Idle EXCEPT !.op = "poll", !.s = s, !.w = session[s].conn, !.todo = order]
  <1>1. /\ UNCHANGED <<session, worker, runtime>> /\ manager.op = "idle" /\ wake' = wake \ {s}
        /\ manager' = IF session[s].conn = None THEN Idle ELSE m
    BY DEF PollBegin, Open
  <1>2. order \in Seq(Stages) /\ session[s].kind \in Kinds
    BY DrainTyped DEF SessionInv, TypeOK, SessionType
  <1> HIDE DEF order
  <1>3. m.op = "poll" /\ m.s = s /\ m.w = session[s].conn /\ m.todo = order
        /\ ~ m.more /\ ~ m.exit /\ m.taken = 0
    BY IdleTyped DEF Idle
  <1> HIDE DEF m
  <1>4. ASSUME NEW t \in Sessions, NEW x \in Workers, session'[t].conn = x
        PROVE  Fit(session'[t], worker'[x]) /\ (Watched(t)' => Woke(t, x)')
    <2>1. Fit(session[t], worker[x]) /\ (Watched(t) => Woke(t, x)) /\ session[t].conn = x
      BY <1>1, <1>4 DEF WakeInv, ConnOK
    <2>2. Watched(t)' => Watched(t)
      BY <1>1 DEF Watched
    <2>3. CASE t = s
      <3>1. manager' = m
        BY <1>1, <2>1, <2>3, NoneAssumption
      <3>2. /\ Coming(s, {"output", "library"})' /\ Coming(s, {"exit", "library"})'
            /\ session[s].kind # "local" => Coming(s, {"events", "library"})'
        BY <1>2, <1>3, <3>1, HasDrain DEF Coming, Polled, order
      <3>3. session[s].kind = "local" => ~ worker[x].news
        BY <2>1, <2>3 DEF Fit
      <3>4. Woke(s, x) => Woke(s, x)'
        BY <1>1, <1>3, <3>1, <3>2, <3>3 DEF Woke, Exited
      <3> QED
        BY <1>1, <2>1, <2>2, <2>3, <3>4
    <2>4. CASE t # s
      <3>1. ~ Polled(t)' /\ ~ Polled(t)
        BY <1>1, <1>3, <2>4, IdleTyped DEF Polled
      <3>2. Woke(t, x) => Woke(t, x)'
        BY <1>1, <2>4, <3>1 DEF Woke, Told, Coming, Exited
      <3> QED
        BY <1>1, <2>1, <2>2, <3>2
    <2> QED
      BY <2>3, <2>4
  <1>5. PollOK'
    <2>1. CASE session[s].conn = None
      BY <1>1, <2>1, IdleTyped DEF PollOK
    <2>2. CASE session[s].conn # None
      <3>1. session[s].conn \in Workers /\ MaxPollChunks > 0 /\ MaxPollChunks \in Nat
        BY <2>2, BoundsAssumption DEF SessionInv, TypeOK, SessionType
      <3>2. worker[session[s].conn].kind = session[s].kind
        BY <3>1 DEF WakeInv, ConnOK, Fit
      <3>3. manager' = m /\ worker' = worker
        BY <1>1, <2>2
      <3>4. session[s].kind = "telnet" => order = TelnetDrain
        BY Rests DEF order
      <3>5. session[s].kind = "mosh" => order = MoshDrain
        BY Rests DEF order
      <3> QED
        BY <1>3, <3>1, <3>2, <3>3, <3>4, <3>5, Rests DEF PollOK, TelnetRests, MoshRests
    <2> QED
      BY <2>1, <2>2
  <1> QED
    BY <1>4, <1>5 DEF WakeInv, ConnOK

\* What one stage of a drain does to the poll (m) and to the worker's record (q).
Stage(m, q) ==
    LET r == worker[manager.w]
        stage == Head(manager.todo)
        left == r.buffered
    IN
    /\ manager.op = "poll" /\ manager.todo # <<>> /\ stage \in Stages
    /\ m \in ManagerType /\ m.op = "poll" /\ m.s = manager.s /\ m.w = manager.w
    /\ m.todo = manager.todo
    /\ q.kind = r.kind /\ q.size = r.size /\ q.commands = r.commands /\ q.owes = r.owes
    /\ q.swallowed = r.swallowed /\ q.phase = r.phase /\ q.slot = r.slot
    /\ IF stage \in {"output", "library"}
       THEN /\ q.buffered = (IF left > 0 THEN left - 1 ELSE left)
            /\ m.taken = manager.taken + 1 /\ m.more = (left > 1)
            /\ wake' = IF left > 1 THEN Woken(manager.s, manager.w) ELSE wake
       ELSE /\ q.buffered = left /\ m.taken = manager.taken /\ m.more = manager.more
            /\ wake' = wake
    /\ q.news = (r.news /\ stage \notin {"events", "library"})
    /\ m.exit = IF stage \in {"exit", "library"} THEN r.phase = "exited" ELSE manager.exit
    /\ worker' = [worker EXCEPT ![manager.w] = q] /\ manager' = Proceed(m)
    /\ UNCHANGED <<session, runtime>>

LEMMA StageTells ==
  ASSUME SessionInv, WakeInv, NEW m, NEW q, Stage(m, q), q \in WorkerType
  PROVE  \A s \in Sessions : ConnOK(s)'
  <1> DEFINE w == manager.w
             r == worker[w]
             stage == Head(manager.todo)
             left == r.buffered
  <1>1. /\ w \in Workers /\ manager.s \in Sessions /\ session[manager.s].conn = w
        /\ r \in WorkerType /\ left \in Nat /\ m \in ManagerType /\ m.todo # <<>>
        /\ m.todo = manager.todo
    BY BoundsAssumption DEF Stage, SessionInv, TypeOK, LockKept, WorkerType
  <1>2. /\ worker'[w] = q /\ \A x \in Workers : x # w => worker'[x] = worker[x]
        /\ manager' = Proceed(m) /\ UNCHANGED <<session, runtime>>
    BY <1>1 DEF Stage, SessionInv, TypeOK
  <1>3. /\ manager'.op = "poll" /\ manager'.s = manager.s /\ manager'.w = w
        /\ manager'.exit = m.exit /\ manager'.more = m.more
        /\ \A X : Has(manager.todo, X) => stage \in X \/ Has(manager'.todo, X)
    BY <1>1, <1>2, ProceedGoesOn DEF Stage
  <1>4. /\ wake \subseteq wake'
        /\ stage \in {"output", "library"} /\ left > 1 /\ r.slot /\ runtime = "running" =>
             manager.s \in wake'
    BY <1>1 DEF Stage, Woken
  <1>5. ASSUME NEW t \in Sessions, NEW x \in Workers, session'[t].conn = x
        PROVE  Fit(session'[t], worker'[x]) /\ (Watched(t)' => Woke(t, x)')
    <2>1. Fit(session[t], worker[x]) /\ (Watched(t) => Woke(t, x)) /\ session[t].conn = x
      BY <1>2, <1>5 DEF WakeInv, ConnOK
    <2>2. Watched(t)' => Watched(t)
      BY <1>2, <1>3 DEF Watched, Stage
    <2>3. CASE t = manager.s
      <3>1. x = w
        BY <1>1, <2>1, <2>3
      <3>2. /\ q.kind = r.kind /\ q.size = r.size /\ q.commands = r.commands /\ q.owes = r.owes
            /\ q.swallowed = r.swallowed /\ q.phase = r.phase /\ q.slot = r.slot
            /\ q.news => r.news
        BY DEF Stage
      <3>3. Fit(session[t], q)
        BY <2>1, <3>1, <3>2, SizeStays DEF Fit
      <3>4. ASSUME Watched(t), Woke(t, x) PROVE Woke(t, x)'
        <4>1. Polled(t) /\ Polled(t)' /\ runtime = "running" /\ r.slot
          BY <1>3, <2>3, <3>1, <3>4 DEF Polled, Stage, Watched, Woke
        <4>2. Told(t, x) => Told(t, x)'
          BY <1>2, <1>4, <3>1, <3>2 DEF Told
        <4>3. \A X : Coming(t, X) => stage \in X \/ Coming(t, X)'
          BY <1>3, <4>1 DEF Coming
        <4>4. worker'[x].buffered > 0 => Told(t, x)' \/ Coming(t, {"output", "library"})'
          <5>1. CASE stage \in {"output", "library"}
            <6>1. q.buffered > 0 => left > 1
              BY <1>1, <5>1 DEF Stage
            <6> QED
              BY <1>2, <1>4, <2>3, <3>1, <4>1, <5>1, <6>1 DEF Told
          <5>2. CASE stage \notin {"output", "library"}
            <6>1. q.buffered = left
              BY <5>2 DEF Stage
            <6> QED
              BY <1>2, <3>1, <3>4, <4>2, <4>3, <5>2, <6>1 DEF Woke
          <5> QED
            BY <5>1, <5>2
        <4>5. worker'[x].news /\ worker'[x].phase # "ending" =>
                Told(t, x)' \/ Coming(t, {"events", "library"})'
          <5>1. CASE stage \in {"events", "library"}
            BY <1>2, <3>1, <5>1 DEF Stage
          <5>2. CASE stage \notin {"events", "library"}
            BY <1>2, <3>1, <3>2, <3>4, <4>2, <4>3, <5>2 DEF Woke
          <5> QED
            BY <5>1, <5>2
        <4>6. Exited(x)' => \/ Told(t, x)' \/ Coming(t, {"exit", "library"})'
                            \/ Polled(t)' /\ manager'.exit
          <5>1. Exited(x)' => Exited(x) /\ r.phase = "exited"
            BY <1>2, <3>1, <3>2 DEF Exited
          <5>2. CASE stage \in {"exit", "library"}
            BY <1>3, <4>1, <5>1, <5>2 DEF Stage
          <5>3. CASE stage \notin {"exit", "library"}
            <6>1. manager'.exit = manager.exit
              BY <1>3, <5>3 DEF Stage
            <6> QED
              BY <3>4, <4>1, <4>2, <4>3, <5>1, <5>3, <6>1 DEF Woke
          <5> QED
            BY <5>2, <5>3
        <4>7. Polled(t)' /\ manager'.more => t \in wake'
          <5>1. CASE stage \in {"output", "library"}
            BY <1>3, <1>4, <2>3, <4>1, <5>1 DEF Stage
          <5>2. CASE stage \notin {"output", "library"}
            BY <1>3, <1>4, <3>4, <4>1, <5>2 DEF Stage, Woke
          <5> QED
            BY <5>1, <5>2
        <4> QED
          BY <1>2, <3>1, <3>2, <4>1, <4>4, <4>5, <4>6, <4>7 DEF Woke
      <3> QED
        BY <1>2, <2>1, <2>2, <3>1, <3>3, <3>4
    <2>4. CASE t # manager.s
      <3>1. x # w
        BY <1>1, <2>1, <2>4 DEF SessionInv, OneOwner
      <3>2. ~ Polled(t)' /\ ~ Polled(t) /\ worker'[x] = worker[x]
        BY <1>2, <1>3, <2>4, <3>1 DEF Polled
      <3>3. Woke(t, x) => Woke(t, x)'
        BY <1>4, <3>2 DEF Woke, Told, Coming, Exited
      <3> QED
        BY <1>2, <2>1, <2>2, <3>2, <3>3
    <2> QED
      BY <2>3, <2>4
  <1> QED
    BY <1>5 DEF ConnOK

LEMMA OneDrained ==
  ASSUME NEW left \in Nat, NEW b, b = (IF left > 0 THEN left - 1 ELSE left), ~ left > 1
  PROVE  b = 0
  OBVIOUS

LEMMA StagePolls ==
  ASSUME SessionInv, WakeInv, NEW m, NEW q, Stage(m, q), q \in WorkerType
  PROVE  PollOK'
  <1> DEFINE w == manager.w
             r == worker[w]
             stage == Head(manager.todo)
             left == r.buffered
             out == {"output", "library"}
             news == {"events", "library"}
             M == MaxPollChunks
  <1>1. /\ w \in Workers /\ r \in WorkerType /\ left \in Nat /\ m \in ManagerType
        /\ m.todo # <<>> /\ m.todo = manager.todo /\ M \in Nat /\ M > 0 /\ manager.op = "poll"
        /\ manager \in ManagerType /\ q.kind = r.kind /\ q.phase = r.phase
    BY BoundsAssumption DEF Stage, SessionInv, TypeOK, LockKept, WorkerType
  <1>2. worker'[w] = q /\ manager' = Proceed(m)
    BY <1>1 DEF Stage, SessionInv, TypeOK
  <1>3. /\ manager'.w = w /\ manager'.exit = m.exit /\ manager'.more = m.more
        /\ manager'.taken = m.taken
        /\ manager'.todo = IF Tail(m.todo) = <<>> /\ m.more /\ m.taken < M
                           THEN DrainOrder(r.kind) ELSE Tail(m.todo)
    BY <1>1, <1>2, ProceedGoesOn DEF Stage
  <1>4. manager.taken \in Nat /\ manager.more \in BOOLEAN /\ m.more \in BOOLEAN /\ m.taken \in Nat
    BY <1>1 DEF ManagerType
  <1> SUFFICES ASSUME r.kind \in {"telnet", "mosh"}
               PROVE  /\ manager'.todo \in (IF r.kind = "mosh" THEN MoshRests ELSE TelnetRests)
                      /\ manager'.taken <= M
                      /\ Has(manager'.todo, out) => manager'.taken < M
                      /\ manager'.todo = <<>> /\ manager'.more => manager'.taken = M
                      /\ manager'.exit =>
                          /\ q.phase = "exited"
                          /\ Has(manager'.todo, out) \/ manager'.more \/ q.buffered = 0
                          /\ Has(manager'.todo, news) \/ ~ q.news
    BY <1>1, <1>2, <1>3 DEF PollOK
  <1>5. /\ manager.todo \in (IF r.kind = "mosh" THEN MoshRests ELSE TelnetRests)
        /\ manager.taken <= M
        /\ Has(manager.todo, out) => manager.taken < M
        /\ manager.exit =>
            /\ r.phase = "exited"
            /\ Has(manager.todo, out) \/ manager.more \/ left = 0
            /\ Has(manager.todo, news) \/ ~ r.news
    BY <1>1 DEF WakeInv, PollOK
  <1>6. CASE r.kind = "mosh"
    <2>1. manager.todo = MoshDrain /\ stage = "library"
      BY <1>1, <1>5, <1>6, Rests DEF MoshRests
    <2>2. /\ m.taken = manager.taken + 1 /\ m.more = (left > 1) /\ ~ q.news
          /\ q.buffered = (IF left > 0 THEN left - 1 ELSE left)
          /\ m.exit = (r.phase = "exited")
      BY <2>1 DEF Stage
    <2>3. manager.taken < M
      BY <1>5, <2>1, Rests
    <2>4. manager'.todo = IF m.more /\ m.taken < M THEN MoshDrain ELSE <<>>
      BY <1>1, <1>3, <1>6, <2>1, Rests
    <2>5. q.buffered = 0 \/ m.more
      <3>1. CASE left > 1
        BY <2>2, <3>1
      <3>2. CASE ~ left > 1
        BY <1>1, <2>2, <3>2, OneDrained
      <3> QED
        BY <3>1, <3>2
    <2> HIDE DEF r, M, left, out, news
    <2>6. manager'.todo \in MoshRests
      BY <2>4 DEF MoshRests
    <2>7. manager'.taken <= M /\ (m.more /\ ~ m.taken < M => m.taken = M)
      BY <1>1, <1>3, <1>4, <2>2, <2>3
    <2>8. CASE m.more /\ m.taken < M
      <3>1. manager'.todo = MoshDrain /\ Has(manager'.todo, out) /\ Has(manager'.todo, news)
        BY <2>4, <2>8, Rests DEF out, news
      <3>2. manager'.todo # <<>>
        BY <3>1 DEF MoshDrain
      <3>3. manager'.exit => q.phase = "exited"
        BY <1>1, <1>3, <2>2, Zenon
      <3> QED
        BY <1>3, <1>6, <2>2, <2>5, <2>6, <2>7, <2>8, <3>1, <3>2, <3>3, Zenon
    <2>9. CASE ~ (m.more /\ m.taken < M)
      <3>1. manager'.todo = <<>> /\ ~ Has(manager'.todo, out) /\ ~ Has(manager'.todo, news)
        BY <2>4, <2>9, HasNone
      <3>2. manager'.exit => q.phase = "exited"
        BY <1>1, <1>3, <2>2, Zenon
      <3> QED
        BY <1>3, <1>6, <2>2, <2>5, <2>6, <2>7, <2>9, <3>1, <3>2, Zenon
    <2> QED
      BY <2>8, <2>9
  <1>7. CASE r.kind = "telnet"
    <2> HIDE DEF r, M, left
    <2>1. manager.todo \in {TelnetDrain, <<"output", "events">>, <<"events">>}
      BY <1>1, <1>5, <1>7 DEF TelnetRests
    <2>2. CASE manager.todo = TelnetDrain
      <3>1. stage = "exit" /\ manager'.todo = <<"output", "events">>
        BY <1>1, <1>3, <2>2, Rests
      <3>2. m.taken = manager.taken /\ m.exit = (r.phase = "exited")
        BY <3>1 DEF Stage, r
      <3>3. manager.taken < M
        BY <1>5, <2>2, Rests
      <3> QED
        BY <1>1, <1>3, <1>5, <1>7, <3>1, <3>2, <3>3, Rests DEF TelnetRests
    <2>3. CASE manager.todo = <<"output", "events">>
      <3>1. stage = "output" /\ manager'.todo = <<"events">>
        BY <1>1, <1>3, <2>3, Rests
      <3>2. /\ m.taken = manager.taken + 1 /\ m.more = (left > 1) /\ m.exit = manager.exit
            /\ q.buffered = (IF left > 0 THEN left - 1 ELSE left)
        BY <3>1 DEF Stage, r, left
      <3>3. manager.taken < M
        BY <1>5, <2>3, Rests
      <3>4. q.buffered = 0 \/ m.more
        <4>1. CASE left > 1
          BY <3>2, <4>1
        <4>2. CASE ~ left > 1
          BY <1>1, <3>2, <4>2, OneDrained
        <4> QED
          BY <4>1, <4>2
      <3> HIDE DEF out, news
      <3>5. manager'.todo \in TelnetRests /\ manager'.todo # <<>> /\ ~ Has(manager'.todo, out)
        BY <3>1, Rests DEF TelnetRests, out
      <3>6. manager'.taken <= M
        BY <1>1, <1>3, <1>4, <3>2, <3>3
      <3>7. Has(manager'.todo, news)
        BY <3>1, Rests DEF news
      <3>8. manager'.exit => q.phase = "exited"
        BY <1>1, <1>3, <1>5, <3>2, Zenon
      <3> QED
        BY <1>3, <1>7, <3>4, <3>5, <3>6, <3>7, <3>8, Zenon
    <2>4. CASE manager.todo = <<"events">>
      <3>1. /\ stage = "events"
            /\ manager'.todo = IF m.more /\ m.taken < M THEN TelnetDrain ELSE <<>>
        BY <1>1, <1>3, <1>7, <2>4, Rests
      <3>2. /\ m.taken = manager.taken /\ m.more = manager.more /\ m.exit = manager.exit
            /\ q.buffered = left /\ ~ q.news
        BY <3>1 DEF Stage, r, left
      <3>3. manager.exit => r.phase = "exited" /\ (manager.more \/ left = 0)
        BY <1>5, <2>4, Rests
      <3> HIDE DEF out, news
      <3>4. manager'.taken <= M /\ (~ m.taken < M => m.taken = M)
        BY <1>1, <1>3, <1>4, <1>5, <3>2
      <3>5. manager'.todo \in TelnetRests
        BY <3>1 DEF TelnetRests
      <3>6. manager'.exit => q.phase = "exited" /\ (manager'.more \/ q.buffered = 0)
        <4>1. manager'.exit => manager.exit
          BY <1>3, <3>2
        <4>2. manager'.more = manager.more
          BY <1>3, <3>2
        <4>3. q.phase = r.phase /\ q.buffered = left
          BY <1>1, <3>2
        <4> QED
          BY <3>3, <4>1, <4>2, <4>3
      <3>7. CASE m.more /\ m.taken < M
        <4>1. manager'.todo # <<>>
          BY <3>1, <3>7 DEF TelnetDrain
        <4> QED
          BY <1>3, <1>7, <3>2, <3>4, <3>5, <3>6, <3>7, <4>1, Zenon
      <3>8. CASE ~ (m.more /\ m.taken < M)
        <4>1. manager'.todo = <<>> /\ ~ Has(manager'.todo, out)
          BY <3>1, <3>8, HasNone
        <4> QED
          BY <1>3, <1>7, <3>2, <3>4, <3>5, <3>6, <3>8, <4>1, Zenon
      <3> QED
        BY <3>7, <3>8
    <2> QED
      BY <2>1, <2>2, <2>3, <2>4
  <1> QED
    BY <1>6, <1>7

LEMMA StageMade ==
  ASSUME SessionInv, manager.op = "poll", manager.todo # <<>>,
         NEW taken \in Nat, NEW more \in BOOLEAN, NEW exit \in BOOLEAN,
         NEW buffered \in 0..MaxChunks, NEW news \in BOOLEAN,
         worker' = [worker EXCEPT ![manager.w] =
                        [worker[manager.w] EXCEPT !.buffered = buffered, !.news = news]],
         manager' = Proceed([manager EXCEPT !.taken = taken, !.more = more, !.exit = exit]),
         LET r == worker[manager.w]
             stage == Head(manager.todo)
             left == r.buffered
         IN
         /\ IF stage \in {"output", "library"}
            THEN /\ buffered = (IF left > 0 THEN left - 1 ELSE left)
                 /\ taken = manager.taken + 1 /\ more = (left > 1)
                 /\ wake' = IF left > 1 THEN Woken(manager.s, manager.w) ELSE wake
            ELSE /\ buffered = left /\ taken = manager.taken /\ more = manager.more
                 /\ wake' = wake
         /\ news = (r.news /\ stage \notin {"events", "library"})
         /\ exit = IF stage \in {"exit", "library"} THEN r.phase = "exited" ELSE manager.exit,
         UNCHANGED <<session, runtime>>
  PROVE  WakeInv => WakeInv'
  <1> DEFINE w == manager.w
             r == worker[w]
             q == [r EXCEPT !.buffered = buffered, !.news = news]
             m == [manager EXCEPT !.taken = taken, !.more = more, !.exit = exit]
  <1>1. w \in Workers /\ manager \in ManagerType /\ r \in WorkerType
    BY DEF SessionInv, TypeOK, LockKept
  <1>2. worker' = [worker EXCEPT ![w] = q] /\ manager' = Proceed(m)
    OBVIOUS
  <1>3. manager.op = "poll" /\ manager.todo # <<>> /\ manager.todo \in Seq(Stages)
    BY <1>1 DEF ManagerType
  <1>4. Head(manager.todo) \in Stages
    BY ONLY <1>3
  <1>5. /\ m \in ManagerType /\ m.op = "poll" /\ m.s = manager.s /\ m.w = w
        /\ m.todo = manager.todo /\ m.taken = taken /\ m.more = more /\ m.exit = exit
    BY ONLY <1>1, <1>3, taken \in Nat, more \in BOOLEAN, exit \in BOOLEAN DEF ManagerType
  <1> HIDE DEF r, m
  <1>6. /\ q \in WorkerType /\ q.kind = r.kind /\ q.size = r.size /\ q.commands = r.commands
        /\ q.owes = r.owes /\ q.swallowed = r.swallowed /\ q.phase = r.phase /\ q.slot = r.slot
        /\ q.buffered = buffered /\ q.news = news
    BY <1>1 DEF WorkerType
  <1> HIDE DEF q
  <1>7. Stage(m, q)
    BY <1>1, <1>2, <1>3, <1>4, <1>5, <1>6, Zenon DEF Stage, r
  <1> QED
    BY <1>6, <1>7, StageTells, StagePolls DEF WakeInv

LEMMA PollStageWakes ==
  ASSUME SessionInv, DrainOutput \/ DrainEvents \/ LoadExited \/ DrainLibrary
  PROVE  WakeInv => WakeInv'
  <1> DEFINE w == manager.w
             r == worker[w]
             left == r.buffered
             fewer == IF left > 0 THEN left - 1 ELSE left
             stage == Head(manager.todo)
             next == manager.taken + 1
  <1>1. manager.op = "poll" /\ manager.todo # <<>>
    BY DEF DrainOutput, DrainEvents, LoadExited, DrainLibrary, PollStage
  <1>2. w \in Workers /\ manager \in ManagerType /\ TypeOK /\ r \in WorkerType
    BY <1>1 DEF SessionInv, LockKept, TypeOK
  <1>3. /\ left \in 0..MaxChunks /\ fewer \in 0..MaxChunks /\ r.news \in BOOLEAN
        /\ manager.exit \in BOOLEAN /\ manager.more \in BOOLEAN /\ manager.taken \in Nat
        /\ next \in Nat
    BY <1>2, BoundsAssumption DEF WorkerType, ManagerType
  <1>4. (left > 1) \in BOOLEAN /\ (r.phase = "exited") \in BOOLEAN
    OBVIOUS
  <1>5. UNCHANGED <<session, runtime>>
    BY DEF DrainOutput, DrainEvents, LoadExited, DrainLibrary
  <1>6. CASE DrainOutput
    <2>1. worker' = [worker EXCEPT ![w] = [r EXCEPT !.buffered = fewer, !.news = r.news]]
      BY <1>2, <1>6 DEF DrainOutput, TypeOK, WorkerType
    <2>2. manager' = Proceed([manager EXCEPT !.taken = next, !.more = left > 1,
                                             !.exit = manager.exit])
      <3>1. [manager EXCEPT !.taken = next, !.more = left > 1, !.exit = manager.exit]
              = [manager EXCEPT !.taken = @ + 1, !.more = left > 1]
        BY <1>2 DEF ManagerType
      <3> QED
        BY <1>6, <3>1 DEF DrainOutput
    <2>3. /\ wake' = IF left > 1 THEN Woken(manager.s, w) ELSE wake
          /\ stage = "output"
      BY <1>6 DEF DrainOutput, PollStage
    <2>4. /\ stage \in {"output", "library"} /\ stage \notin {"events", "library"}
          /\ stage \notin {"exit", "library"}
          /\ r.news = (r.news /\ stage \notin {"events", "library"})
      BY <1>3, <2>3
    <2> HIDE DEF left, fewer, next, stage
    <2> QED
      BY <1>1, <1>3, <1>4, <1>5, <2>1, <2>2, <2>3, <2>4, StageMade DEF fewer, left, next, stage
  <1>7. CASE DrainLibrary
    <2>1. worker' = [worker EXCEPT ![w] = [r EXCEPT !.buffered = fewer, !.news = FALSE]]
      BY <1>2, <1>7 DEF DrainLibrary, TypeOK, WorkerType
    <2>2. manager' = Proceed([manager EXCEPT !.taken = next, !.more = left > 1,
                                             !.exit = (r.phase = "exited")])
      BY <1>7 DEF DrainLibrary, Exited
    <2>3. /\ wake' = IF left > 1 THEN Woken(manager.s, w) ELSE wake
          /\ stage = "library"
      BY <1>7 DEF DrainLibrary, PollStage
    <2>4. /\ stage \in {"output", "library"} /\ stage \in {"exit", "library"}
          /\ FALSE = (r.news /\ stage \notin {"events", "library"})
      BY <2>3
    <2> HIDE DEF left, fewer, next, stage
    <2> QED
      BY <1>1, <1>3, <1>4, <1>5, <2>1, <2>2, <2>3, <2>4, StageMade DEF fewer, left, next, stage
  <1>8. CASE DrainEvents
    <2>1. worker' = [worker EXCEPT ![w] = [r EXCEPT !.buffered = left, !.news = FALSE]]
      BY <1>2, <1>8 DEF DrainEvents, TypeOK, WorkerType
    <2>2. manager' = Proceed([manager EXCEPT !.taken = manager.taken, !.more = manager.more,
                                             !.exit = manager.exit])
      BY <1>2, <1>8 DEF DrainEvents, ManagerType
    <2>3. wake' = wake /\ stage = "events"
      BY <1>8 DEF DrainEvents, PollStage
    <2>4. /\ stage \notin {"output", "library"} /\ stage \notin {"exit", "library"}
          /\ FALSE = (r.news /\ stage \notin {"events", "library"})
      BY <2>3
    <2> HIDE DEF left, stage
    <2> QED
      BY <1>1, <1>3, <1>5, <2>1, <2>2, <2>3, <2>4, StageMade DEF left, stage
  <1>9. CASE LoadExited
    <2>1. worker' = [worker EXCEPT ![w] = [r EXCEPT !.buffered = left, !.news = r.news]]
      BY <1>2, <1>9 DEF LoadExited, TypeOK, WorkerType
    <2>2. manager' = Proceed([manager EXCEPT !.taken = manager.taken, !.more = manager.more,
                                             !.exit = (r.phase = "exited")])
      <3>1. [manager EXCEPT !.taken = manager.taken, !.more = manager.more,
                            !.exit = (r.phase = "exited")]
              = [manager EXCEPT !.exit = (r.phase = "exited")]
        BY <1>2 DEF ManagerType
      <3> QED
        BY <1>9, <3>1 DEF LoadExited, Exited
    <2>3. wake' = wake /\ stage = "exit"
      BY <1>9 DEF LoadExited, PollStage
    <2>4. /\ stage \notin {"output", "library"} /\ stage \in {"exit", "library"}
          /\ r.news = (r.news /\ stage \notin {"events", "library"})
      BY <1>3, <2>3
    <2> HIDE DEF left, stage
    <2> QED
      BY <1>1, <1>3, <1>4, <1>5, <2>1, <2>2, <2>3, <2>4, StageMade DEF left, stage
  <1> QED
    BY <1>6, <1>7, <1>8, <1>9

\* A poll ends: what it has not come to has a wake-up, and Mosh has ended only when
\* nothing is left.
LEMMA PollFinishWakes ==
  ASSUME SessionInv, WakeInv, PollFinish
  PROVE  WakeInv'
  <1>1. PICK s \in Sessions, w \in Workers :
            /\ manager.s = s /\ manager.w = w /\ session[s].conn = w /\ TypeOK
            /\ manager \in ManagerType /\ worker[w] \in WorkerType /\ session[s].size \in Sizes
            /\ UNCHANGED <<wake, runtime>> /\ manager.todo = <<>> /\ manager.op = "poll"
    BY DEF SessionInv, LockKept, TypeOK, PollFinish, SessionType
  <1> DEFINE old == worker[w]
  <1>2. PICK r : /\ r = old \/ r = Queue(old, Input)
                 /\ IF PollExit
                    THEN /\ session' = [session EXCEPT ![s].exited = TRUE, ![s].conn = None]
                         /\ worker' = [worker EXCEPT ![w] = Dropped(r)]
                         /\ manager' = Join(w)
                    ELSE /\ worker' = [worker EXCEPT ![w] = r]
                         /\ manager' = Idle
                         /\ UNCHANGED session
    BY <1>1 DEF PollFinish
  <1>3. /\ r.kind = old.kind /\ r.news = old.news /\ r.buffered = old.buffered
        /\ r.owes = old.owes /\ r.phase = old.phase /\ r.slot = old.slot
        /\ SizeComes(old, session[s].size) => SizeComes(r, session[s].size)
    <2>1. Input \in Commands
      BY DEF Commands
    <2> HIDE DEF old
    <2>2. old \in WorkerType /\ session[s].size \in Sizes
      BY <1>1 DEF old
    <2> QED
      BY <1>2, <2>1, <2>2, QueueQuiet, QueueSize
  <1>4. manager'.op # "poll"
    BY <1>1, <1>2, IdleTyped, JoinTyped
  <1> HIDE DEF old
  <1>5. ASSUME NEW t \in Sessions, t # s, session'[t] = session[t]
        PROVE  ConnOK(t)'
    <2>1. ASSUME NEW x \in Workers, session'[t].conn = x
          PROVE  Fit(session'[t], worker'[x]) /\ (Watched(t)' => Woke(t, x)')
      <3>1. x # w /\ session[t].conn = x
        BY <1>1, <1>5, <2>1 DEF SessionInv, OneOwner
      <3>2. worker'[x] = worker[x]
        BY <1>1, <1>2, <3>1 DEF TypeOK
      <3>3. ~ Polled(t) /\ ~ Polled(t)' /\ (Watched(t)' => Watched(t))
        BY <1>1, <1>4, <1>5 DEF Polled, Watched
      <3>4. Fit(session[t], worker[x]) /\ (Watched(t) => Woke(t, x))
        BY <3>1 DEF WakeInv, ConnOK
      <3> QED
        BY <1>1, <1>5, <3>2, <3>3, <3>4 DEF Woke, Told, Coming, Exited
    <2> QED
      BY <2>1 DEF ConnOK
  <1>6. CASE PollExit
    <2>1. /\ \A t \in Sessions : t # s => session'[t] = session[t]
          /\ session'[s].conn = None
      BY <1>1, <1>2, <1>6 DEF TypeOK, SessionType
    <2>2. ConnOK(s)'
      BY <2>1, NoneAssumption DEF ConnOK
    <2>3. PollOK'
      BY <1>4 DEF PollOK
    <2> QED
      BY <1>5, <2>1, <2>2, <2>3 DEF WakeInv
  <1>7. CASE ~ PollExit
    <2>1. /\ session' = session /\ worker'[w] = r /\ manager' = Idle
      BY <1>1, <1>2, <1>7 DEF TypeOK
    <2>2. Fit(session[s], old) /\ (Watched(s) => Woke(s, w))
      BY <1>1 DEF WakeInv, ConnOK, old
    <2>3. Fit(session[s], r)
      BY <1>3, <2>2 DEF Fit
    <2>4. ASSUME Watched(s)' PROVE Woke(s, w)'
      <3>1. Watched(s) /\ Woke(s, w)
        BY <1>1, <2>1, <2>2, <2>4 DEF Watched
      <3>2. \A X : ~ Coming(s, X)
        BY <1>1, HasNone DEF Coming
      <3>3. manager.exit => s \in wake
        BY <1>1, <1>7, <3>1 DEF PollExit, Woke, Polled
      <3>4. Told(s, w)' <=> Told(s, w)
        BY <1>1, <1>3, <2>1 DEF Told, old
      <3>5. ~ Polled(s)'
        BY <1>4 DEF Polled
      <3>6. worker'[w].slot /\ (worker'[w].buffered > 0 => Told(s, w)')
            /\ (worker'[w].news /\ worker'[w].phase # "ending" => Told(s, w)')
        BY <1>3, <2>1, <3>1, <3>2, <3>4 DEF Woke, old
      <3>7. Exited(w)' => Told(s, w)'
        BY <1>3, <2>1, <3>1, <3>2, <3>3, <3>4 DEF Woke, Exited, Told, old
      <3> QED
        BY <3>5, <3>6, <3>7 DEF Woke
    <2>5. ConnOK(s)'
      BY <1>1, <2>1, <2>3, <2>4 DEF ConnOK
    <2>6. PollOK'
      BY <1>4 DEF PollOK
    <2> QED
      BY <1>5, <2>1, <2>5, <2>6 DEF WakeInv
  <1> QED
    BY <1>6, <1>7

-----------------------------------------------------------------------------
(* Theorems                                                                  *)

\* Whatever a worker does leaves the sessions' records alone.
LEMMA WorkersLeaveSessions ==
  ASSUME NEW w \in Workers, WorkerStep(w) \/ RemoteStep(w)
  PROVE  UNCHANGED session
  BY DEF WorkerStep, RemoteStep, SshSwallows, SshRuns, TelnetRuns, SerialRuns, LocalRuns,
         StopRequested, StoreExited, Notify, CallbackReturns, SshConnects, SshFails, SshSent,
         SshReceives, SshEnds, TelnetConnects, TelnetFails, TelnetReceives, TelnetEnds,
         SerialReceives, SerialEnds, LocalReceives, LocalEnds, MoshSteps, Set

LEMMA StartsOwned == Init => SessionInv
  <1> SUFFICES ASSUME Init PROVE SessionInv
    OBVIOUS
  <1>1. /\ FreeWorker(StartKind, StartSize) \in WorkerType
        /\ ~ FreeWorker(StartKind, StartSize).slot
        /\ ~ FreeWorker(StartKind, StartSize).calling
    BY FreeTyped, KindsAssumption, SizesAssumption
  <1>2. session \in [Sessions -> SessionType]
    BY KindsAssumption, SizesAssumption DEF Init, SessionType
  <1>3. TypeOK
    BY <1>1, <1>2, IdleTyped DEF Init, TypeOK
  <1>4. SlotOwned /\ CalledFromSlot
    BY <1>1 DEF Init, SlotOwned, CalledFromSlot
  <1>5. OneOwner /\ LockKept
    BY NoneAssumption, IdleTyped DEF Init, OneOwner, LockKept
  <1> QED
    BY <1>3, <1>4, <1>5 DEF SessionInv

\* Nobody is connected at the start, so nothing waits.
LEMMA StartsQuiet == Init => WakeInv
  BY NoneAssumption, IdleTyped DEF Init, WakeInv, ConnOK, PollOK

LEMMA StepsContinue == SessionInv /\ [Next]_vars => Continues
  <1> SUFFICES ASSUME SessionInv, [Next]_vars PROVE Continues
    OBVIOUS
  <1>1. ASSUME NEW s \in Sessions, Call(s) PROVE Continues
    <2>1. CASE CreateLocal(s) \/ CreateSsh(s) \/ CreateTelnet(s) \/ CreateSerial(s)
      BY <2>1, CreateKeeps
    <2>2. CASE CreateMosh(s)
      BY <2>2, CreateMoshKeeps, CreateMoshWakes DEF Continues
    <2>3. CASE ReconnectSsh(s)
      BY <2>3, ReconnectSshKeeps
    <2>4. CASE ReconnectMosh(s)
      BY <2>4, ReconnectMoshKeeps, ReconnectMoshWakes DEF Continues
    <2>5. CASE SetWakeupCallback(s)
      BY <2>5, SetWakeupCallbackKeeps, SetWakeupCallbackWakes DEF Continues
    <2>6. ASSUME NEW size \in Sizes, Resize(s, size) PROVE Continues
      BY <2>6, ResizeKeeps, ResizeWakes DEF Continues
    <2>7. CASE SendInput(s)
      BY <2>7, SendInputKeeps, SendInputWakes DEF Continues
    <2>8. CASE Close(s)
      BY <2>8, CloseKeeps
    <2> QED
      BY <1>1, <2>1, <2>2, <2>3, <2>4, <2>5, <2>6, <2>7, <2>8 DEF Call
  <1>2. ASSUME NEW s \in Sessions, PollBegin(s) PROVE Continues
    BY <1>2, PollBeginKeeps, PollBeginWakes DEF Continues
  <1>3. CASE ManagerStep
    <2>1. CASE DrainOutput \/ DrainEvents \/ LoadExited \/ DrainLibrary
      BY <2>1, PollStageKeeps, PollStageWakes DEF Continues
    <2>2. CASE PollFinish
      BY <2>2, PollFinishKeeps, PollFinishWakes DEF Continues
    <2>3. CASE JoinWorker
      BY <2>3, JoinWorkerKeeps, JoinWorkerWakes DEF Continues
    <2> QED
      BY <1>3, <2>1, <2>2, <2>3 DEF ManagerStep
  <1>4. CASE Shutdown
    <2>1. CASE BeginShutdown \/ EndShutdown
      BY <2>1, ShutdownKeeps, ShutdownWakes DEF Continues
    <2>2. CASE SilenceSessions
      BY <2>2, SilenceSessionsKeeps, ShutdownWakes DEF Continues
    <2>3. ASSUME NEW s \in Sessions, ClearSession(s) PROVE Continues
      BY <2>3, ClearSessionKeeps
    <2> QED
      BY <1>4, <2>1, <2>2, <2>3 DEF Shutdown
  <1>5. ASSUME NEW w \in Workers, WorkerStep(w) \/ RemoteStep(w) PROVE Continues
    BY <1>5, WorkerStepKeeps, RemoteStepKeeps
  <1>6. CASE BootstrapEnds
    BY <1>6, BootstrapEndsKeeps
  <1>7. CASE UNCHANGED vars
    <2>1. SessionInv'
      BY <1>7 DEF vars, SessionInv, TypeOK, SlotOwned, CalledFromSlot, OneOwner, LockKept
    <2>2. WakeInv => WakeInv'
      BY <1>7 DEF vars, WakeInv, ConnOK, Watched, Woke, Told, Coming, Polled, Exited, PollOK
    <2> QED
      BY <2>1, <2>2 DEF Continues
  <1> QED
    BY <1>1, <1>2, <1>3, <1>4, <1>5, <1>6, <1>7 DEF Next

LEMMA OwnersInvariant == Spec => [](SessionInv /\ WakeInv)
  <1>1. SessionInv /\ WakeInv /\ [Next]_vars => SessionInv' /\ WakeInv'
    BY StepsContinue DEF Continues
  <1> QED
    BY <1>1, StartsOwned, StartsQuiet, PTL DEF Spec

\* The state stays well typed for any number of sessions, connections and sizes: in
\* particular a buffer is never drained below nothing, and whoever holds the manager's
\* lock works on a session and a worker that exist.
THEOREM TypeCorrect == Spec => []TypeOK
  BY OwnersInvariant, PTL DEF SessionInv

\* A worker calls a callback only for the session that owns it, while that session is
\* open and has it set: close_session, the reconnects and the shutdown may free a
\* callback as soon as they have taken it from the slot.
THEOREM CallbacksOwned == Spec => []CallbackHasOwner
  <1>1. SessionInv => CallbackHasOwner
    BY DEF SessionInv, SlotOwned, CalledFromSlot, CallbackHasOwner
  <1> QED
    BY <1>1, OwnersInvariant, PTL

\* Whatever waits for the interface has it woken, for any number of sessions and
\* connections, any bounds, and however long the program runs: a chunk of output, an
\* event or the end of a connection is never left without a wake-up in the queue, a
\* notification that the worker still owes, or a poll at work on that session.
THEOREM WakeupsArrive == Spec => []NoLostWakeup
  <1>1. SessionInv /\ WakeInv => NoLostWakeup
    <2> SUFFICES ASSUME SessionInv, WakeInv, NEW s \in Sessions, NEW w \in Workers,
                        session[s].wakeup, session[s].conn = w,
                        runtime = "running", manager.op # "bootstrap",
                        \/ worker[w].buffered > 0
                        \/ worker[w].news /\ worker[w].phase # "ending"
                        \/ Exited(w)
                 PROVE  s \in wake \/ worker[w].owes \/ (manager.op = "poll" /\ manager.s = s)
      BY DEF NoLostWakeup
    <2>1. Woke(s, w)
      BY DEF WakeInv, ConnOK, Watched
    <2> QED
      BY <2>1 DEF Woke, Told, Coming, Polled
  <1> QED
    BY <1>1, OwnersInvariant, PTL

\* The last size that the engine was given is on its way to the remote side, or there:
\* across resizes while a worker connects, reconnects, and commands in between. Only
\* SSH drops a size, and only one that arrives while it connects.
THEOREM SizesReachRemote == Spec => []RemoteSizeCurrent
  <1>1. SessionInv /\ WakeInv => RemoteSizeCurrent
    <2> SUFFICES ASSUME SessionInv, WakeInv, NEW s \in Sessions, NEW w \in Workers,
                        session[s].conn = w, worker[w].kind # "serial",
                        worker[w].phase = "up", worker[w].commands = <<>>
                 PROVE  \/ worker[w].size = session[s].size
                        \/ worker[w].swallowed /\ worker[w].kind = "ssh"
      BY DEF RemoteSizeCurrent
    <2>1. SizeComes(worker[w], session[s].size)
      BY DEF WakeInv, ConnOK, Fit
    <2>2. CASE worker[w].kind = "mosh"
      BY <2>1, <2>2 DEF SizeComes
    <2>3. CASE worker[w].kind # "mosh"
      <3>1. SizeQueued(worker[w], session[s].size)
        BY <2>1, <2>3 DEF SizeComes, Accepting
      <3>2. ~ \E i \in 1 .. Len(worker[w].commands) : TRUE
        OBVIOUS
      <3> QED
        BY <3>1, <3>2 DEF SizeQueued
    <2> QED
      BY <2>2, <2>3
  <1> QED
    BY <1>1, OwnersInvariant, PTL

\* A Telnet or Mosh session that a poll ends has shown all output and passed on every
\* event, whatever its worker wrote while the poll ran, unless more was waiting than a
\* poll takes: the flag that the poll read was set after the last of it was written.
THEOREM EndsAreComplete == Spec => EndsComplete
  <1> DEFINE Complete ==
        \A s \in Sessions :
            /\ manager.op = "poll" /\ manager.s = s /\ session'[s].conn = None
            /\ session[s].kind \in {"telnet", "mosh"}
            => LET r == worker[manager.w] IN
                /\ ~ r.news
                /\ r.buffered = 0 \/ (r.kind = "telnet" /\ manager.taken = MaxPollChunks)
  <1>1. ASSUME SessionInv, WakeInv, [Next]_vars PROVE [Complete]_vars
    <2> SUFFICES ASSUME NEW s \in Sessions, manager.op = "poll", manager.s = s,
                        session'[s].conn = None, session[s].kind \in {"telnet", "mosh"}
                 PROVE  LET r == worker[manager.w] IN
                        /\ ~ r.news
                        /\ \/ r.buffered = 0
                           \/ r.kind = "telnet" /\ manager.taken = MaxPollChunks
      OBVIOUS
    <2>1. /\ manager.w \in Workers /\ session[s].conn = manager.w
      BY <1>1 DEF SessionInv, LockKept
    <2>2. session' # session
      BY <2>1, NoneAssumption
    <2>3. PollFinish
      <3>1. CASE UNCHANGED vars
        BY <2>2, <3>1 DEF vars
      <3>2. ~ \E t \in Sessions : Call(t) \/ PollBegin(t)
        BY DEF Call, CreateLocal, CreateSsh, CreateTelnet, CreateSerial, CreateMosh,
               ReconnectSsh, ReconnectMosh, SetWakeupCallback, Resize, SendInput, Close,
               PollBegin, Open, New
      <3>3. ~ Shutdown
        BY <2>2 DEF Shutdown, BeginShutdown, SilenceSessions, EndShutdown, ClearSession
      <3>4. ManagerStep => PollFinish
        BY <2>2 DEF ManagerStep, DrainOutput, DrainEvents, LoadExited, DrainLibrary,
                    JoinWorker
      <3>5. ASSUME NEW x \in Workers, WorkerStep(x) \/ RemoteStep(x) PROVE FALSE
        BY <2>2, <3>5, WorkersLeaveSessions
      <3>6. ~ BootstrapEnds
        BY DEF BootstrapEnds
      <3> QED
        BY <1>1, <3>1, <3>2, <3>3, <3>4, <3>5, <3>6 DEF Next
    <2>4. PollExit /\ manager.todo = <<>>
      BY <2>2, <2>3 DEF PollFinish
    <2>5. worker[manager.w].kind = session[s].kind
      BY <1>1, <2>1 DEF WakeInv, ConnOK, Fit
    <2>6. /\ manager.more => manager.taken = MaxPollChunks
          /\ manager.more \/ worker[manager.w].buffered = 0
          /\ ~ worker[manager.w].news
      BY <1>1, <2>4, <2>5, HasNone DEF WakeInv, PollOK, PollExit
    <2> QED
      BY <2>4, <2>5, <2>6 DEF PollExit
  <1>2. Spec => [][Complete]_vars
    BY <1>1, OwnersInvariant, PTL DEF Spec
  <1> QED
    BY <1>2 DEF EndsComplete
=============================================================================
