--------------------------- MODULE WakeWriterProofs ---------------------------
(***************************************************************************)
(* Proofs about WakeWriter, for every number of wakes, every set of push   *)
(* closures, either harness and whether or not a run may throw             *)
(* (wake/coordinator.ts).  The first part is its types and the order of    *)
(* its queue, the second that it implements WakeLedger.                    *)
(***************************************************************************)
EXTENDS WakeWriter, SequenceTheorems, TLAPS

-----------------------------------------------------------------------------
(* The inductive invariant.                                                  *)

\* Queue q waits in firing order behind everything that has a row in r, and
\* holds only wakes that fired (at most f) and have no row yet.
Waiting(q, r, f) ==
  /\ q \in Seq(Wakes)
  /\ \A i, j \in 1 .. Len(q) : i < j => q[i] < q[j]
  /\ \A i \in 1 .. Len(q) : q[i] <= f /\ r[q[i]] = "none"
  /\ \A i \in 1 .. Len(q) : \A v \in Wakes : r[v] # "none" => v < q[i]

CoreTyped ==
  /\ wstate \in WriterState
  /\ live \subseteq Wakes
  /\ row \in [Wakes -> Row]
  /\ run \in Wakes \cup {NoWake}
  /\ childAlive \in BOOLEAN /\ killArmed \in BOOLEAN /\ sleepHeld \in BOOLEAN
  /\ stopping \in BOOLEAN /\ timedOut \in BOOLEAN /\ apiErr \in BOOLEAN
  /\ used \in Nat
  /\ fired \in 0 .. MaxWakes
  /\ pending \in Seq(Wakes)

OthersTyped ==
  /\ poll \in PollOwner
  /\ push \in Pushes \cup {NoPush}
  /\ pushBusy \in BOOLEAN
  /\ flight \in [Pushes -> Wakes \cup {NoWake}]
  /\ retryArmed \in BOOLEAN
  /\ resumeFails \in 0 .. MaxResumeFails
  /\ harness \in Harnesses
  /\ featureOn \in BOOLEAN /\ agentLimit \in BOOLEAN /\ gone \in BOOLEAN

RunningRows(r) == {w \in Wakes : r[w] = "running"}

RowsFired == \A v \in Wakes : row[v] # "none" => v <= fired

\* No run: the live session owns every running row, the whole queue waits.
Idle ==
  /\ wstate # "HEADLESS_RUNNING"
  /\ run = NoWake
  /\ childAlive = FALSE /\ killArmed = FALSE /\ sleepHeld = FALSE
  /\ stopping = FALSE /\ timedOut = FALSE /\ apiErr = FALSE
  /\ RunningRows(row) = live
  /\ live # {} => wstate = "INTERACTIVE_RUNNING"
  /\ Waiting(pending, row, fired)
  /\ wstate # "INTERACTIVE_RUNNING" => pending = <<>>

\* A headless run owns the only running row.  Its head stays at the front until
\* the child exits, unless a Stop emptied the queue.
HeadlessRun ==
  /\ wstate = "HEADLESS_RUNNING"
  /\ run \in Wakes
  /\ live = {}
  /\ RunningRows(row) = {run}
  /\ IF stopping = TRUE
     THEN timedOut = FALSE /\ killArmed = FALSE /\ Waiting(pending, row, fired)
     ELSE /\ killArmed # timedOut
          /\ pending # <<>>
          /\ Head(pending) = run
          /\ Waiting(Tail(pending), row, fired)

Core == CoreTyped /\ RowsFired /\ (Idle \/ HeadlessRun)

\* The push transport exists only in an interactive session, and the streak of
\* resume failures is complete only in a broken agent.
Others ==
  /\ OthersTyped
  /\ push # NoPush \/ retryArmed = TRUE => wstate = "INTERACTIVE_RUNNING"
  /\ wstate # "BROKEN" => resumeFails < MaxResumeFails

IInv == Core /\ Others

-----------------------------------------------------------------------------
(* Queues and rows.                                                          *)

\* Taking the head off a non-empty queue.
LEMMA TailFacts ==
  ASSUME NEW q \in Seq(Wakes), q # <<>>
  PROVE  /\ Tail(q) \in Seq(Wakes)
         /\ Len(q) \in Nat /\ Len(q) >= 1
         /\ Len(Tail(q)) = Len(q) - 1
         /\ \A i \in 1 .. Len(Tail(q)) : Tail(q)[i] = q[i + 1]
         /\ Head(q) = q[1] /\ Head(q) \in Wakes
<1>1. Len(q) \in Nat /\ Len(q) # 0
  BY EmptySeq
<1> QED
  BY <1>1, HeadTailProperties

\* Rows that keep their "has a row" status keep a queue waiting.
LEMMA WaitingRows ==
  ASSUME NEW q, NEW r, NEW s, NEW f, Waiting(q, r, f),
         \A v \in Wakes : s[v] = "none" <=> r[v] = "none"
  PROVE  Waiting(q, s, f)
<1>1. q \in Seq(Wakes)
  BY DEF Waiting
<1>2. \A i \in 1 .. Len(q) : q[i] \in Wakes
  BY <1>1
<1> QED
  BY <1>2 DEF Waiting

\* What is behind the head of a waiting queue waits too, behind the head.
LEMMA WaitingTail ==
  ASSUME NEW q, NEW r, NEW f, Waiting(q, r, f), q # <<>>
  PROVE  /\ Waiting(Tail(q), r, f)
         /\ r[Head(q)] = "none"
         /\ Head(q) \in Wakes
         /\ Head(q) <= f
         /\ \A i \in 1 .. Len(Tail(q)) : Tail(q)[i] \in Wakes /\ Head(q) < Tail(q)[i]
<1> q \in Seq(Wakes)
  BY DEF Waiting
<1>1. /\ Tail(q) \in Seq(Wakes)
      /\ Len(q) \in Nat /\ Len(q) >= 1
      /\ Len(Tail(q)) = Len(q) - 1
      /\ \A i \in 1 .. Len(Tail(q)) : Tail(q)[i] = q[i + 1]
      /\ Head(q) = q[1] /\ Head(q) \in Wakes
  BY TailFacts
<1>2. r[Head(q)] = "none" /\ Head(q) <= f
  BY <1>1 DEF Waiting
<1>3. \A i \in 1 .. Len(Tail(q)) : i + 1 \in 1 .. Len(q) /\ 1 \in 1 .. Len(q) /\ 1 < i + 1
  BY <1>1
<1>4. \A i, j \in 1 .. Len(Tail(q)) : i < j => Tail(q)[i] < Tail(q)[j]
  <2> SUFFICES ASSUME NEW i \in 1 .. Len(Tail(q)), NEW j \in 1 .. Len(Tail(q)), i < j
               PROVE  Tail(q)[i] < Tail(q)[j]
    OBVIOUS
  <2>1. i + 1 \in 1 .. Len(q) /\ j + 1 \in 1 .. Len(q) /\ i + 1 < j + 1
    BY <1>1
  <2>2. q[i + 1] < q[j + 1]
    BY <2>1 DEF Waiting
  <2> QED
    BY <2>2, <1>1
<1>5. ASSUME NEW i \in 1 .. Len(Tail(q))
      PROVE  /\ Tail(q)[i] \in Wakes
             /\ Tail(q)[i] <= f
             /\ r[Tail(q)[i]] = "none"
             /\ Head(q) < Tail(q)[i]
             /\ \A v \in Wakes : r[v] # "none" => v < Tail(q)[i]
  <2>1. q[i + 1] <= f /\ r[q[i + 1]] = "none" /\ q[1] < q[i + 1]
    BY <1>3 DEF Waiting
  <2>2. \A v \in Wakes : r[v] # "none" => v < q[i + 1]
    BY <1>3 DEF Waiting
  <2>3. q[i + 1] \in Wakes
    BY <1>3
  <2> QED
    BY <2>1, <2>2, <2>3, <1>1
<1> QED
  BY <1>1, <1>2, <1>4, <1>5 DEF Waiting

\* Starting the head: the rest still waits, now behind a head that has a row.
LEMMA WaitingStart ==
  ASSUME NEW q, NEW r \in [Wakes -> Row], NEW f, Waiting(q, r, f), q # <<>>
  PROVE  /\ Waiting(Tail(q), Started(r, Head(q)), f)
         /\ r[Head(q)] = "none"
         /\ Head(q) \in Wakes
         /\ Head(q) <= f
<1>1. /\ Waiting(Tail(q), r, f)
      /\ r[Head(q)] = "none" /\ Head(q) \in Wakes /\ Head(q) <= f
      /\ \A i \in 1 .. Len(Tail(q)) : Tail(q)[i] \in Wakes /\ Head(q) < Tail(q)[i]
  BY WaitingTail
<1>2. ASSUME NEW i \in 1 .. Len(Tail(q))
      PROVE  Started(r, Head(q))[Tail(q)[i]] = "none"
  <2>1. Tail(q)[i] # Head(q)
    BY <1>1 DEF Wakes
  <2> QED
    BY <2>1, <1>1 DEF Started, Waiting
<1>3. ASSUME NEW i \in 1 .. Len(Tail(q)), NEW v \in Wakes, Started(r, Head(q))[v] # "none"
      PROVE  v < Tail(q)[i]
  <2>1. CASE v = Head(q)
    BY <2>1, <1>1
  <2>2. CASE v # Head(q)
    <3>1. r[v] # "none"
      BY <2>2, <1>3, <1>1 DEF Started
    <3> QED
      BY <3>1, <1>1 DEF Waiting
  <2> QED
    BY <2>1, <2>2
<1> QED
  BY <1>1, <1>2, <1>3 DEF Waiting

\* A fresh wake joins at the back.
LEMMA WaitingEnqueue ==
  ASSUME NEW q, NEW r \in [Wakes -> Row], NEW f \in Nat, f + 1 \in Wakes,
         Waiting(q, r, f),
         \A v \in Wakes : r[v] # "none" => v <= f
  PROVE  Waiting(Enqueued(q, f + 1), r, f + 1)
<1> DEFINE p == Append(q, f + 1)
<1> q \in Seq(Wakes)
  BY DEF Waiting
<1>1. /\ p \in Seq(Wakes)
      /\ Len(q) \in Nat
      /\ Len(p) = Len(q) + 1
      /\ \A i \in 1 .. Len(q) : p[i] = q[i]
      /\ p[Len(q) + 1] = f + 1
  OBVIOUS
<1>2. \A i \in 1 .. Len(q) : /\ q[i] \in Wakes /\ q[i] <= f /\ r[q[i]] = "none"
                             /\ \A v \in Wakes : r[v] # "none" => v < q[i]
  BY DEF Waiting
<1>3. r[f + 1] = "none"
  <2> SUFFICES ASSUME r[f + 1] # "none" PROVE FALSE
    OBVIOUS
  <2> f + 1 <= f
    OBVIOUS
  <2> QED
    OBVIOUS
<1>4. \A v \in Wakes : r[v] # "none" => v < f + 1
  OBVIOUS
<1>5. ASSUME NEW i \in 1 .. Len(p)
      PROVE  /\ p[i] <= f + 1 /\ r[p[i]] = "none"
             /\ \A v \in Wakes : r[v] # "none" => v < p[i]
  <2>1. CASE i \in 1 .. Len(q)
    <3>1. p[i] = q[i] /\ q[i] \in Wakes /\ q[i] <= f
      BY <2>1, <1>1, <1>2
    <3> QED
      BY <3>1, <2>1, <1>2
  <2>2. CASE i = Len(q) + 1
    BY <2>2, <1>1, <1>3, <1>4
  <2> QED
    BY <2>1, <2>2, <1>1
<1>6. ASSUME NEW i \in 1 .. Len(p), NEW j \in 1 .. Len(p), i < j
      PROVE  p[i] < p[j]
  <2>1. i \in 1 .. Len(q) /\ p[i] = q[i] /\ q[i] \in Wakes /\ q[i] <= f
    BY <1>6, <1>1, <1>2
  <2>2. CASE j \in 1 .. Len(q)
    <3>1. q[i] < q[j]
      BY <2>1, <2>2, <1>6 DEF Waiting
    <3> QED
      BY <3>1, <2>1, <2>2, <1>1
  <2>3. CASE j = Len(q) + 1
    <3>1. p[j] = f + 1
      BY <2>3, <1>1
    <3> QED
      BY <3>1, <2>1 DEF Wakes
  <2> QED
    BY <2>2, <2>3, <1>1
<1> QED
  BY <1>1, <1>5, <1>6 DEF Waiting, Enqueued

\* The empty queue waits.
LEMMA WaitingEmpty ==
  ASSUME NEW r, NEW f
  PROVE  Waiting(<<>>, r, f)
<1> Len(<<>>) = 0 /\ <<>> \in Seq(Wakes)
  OBVIOUS
<1> QED
  BY DEF Waiting

\* Settling keeps every row typed and keeps which wakes have a row.
LEMMA SettledFacts ==
  ASSUME NEW r \in [Wakes -> Row], NEW S, NEW outcome \in Settlement
  PROVE  /\ Settled(r, S, outcome) \in [Wakes -> Row]
         /\ \A v \in Wakes : Settled(r, S, outcome)[v] = "none" <=> r[v] = "none"
         /\ RunningRows(Settled(r, S, outcome)) = RunningRows(r) \ S
<1>1. outcome \in Row /\ outcome # "none" /\ outcome # "running"
  BY DEF Row, Settlement, Failure
<1>2. Settled(r, S, outcome) =
        [w \in Wakes |-> IF w \in S /\ r[w] = "running" THEN outcome ELSE r[w]]
  BY DEF Settled
<1> QED
  BY <1>1, <1>2 DEF RunningRows

\* Starting a wake that has no row.
LEMMA StartedFacts ==
  ASSUME NEW r \in [Wakes -> Row], NEW w \in Wakes
  PROVE  /\ Started(r, w) \in [Wakes -> Row]
         /\ Started(r, w)[w] = "running"
         /\ \A v \in Wakes \ {w} : Started(r, w)[v] = r[v]
         /\ RunningRows(Started(r, w)) = RunningRows(r) \cup {w}
<1>1. "running" \in Row
  BY DEF Row
<1>2. Started(r, w) = [r EXCEPT ![w] = "running"]
  BY DEF Started
<1> QED
  BY <1>1, <1>2 DEF RunningRows

-----------------------------------------------------------------------------
(* What each transport's step re-establishes.                                *)

\* Draining a waiting queue with nothing running ends idle or in a run.
LEMMA DrainCore ==
  ASSUME NEW q, NEW r \in [Wakes -> Row],
         fired' \in 0 .. MaxWakes,
         Waiting(q, r, fired'),
         \A v \in Wakes : r[v] # "none" => v <= fired',
         RunningRows(r) = {},
         used \in Nat,
         live' = {}, stopping' = FALSE,
         OfflineAndDrain(q, r)
  PROVE  Core' /\ wstate' \in {"OFFLINE", "HEADLESS_RUNNING"}
<1>1. CASE q # <<>> /\ StartHeadless(q, r)
  <2> DEFINE h == Head(q)
  <2>1. /\ Waiting(Tail(q), Started(r, h), fired')
        /\ r[h] = "none" /\ h \in Wakes /\ h <= fired'
    BY <1>1, WaitingStart
  <2>2. /\ Started(r, h) \in [Wakes -> Row]
        /\ \A v \in Wakes \ {h} : Started(r, h)[v] = r[v]
        /\ RunningRows(Started(r, h)) = {h}
    BY <2>1, StartedFacts
  <2>3. /\ wstate' = "HEADLESS_RUNNING" /\ pending' = q /\ run' = h
        /\ row' = Started(r, h) /\ childAlive' \in BOOLEAN /\ killArmed' = TRUE
        /\ timedOut' = FALSE /\ apiErr' = FALSE /\ sleepHeld' \in BOOLEAN
        /\ used' = used + 1
    BY <1>1 DEF StartHeadless
  <2>4. q \in Seq(Wakes)
    BY DEF Waiting
  <2> HIDE DEF h
  <2>5. CoreTyped'
    <3>1. used' \in Nat /\ run' \in Wakes \cup {NoWake} /\ wstate' \in WriterState
      BY <2>1, <2>3 DEF WriterState
    <3>2. row' \in [Wakes -> Row] /\ pending' \in Seq(Wakes) /\ live' \subseteq Wakes
      BY <2>2, <2>3, <2>4
    <3> QED
      BY <2>3, <3>1, <3>2 DEF CoreTyped
  <2> USE DEF h
  <2>6. RowsFired'
    BY <2>1, <2>2, <2>3 DEF RowsFired
  <2>7. HeadlessRun'
    BY <1>1, <2>1, <2>2, <2>3 DEF HeadlessRun, RunningRows, Waiting
  <2> QED
    BY <2>3, <2>5, <2>6, <2>7 DEF Core
<1>2. CASE /\ wstate' = "OFFLINE" /\ pending' = <<>> /\ row' = r
           /\ NoRun /\ UNCHANGED used
  <2>1. Waiting(<<>>, r, fired') /\ <<>> \in Seq(Wakes)
    BY WaitingEmpty
  <2>2. /\ run' = NoWake /\ childAlive' = FALSE /\ killArmed' = FALSE
        /\ timedOut' = FALSE /\ apiErr' = FALSE /\ sleepHeld' = FALSE
        /\ used' = used
    BY <1>2 DEF NoRun
  <2>3. CoreTyped'
    BY <1>2, <2>1, <2>2 DEF CoreTyped, WriterState
  <2>4. RowsFired'
    BY <1>2 DEF RowsFired
  <2>5. Idle'
    BY <1>2, <2>1, <2>2 DEF Idle, RunningRows, Waiting
  <2> QED
    BY <1>2, <2>3, <2>4, <2>5 DEF Core
<1> QED
  BY <1>1, <1>2 DEF OfflineAndDrain

\* Breaking the agent drops the queue.
LEMMA BreakCore ==
  ASSUME NEW r \in [Wakes -> Row],
         fired' \in 0 .. MaxWakes,
         \A v \in Wakes : r[v] # "none" => v <= fired',
         RunningRows(r) = {},
         used \in Nat,
         live' = {}, stopping' = FALSE,
         Break(r)
  PROVE  Core' /\ wstate' = "BROKEN"
<1>1. /\ wstate' = "BROKEN" /\ pending' = <<>> /\ row' = r
      /\ NoRun /\ UNCHANGED used
  BY DEF Break
<1>2. Waiting(<<>>, r, fired') /\ <<>> \in Seq(Wakes)
  BY WaitingEmpty
<1>3. CoreTyped'
  BY <1>1, <1>2 DEF CoreTyped, WriterState, NoRun
<1>4. RowsFired'
  BY <1>1 DEF RowsFired
<1>5. Idle'
  BY <1>1, <1>2 DEF Idle, NoRun, RunningRows, Waiting
<1> QED
  BY <1>1, <1>3, <1>4, <1>5 DEF Core

\* The run's variables say that nothing runs.
NothingRuns ==
  /\ run = NoWake
  /\ childAlive = FALSE /\ killArmed = FALSE /\ sleepHeld = FALSE
  /\ stopping = FALSE /\ timedOut = FALSE /\ apiErr = FALSE

\* Serving a waiting queue in a session starts at most its head.
LEMMA ServeCore ==
  ASSUME NEW q, NEW p, NEW c, NEW busy,
         row \in [Wakes -> Row],
         fired' \in 0 .. MaxWakes,
         Waiting(q, row, fired'),
         \A v \in Wakes : row[v] # "none" => v <= fired',
         live \subseteq Wakes, RunningRows(row) = live,
         used' \in Nat,
         wstate' = "INTERACTIVE_RUNNING", NothingRuns',
         Serve(q, p, c, busy)
  PROVE  Core'
<1>1. CASE /\ q # <<>>
           /\ pending' = Tail(q)
           /\ live' = live \cup {Head(q)}
           /\ row' = Started(row, Head(q))
  <2> DEFINE h == Head(q)
  <2>1. /\ Waiting(Tail(q), Started(row, h), fired')
        /\ h \in Wakes /\ h <= fired'
    BY <1>1, WaitingStart
  <2>2. /\ Started(row, h) \in [Wakes -> Row]
        /\ \A v \in Wakes \ {h} : Started(row, h)[v] = row[v]
        /\ RunningRows(Started(row, h)) = live \cup {h}
    BY <2>1, StartedFacts
  <2>3. Tail(q) \in Seq(Wakes)
    BY <2>1 DEF Waiting
  <2>4. CoreTyped'
    BY <1>1, <2>1, <2>2, <2>3 DEF CoreTyped, WriterState, NothingRuns
  <2>5. RowsFired'
    BY <1>1, <2>1, <2>2 DEF RowsFired
  <2>6. Idle'
    BY <1>1, <2>1, <2>2 DEF Idle, NothingRuns, RunningRows, Waiting
  <2> QED
    BY <2>4, <2>5, <2>6 DEF Core
<1>2. CASE pending' = q /\ UNCHANGED <<live, row>>
  <2>1. q \in Seq(Wakes)
    BY DEF Waiting
  <2>2. CoreTyped'
    BY <1>2, <2>1 DEF CoreTyped, WriterState, NothingRuns
  <2>3. RowsFired'
    BY <1>2 DEF RowsFired
  <2>4. Idle'
    BY <1>2 DEF Idle, NothingRuns, RunningRows, Waiting
  <2> QED
    BY <2>2, <2>3, <2>4 DEF Core
<1> QED
  BY <1>1, <1>2 DEF Serve

-----------------------------------------------------------------------------
(* The inductive step, action by action.                                     *)

\* In an idle writer the rows that run are the session's.
LEMMA IdleFacts ==
  ASSUME Core, wstate # "HEADLESS_RUNNING"
  PROVE  Idle /\ NothingRuns
BY DEF Core, HeadlessRun, Idle, NothingRuns

LEMMA InitCore ==
  ASSUME Init
  PROVE  IInv
<1>1. Waiting(<<>>, row, fired) /\ <<>> \in Seq(Wakes)
  BY WaitingEmpty
<1>2. "none" \in Row /\ "none" # "running"
  BY DEF Row
<1>3. row \in [Wakes -> Row] /\ RunningRows(row) = {} /\ RowsFired
  BY <1>2 DEF Init, RunningRows, RowsFired
<1>4. CoreTyped
  <2>1. fired \in 0 .. MaxWakes /\ used \in Nat
    BY MaxWakesAssumption DEF Init
  <2>2. /\ wstate \in WriterState /\ pending \in Seq(Wakes)
        /\ live \subseteq Wakes /\ run \in Wakes \cup {NoWake}
    BY <1>1 DEF Init, WriterState
  <2> QED
    BY <1>3, <2>1, <2>2 DEF Init, CoreTyped
<1>5. Idle
  BY <1>1, <1>3 DEF Init, Idle
<1>6. flight \in [Pushes -> Wakes \cup {NoWake}]
  BY DEF Init
<1>7. Others
  <2>1. resumeFails \in 0 .. MaxResumeFails /\ resumeFails < MaxResumeFails
    BY MaxResumeFailsAssumption DEF Init
  <2>2. OthersTyped
    BY <1>6, <2>1 DEF Init, OthersTyped, PollOwner
  <2> QED
    BY <2>1, <2>2 DEF Init, Others
<1> QED
  BY <1>3, <1>4, <1>5, <1>7 DEF IInv, Core

\* A fired wake joins the back of the queue, whatever the writer is doing.
LEMMA FireCore ==
  ASSUME Core, Fire
  PROVE  Core'
<1> DEFINE q == Enqueued(pending, fired + 1)
<1>1. /\ fired' = fired + 1 /\ fired + 1 \in Wakes /\ fired \in Nat
      /\ fired' \in 0 .. MaxWakes
      /\ row \in [Wakes -> Row] /\ live \subseteq Wakes /\ used \in Nat
      /\ pending \in Seq(Wakes)
      /\ \A v \in Wakes : row[v] # "none" => v <= fired
      /\ UNCHANGED stopping
  BY MaxWakesAssumption DEF Core, CoreTyped, RowsFired, Fire, Wakes
<1>2. \A v \in Wakes : row[v] # "none" => v <= fired'
  BY <1>1 DEF Wakes
<1>3. CASE wstate # "HEADLESS_RUNNING"
  <2>1. Idle /\ NothingRuns
    BY <1>3, IdleFacts
  <2>2. Waiting(q, row, fired')
    BY <2>1, <1>1, WaitingEnqueue DEF Idle
  <2>3. CASE wstate = "OFFLINE"
    <3>1. OfflineAndDrain(q, row) /\ UNCHANGED live
      BY <2>3 DEF Fire
    <3>2. live = {} /\ RunningRows(row) = {} /\ stopping' = FALSE
      BY <2>1, <2>3, <1>1 DEF Idle
    <3> QED
      BY <3>1, <3>2, <2>2, <1>1, <1>2, DrainCore
  <2>4. CASE wstate = "INTERACTIVE_RUNNING"
    <3>1. /\ Serve(q, poll, push, pushBusy)
          /\ wstate' = "INTERACTIVE_RUNNING" /\ used' \in Nat /\ NothingRuns'
      BY <2>1, <2>4, <1>1 DEF Fire, runVars, NothingRuns
    <3>2. RunningRows(row) = live
      BY <2>1 DEF Idle
    <3> QED
      BY <3>1, <3>2, <2>2, <1>1, <1>2, ServeCore
  <2> QED
    BY <1>3, <2>3, <2>4 DEF Fire
<1>4. CASE wstate = "HEADLESS_RUNNING"
  <2>1. HeadlessRun
    BY <1>4 DEF Core, Idle
  <2>2. /\ pending' = q
        /\ UNCHANGED <<wstate, live, row, runVars, used, stopping>>
    BY <1>4 DEF Fire
  <2>3. q \in Seq(Wakes)
    BY <1>1 DEF Enqueued
  <2>4. CoreTyped'
    BY <2>2, <2>3, <1>1 DEF Core, CoreTyped, runVars
  <2>5. RowsFired'
    BY <2>2, <1>2 DEF RowsFired
  <2>6. CASE stopping = TRUE
    <3>1. Waiting(q, row, fired')
      BY <2>1, <2>6, <1>1, WaitingEnqueue DEF HeadlessRun
    <3>2. HeadlessRun'
      BY <2>1, <2>2, <2>6, <3>1 DEF HeadlessRun, runVars
    <3> QED
      BY <2>4, <2>5, <3>2 DEF Core
  <2>7. CASE stopping # TRUE
    <3>1. /\ Waiting(Tail(pending), row, fired)
          /\ pending # <<>> /\ Head(pending) = run /\ killArmed # timedOut
      BY <2>1, <2>7 DEF HeadlessRun
    <3>2. Waiting(Enqueued(Tail(pending), fired + 1), row, fired')
      BY <3>1, <1>1, WaitingEnqueue
    <3>3. Head(q) = Head(pending) /\ Tail(q) = Enqueued(Tail(pending), fired + 1) /\ q # <<>>
      BY <3>1, <1>1, HeadTailAppend, AppendProperties DEF Enqueued
    <3>4. HeadlessRun'
      BY <2>1, <2>2, <2>7, <3>1, <3>2, <3>3 DEF HeadlessRun, runVars
    <3> QED
      BY <2>4, <2>5, <3>4 DEF Core
  <2> QED
    BY <2>6, <2>7
<1> QED
  BY <1>3, <1>4

\* Steps that leave the queue, the rows and the run alone.
LEMMA CoreUnchanged ==
  ASSUME Core,
         UNCHANGED <<wstate, queueVars, runVars, stopping, fired>>,
         used' \in Nat
  PROVE  Core'
<1>1. UNCHANGED <<wstate, pending, live, row, run, childAlive, killArmed,
                  timedOut, apiErr, sleepHeld, stopping, fired>>
  BY DEF queueVars, runVars
<1>2. CoreTyped'
  BY <1>1 DEF Core, CoreTyped
<1>3. RowsFired'
  BY <1>1 DEF Core, RowsFired
<1>4. Idle' \/ HeadlessRun'
  BY <1>1 DEF Core, Idle, HeadlessRun
<1> QED
  BY <1>2, <1>3, <1>4 DEF Core

\* Serving the queue a session already has.
LEMMA ServeNowCore ==
  ASSUME Core, wstate # "HEADLESS_RUNNING", NEW p, NEW c, NEW busy,
         Serve(pending, p, c, busy),
         wstate' = "INTERACTIVE_RUNNING",
         UNCHANGED <<runVars, stopping, used, fired>>
  PROVE  Core'
<1>1. Idle /\ NothingRuns
  BY IdleFacts
<1>2. /\ row \in [Wakes -> Row] /\ live \subseteq Wakes /\ used' \in Nat
      /\ fired' = fired /\ fired' \in 0 .. MaxWakes
      /\ \A v \in Wakes : row[v] # "none" => v <= fired
  BY DEF Core, CoreTyped, RowsFired
<1>3. NothingRuns'
  BY <1>1 DEF NothingRuns, runVars
<1>4. RunningRows(row) = live /\ Waiting(pending, row, fired)
  BY <1>1 DEF Idle
<1> QED
  BY <1>2, <1>3, <1>4, ServeCore

LEMMA OnInteractiveDownCore ==
  ASSUME Core, OnInteractiveDown
  PROVE  Core'
<1> DEFINE r == Settled(row, live, "stopped")
<1>1. Idle
  BY IdleFacts DEF OnInteractiveDown
<1>2. "stopped" \in Settlement /\ row \in [Wakes -> Row]
  BY DEF Settlement, Core, CoreTyped
<1>3. /\ r \in [Wakes -> Row]
      /\ \A v \in Wakes : r[v] = "none" <=> row[v] = "none"
      /\ RunningRows(r) = {}
  BY <1>1, <1>2, SettledFacts DEF Idle
<1>4. Waiting(pending, r, fired)
  BY <1>1, <1>3, WaitingRows DEF Idle
<1>5. /\ fired' = fired /\ fired' \in 0 .. MaxWakes
      /\ used \in Nat /\ live' = {} /\ stopping' = FALSE
      /\ \A v \in Wakes : r[v] # "none" => v <= fired
      /\ OfflineAndDrain(pending, r)
  BY <1>1, <1>3 DEF OnInteractiveDown, Core, CoreTyped, RowsFired, Idle
<1> QED
  BY <1>3, <1>4, <1>5, DrainCore
\* Waking the queue of a session, or leaving it alone.
LEMMA AwaitPollCore ==
  ASSUME Core, NEW owner, AwaitPoll(owner)
  PROVE  Core'
<1>1. used' \in Nat
  BY DEF Core, CoreTyped, AwaitPoll
<1>2. CASE wstate = "INTERACTIVE_RUNNING"
  BY <1>2, ServeNowCore DEF AwaitPoll
<1>3. CASE wstate # "INTERACTIVE_RUNNING"
  BY <1>1, <1>3, CoreUnchanged DEF AwaitPoll
<1> QED
  BY <1>2, <1>3

LEMMA OnInteractiveUpCore ==
  ASSUME Core, NEW c, OnInteractiveUp(c)
  PROVE  Core'
BY ServeNowCore DEF OnInteractiveUp

\* A Stop empties the queue and settles the live wakes; a run keeps its row.
LEMMA StopCore ==
  ASSUME Core, StopEffect
  PROVE  Core'
<1> DEFINE r == Settled(row, live, "stopped")
<1>1. "stopped" \in Settlement /\ row \in [Wakes -> Row]
  BY DEF Settlement, Core, CoreTyped
<1>2. /\ r \in [Wakes -> Row]
      /\ \A v \in Wakes : r[v] = "none" <=> row[v] = "none"
      /\ RunningRows(r) = RunningRows(row) \ live
  BY <1>1, SettledFacts
<1>3. Waiting(<<>>, r, fired) /\ <<>> \in Seq(Wakes)
  BY WaitingEmpty
<1>4. /\ pending' = <<>> /\ row' = r /\ live' = {}
      /\ UNCHANGED <<wstate, run, childAlive, apiErr, sleepHeld, used, fired>>
      /\ \/ /\ wstate = "HEADLESS_RUNNING"
            /\ stopping' = TRUE /\ timedOut' = FALSE /\ killArmed' = FALSE
         \/ /\ wstate # "HEADLESS_RUNNING"
            /\ UNCHANGED <<stopping, timedOut, killArmed>>
  BY DEF StopEffect, SettleLive
<1>5. CoreTyped'
  BY <1>2, <1>3, <1>4 DEF Core, CoreTyped
<1>6. RowsFired'
  BY <1>2, <1>4 DEF Core, RowsFired
<1>7. CASE wstate = "HEADLESS_RUNNING"
  <2>1. HeadlessRun
    BY <1>7 DEF Core, Idle
  <2>2. HeadlessRun'
    BY <1>2, <1>3, <1>4, <1>7, <2>1 DEF HeadlessRun
  <2> QED
    BY <1>5, <1>6, <2>2 DEF Core
<1>8. CASE wstate # "HEADLESS_RUNNING"
  <2>1. Idle
    BY <1>8, IdleFacts
  <2>2. Idle'
    BY <1>2, <1>3, <1>4, <1>8, <2>1 DEF Idle
  <2> QED
    BY <1>5, <1>6, <2>2 DEF Core
<1> QED
  BY <1>7, <1>8

\* A push promise delivers the head into the live session, or nothing.
LEMMA PushSettledCore ==
  ASSUME Core, Others, NEW c \in Pushes, NEW ok, PushSettled(c, ok)
  PROVE  Core'
<1> DEFINE head == flight[c]
           mine == pending # <<>> /\ Head(pending) = head
<1>1. used' \in Nat /\ UNCHANGED <<wstate, runVars, stopping, used, fired>>
  BY DEF Core, CoreTyped, PushSettled
<1>2. CASE UNCHANGED queueVars
  BY <1>1, <1>2, CoreUnchanged
<1>3. CASE /\ push = c /\ mine
           /\ pending' = Tail(pending)
           /\ live' = live \cup {head}
           /\ row' = Started(row, head)
  <2>1. wstate = "INTERACTIVE_RUNNING"
    BY <1>3, PushesAssumption DEF Others
  <2>2. Idle
    BY <2>1, IdleFacts
  <2>3. /\ Waiting(Tail(pending), Started(row, head), fired)
        /\ head \in Wakes /\ head <= fired
    BY <1>3, <2>2, WaitingStart DEF Idle, Core, CoreTyped
  <2>4. /\ Started(row, head) \in [Wakes -> Row]
        /\ \A v \in Wakes \ {head} : Started(row, head)[v] = row[v]
        /\ RunningRows(Started(row, head)) = live \cup {head}
    BY <2>2, <2>3, StartedFacts DEF Core, CoreTyped, Idle
  <2>5. Tail(pending) \in Seq(Wakes)
    BY <2>3 DEF Waiting
  <2>6. UNCHANGED <<wstate, run, childAlive, killArmed, timedOut, apiErr,
                    sleepHeld, stopping, used, fired>>
    BY <1>1 DEF runVars
  <2>7. CoreTyped'
    BY <1>3, <2>3, <2>4, <2>5, <2>6 DEF Core, CoreTyped
  <2>8. RowsFired'
    BY <1>3, <2>3, <2>4, <2>6 DEF Core, RowsFired
  <2>9. Idle'
    BY <1>3, <2>1, <2>2, <2>3, <2>4, <2>6 DEF Idle
  <2> QED
    BY <2>7, <2>8, <2>9 DEF Core
<1> QED
  BY <1>2, <1>3 DEF PushSettled, queueVars

LEMMA PushRetryCore ==
  ASSUME Core, Others, PushRetry
  PROVE  Core'
<1>1. wstate = "INTERACTIVE_RUNNING"
  BY DEF Others, OthersTyped, PushRetry
<1> QED
  BY <1>1, ServeNowCore DEF PushRetry

\* Only a run has a kill timer; firing it replaces the timer by the signal.
LEMMA KillTimerFiresCore ==
  ASSUME Core, KillTimerFires
  PROVE  Core'
<1>1. /\ killArmed = TRUE /\ killArmed' = FALSE /\ timedOut' = TRUE
      /\ UNCHANGED <<wstate, pending, live, row, run, childAlive, apiErr,
                     sleepHeld, stopping, used, fired>>
  BY DEF Core, CoreTyped, KillTimerFires, queueVars
<1>2. HeadlessRun
  BY <1>1 DEF Core, Idle
<1>3. CoreTyped'
  BY <1>1 DEF Core, CoreTyped
<1>4. RowsFired'
  BY <1>1 DEF Core, RowsFired
<1>5. HeadlessRun'
  BY <1>1, <1>2 DEF HeadlessRun
<1> QED
  BY <1>3, <1>4, <1>5 DEF Core
\* A child's exit settles its row, whatever the reason.
LEMMA ExitOutcomeSettles ==
  ASSUME stopping \in BOOLEAN, timedOut \in BOOLEAN, NEW reason \in ExitReason
  PROVE  ExitOutcome(reason) \in Settlement
BY DEF ExitOutcome, ExitReason, Settlement, Failure, Killed

\* The head leaves with its child; what queued behind it is drained or dropped.
LEMMA HeadlessExitedCore ==
  ASSUME Core, Others, NEW reason \in ExitReason, HeadlessExited(reason)
  PROVE  /\ Core'
         /\ Others'
<1> DEFINE r == Settled(row, {run}, ExitOutcome(reason))
<1>1. /\ row \in [Wakes -> Row] /\ used \in Nat /\ fired \in 0 .. MaxWakes
      /\ stopping \in BOOLEAN /\ timedOut \in BOOLEAN /\ childAlive = TRUE
      /\ \A v \in Wakes : row[v] # "none" => v <= fired
  BY DEF Core, CoreTyped, RowsFired, HeadlessExited
<1>2. HeadlessRun
  BY <1>1 DEF Core, Idle
<1>3. /\ r \in [Wakes -> Row]
      /\ \A v \in Wakes : r[v] = "none" <=> row[v] = "none"
      /\ RunningRows(r) = {}
  BY <1>1, <1>2, ExitOutcomeSettles, SettledFacts DEF HeadlessRun
<1>4. Waiting(Shift(pending), row, fired)
  <2>1. CASE stopping = TRUE
    <3>1. Waiting(pending, row, fired)
      BY <2>1, <1>2 DEF HeadlessRun
    <3> QED
      BY <3>1, WaitingTail DEF Shift
  <2>2. CASE stopping # TRUE
    BY <2>2, <1>2 DEF HeadlessRun, Shift
  <2> QED
    BY <2>1, <2>2
<1>5. Waiting(Shift(pending), r, fired)
  BY <1>3, <1>4, WaitingRows
<1>6. /\ stopping' = FALSE /\ fired' = fired /\ live' = {}
      /\ fired' \in 0 .. MaxWakes
      /\ \A v \in Wakes : r[v] # "none" => v <= fired
  BY <1>1, <1>2, <1>3 DEF HeadlessExited, HeadlessRun
<1>7. /\ push = NoPush /\ retryArmed = FALSE
      /\ resumeFails \in Nat /\ resumeFails < MaxResumeFails
  BY <1>2, MaxResumeFailsAssumption DEF Others, OthersTyped, HeadlessRun
<1>8. CASE /\ OfflineAndDrain(Shift(pending), r)
           /\ resumeFails' \in Nat /\ resumeFails' < MaxResumeFails
  <2>1. Core' /\ wstate' \in {"OFFLINE", "HEADLESS_RUNNING"}
    BY <1>1, <1>3, <1>5, <1>6, <1>8, DrainCore
  <2>2. Others'
    BY <2>1, <1>7, <1>8, MaxResumeFailsAssumption
    DEF Others, OthersTyped, HeadlessExited, pushVars, settingVars
  <2> QED
    BY <2>1, <2>2
<1>9. CASE /\ Break(r)
           /\ resumeFails' \in 0 .. MaxResumeFails
  <2>1. Core' /\ wstate' = "BROKEN"
    BY <1>1, <1>3, <1>6, <1>9, BreakCore
  <2>2. Others'
    BY <2>1, <1>7, <1>9
    DEF Others, OthersTyped, HeadlessExited, pushVars, settingVars
  <2> QED
    BY <2>1, <2>2
<1> QED
  <2>1. CASE (Killed \/ reason = "ok") /\ resumeFails' = 0
             /\ OfflineAndDrain(Shift(pending), r)
    BY <2>1, <1>8, MaxResumeFailsAssumption
  <2>2. CASE /\ resumeFails' = resumeFails + 1
             /\ IF Unresumable(resumeFails')
                THEN Break(r) ELSE OfflineAndDrain(Shift(pending), r)
    BY <2>2, <1>7, <1>8, <1>9, MaxResumeFailsAssumption DEF Unresumable
  <2>3. CASE Break(r) /\ UNCHANGED resumeFails
    BY <2>3, <1>7, <1>9, MaxResumeFailsAssumption
  <2> QED
    BY <2>1, <2>2, <2>3 DEF HeadlessExited

\* The turn hooks settle what is live; a headless child's hook finds nothing.
LEMMA TurnHookCore ==
  ASSUME Core, NEW outcome \in Settlement, SettleLive(outcome),
         UNCHANGED <<wstate, pending, run, childAlive, killArmed, timedOut,
                     sleepHeld, stopping, used, fired>>,
         apiErr' = apiErr \/ (apiErr' = TRUE /\ wstate = "HEADLESS_RUNNING")
  PROVE  Core'
<1> DEFINE r == Settled(row, live, outcome)
<1>1. row \in [Wakes -> Row] /\ row' = r /\ live' = {}
  BY DEF Core, CoreTyped, SettleLive
<1>2. /\ r \in [Wakes -> Row]
      /\ \A v \in Wakes : r[v] = "none" <=> row[v] = "none"
      /\ RunningRows(r) = RunningRows(row) \ live
  BY <1>1, SettledFacts
<1>3. CoreTyped'
  BY <1>1, <1>2 DEF Core, CoreTyped
<1>4. RowsFired'
  BY <1>1, <1>2 DEF Core, RowsFired
<1>5. CASE Idle
  <2>1. Waiting(pending, r, fired)
    BY <1>2, <1>5, WaitingRows DEF Idle
  <2>2. Idle'
    BY <1>1, <1>2, <1>5, <2>1 DEF Idle
  <2> QED
    BY <1>3, <1>4, <2>2 DEF Core
<1>6. CASE HeadlessRun
  <2>1. \A q : Waiting(q, row, fired) => Waiting(q, r, fired)
    BY <1>2, WaitingRows
  <2>2. HeadlessRun'
    BY <1>1, <1>2, <1>6, <2>1 DEF HeadlessRun
  <2> QED
    BY <1>3, <1>4, <2>2 DEF Core
<1> QED
  BY <1>5, <1>6 DEF Core

\* A new host starts with nothing but the History rows.
LEMMA HostRestartCore ==
  ASSUME Core, HostRestart
  PROVE  Core'
<1> DEFINE r == Settled(row, Wakes, "stopped")
<1>1. "stopped" \in Settlement /\ row \in [Wakes -> Row]
  BY DEF Settlement, Core, CoreTyped
<1>2. /\ r \in [Wakes -> Row]
      /\ \A v \in Wakes : r[v] = "none" <=> row[v] = "none"
      /\ RunningRows(r) = {}
  BY <1>1, SettledFacts DEF RunningRows
<1>3. Waiting(<<>>, r, fired) /\ <<>> \in Seq(Wakes)
  BY WaitingEmpty
<1>4. /\ wstate' \in {"OFFLINE", "BROKEN"}
      /\ row' = r /\ pending' = <<>> /\ live' = {} /\ NothingRuns'
      /\ UNCHANGED <<used, fired>>
  BY DEF HostRestart, NoRun, NothingRuns
<1>5. CoreTyped'
  BY <1>2, <1>3, <1>4 DEF Core, CoreTyped, WriterState, NothingRuns
<1>6. RowsFired'
  BY <1>2, <1>4 DEF Core, RowsFired
<1>7. Idle'
  BY <1>2, <1>3, <1>4 DEF Idle, NothingRuns
<1> QED
  BY <1>5, <1>6, <1>7 DEF Core
\* The push transport is set up and torn down with the session.
LEMMA OthersStep ==
  ASSUME Core, Others, [Next]_vars
  PROVE  Others'
<1> USE DEF Others, OthersTyped, PollOwner
<1>0. 0 \in 0 .. MaxResumeFails /\ 0 < MaxResumeFails
  BY MaxResumeFailsAssumption
<1>1. CASE Fire
  <2>1. CASE wstate = "INTERACTIVE_RUNNING"
    <3>1. flight' \in [Pushes -> Wakes \cup {NoWake}]
      <4>1. Enqueued(pending, fired + 1) # <<>> =>
              Head(Enqueued(pending, fired + 1)) \in Wakes
        <5>1. Enqueued(pending, fired + 1) \in Seq(Wakes)
          BY <1>1, MaxWakesAssumption DEF Fire, Enqueued, Core, CoreTyped, Wakes
        <5> QED
          BY <5>1, TailFacts
      <4> QED
        BY <1>1, <2>1, <4>1 DEF Fire, Serve
    <3>2. poll' \in PollOwner /\ pushBusy' \in BOOLEAN /\ wstate' = wstate
      BY <1>1, <2>1 DEF Fire, Serve
    <3> QED
      BY <1>1, <2>1, <3>1, <3>2 DEF Fire, settingVars
  <2>2. CASE wstate # "INTERACTIVE_RUNNING"
    <3>1. /\ push = NoPush /\ retryArmed = FALSE
          /\ UNCHANGED <<poll, pushBusy, flight, push, retryArmed, resumeFails,
                         harness, featureOn, agentLimit, gone>>
      BY <1>1, <2>2 DEF Fire, settingVars
    <3>2. wstate # "BROKEN" /\ resumeFails < MaxResumeFails
      BY <1>1 DEF Fire, WouldDropWake
    <3> QED
      BY <3>1, <3>2
  <2> QED
    BY <2>1, <2>2
<1>2. ASSUME NEW owner \in {"session", "child"}, AwaitPoll(owner)
      PROVE  Others'
  <2>1. flight' \in [Pushes -> Wakes \cup {NoWake}]
    BY <1>2, TailFacts DEF AwaitPoll, Serve, Core, CoreTyped
  <2>2. poll' \in PollOwner /\ pushBusy' \in BOOLEAN
    BY <1>2 DEF AwaitPoll, Serve
  <2> QED
    BY <1>2, <2>1, <2>2 DEF AwaitPoll, settingVars
<1>3. CASE PollEnds
  BY <1>3 DEF PollEnds, pushVars, settingVars
<1>4. ASSUME NEW c \in Pushes \cup {NoPush}, OnInteractiveUp(c)
      PROVE  Others'
  <2>1. flight' \in [Pushes -> Wakes \cup {NoWake}]
    BY <1>4, TailFacts DEF OnInteractiveUp, Serve, Core, CoreTyped
  <2>2. poll' \in PollOwner /\ pushBusy' \in BOOLEAN
    BY <1>4 DEF OnInteractiveUp, Serve, Orphaned
  <2>3. /\ wstate' = "INTERACTIVE_RUNNING" /\ push' = c
        /\ retryArmed' = FALSE /\ resumeFails' = 0
        /\ UNCHANGED settingVars /\ UNCHANGED gone
    BY <1>4 DEF OnInteractiveUp
  <2> QED
    BY <1>0, <1>4, <2>1, <2>2, <2>3 DEF settingVars
<1>5. CASE OnInteractiveDown
  <2>1. wstate' \in {"OFFLINE", "HEADLESS_RUNNING"}
    BY <1>5 DEF OnInteractiveDown, OfflineAndDrain, StartHeadless
  <2> QED
    BY <1>5, <2>1 DEF OnInteractiveDown, settingVars, Orphaned
<1>6. ASSUME StopEffect, gone' \in BOOLEAN
      PROVE  Others'
  BY <1>6 DEF StopEffect, pushVars, settingVars
<1>7. CASE UserStop
  BY <1>6, <1>7 DEF UserStop
<1>8. CASE Archive
  BY <1>6, <1>8 DEF Archive
<1>9. ASSUME NEW c \in Pushes, NEW ok \in BOOLEAN, PushSettled(c, ok)
      PROVE  Others'
  <2>1. push = c => wstate = "INTERACTIVE_RUNNING"
    BY PushesAssumption
  <2>2. flight' \in [Pushes -> Wakes \cup {NoWake}]
    <3>1. \A q \in Seq(Wakes) : q # <<>> => Head(q) \in Wakes /\ Tail(q) \in Seq(Wakes)
      BY TailFacts
    <3> QED
      BY <1>9, <3>1 DEF PushSettled, Core, CoreTyped
  <2>3. pushBusy' \in BOOLEAN /\ retryArmed' \in BOOLEAN
    BY <1>9 DEF PushSettled
  <2> QED
    BY <1>9, <2>1, <2>2, <2>3 DEF PushSettled, settingVars
<1>10. CASE PushRetry
  <2>1. flight' \in [Pushes -> Wakes \cup {NoWake}]
    BY <1>10, TailFacts DEF PushRetry, Serve, Core, CoreTyped
  <2>2. poll' \in PollOwner /\ pushBusy' \in BOOLEAN
    BY <1>10 DEF PushRetry, Serve
  <2> QED
    BY <1>10, <2>1, <2>2 DEF PushRetry, settingVars
<1>11. CASE KillTimerFires
  BY <1>11 DEF KillTimerFires, pushVars, settingVars
<1>12. ASSUME NEW reason \in ExitReason, HeadlessExited(reason)
       PROVE  Others'
  BY <1>12, HeadlessExitedCore
<1>13. CASE OnTurnEnded
  BY <1>13 DEF OnTurnEnded, pushVars, settingVars
<1>14. CASE OnTurnFailed
  BY <1>14 DEF OnTurnFailed, pushVars, settingVars
<1>15. CASE ResetTurnLimit \/ ToggleAgentLimit \/ ToggleFeature
  <2>1. featureOn' \in BOOLEAN /\ agentLimit' \in BOOLEAN
    BY <1>15 DEF ResetTurnLimit, ToggleAgentLimit, ToggleFeature, settingVars
  <2>2. UNCHANGED <<wstate, poll, pushVars, resumeFails, harness, gone>>
    BY <1>15 DEF ResetTurnLimit, ToggleAgentLimit, ToggleFeature, settingVars
  <2> QED
    BY <2>1, <2>2 DEF pushVars
<1>16. CASE HostRestart
  <2>1. flight' \in [Pushes -> Wakes \cup {NoWake}]
    BY <1>16 DEF HostRestart
  <2>2. /\ poll' = "none" /\ push' = NoPush /\ pushBusy' = FALSE
        /\ retryArmed' = FALSE /\ resumeFails' = 0
        /\ UNCHANGED settingVars /\ UNCHANGED gone
    BY <1>16 DEF HostRestart
  <2> QED
    BY <1>0, <2>1, <2>2 DEF settingVars
<1>17. CASE UNCHANGED vars
  BY <1>17 DEF vars, pushVars, settingVars
<1> QED
  BY <1>1, <1>2, <1>3, <1>4, <1>5, <1>7, <1>8, <1>9, <1>10, <1>11, <1>12, <1>13,
     <1>14, <1>15, <1>16, <1>17 DEF Next

\* Every action keeps the core of the invariant.
LEMMA CoreStep ==
  ASSUME Core, Others, [Next]_vars
  PROVE  Core'
<1>1. used \in Nat
  BY DEF Core, CoreTyped
<1>2. CASE PollEnds \/ ResetTurnLimit \/ ToggleAgentLimit \/ ToggleFeature \/ UNCHANGED vars
  BY <1>1, <1>2, CoreUnchanged
  DEF PollEnds, ResetTurnLimit, ToggleAgentLimit, ToggleFeature, vars
<1>3. CASE OnTurnEnded
  <2>1. "succeeded" \in Settlement
    BY DEF Settlement
  <2> QED
    BY <1>3, <2>1, TurnHookCore DEF OnTurnEnded, runVars
<1>4. CASE OnTurnFailed
  <2>1. "api_error" \in Settlement
    BY DEF Settlement, Failure
  <2>2. apiErr \in BOOLEAN /\ (apiErr' = apiErr \/ (apiErr' = TRUE /\ wstate = "HEADLESS_RUNNING"))
    BY <1>4 DEF OnTurnFailed, Core, CoreTyped
  <2> QED
    BY <1>4, <2>1, <2>2, TurnHookCore DEF OnTurnFailed
<1>5. CASE UserStop \/ Archive
  BY <1>5, StopCore DEF UserStop, Archive
<1> QED
  BY <1>2, <1>3, <1>4, <1>5, FireCore, AwaitPollCore, OnInteractiveUpCore,
     OnInteractiveDownCore, PushSettledCore, PushRetryCore, KillTimerFiresCore,
     HeadlessExitedCore, HostRestartCore DEF Next
-----------------------------------------------------------------------------
(* The theorems.                                                             *)

\* The inductive invariant holds in every behaviour of the writer.
THEOREM Inductive == Spec => []IInv
<1>1. Init => IInv
  BY InitCore
<1>2. IInv /\ [Next]_vars => IInv'
  BY CoreStep, OthersStep DEF IInv
<1> QED
  BY <1>1, <1>2, PTL DEF Spec

\* The writer's fields are well typed: in particular the streak of resume
\* failures never passes MAX_RESUME_FAILS (AgentWriter.headlessExited).
THEOREM TypeCorrect == Spec => []TypeOK
<1>1. IInv => TypeOK
  BY DEF IInv, Core, CoreTyped, Others, OthersTyped, TypeOK
<1> QED
  BY <1>1, Inductive, PTL

\* The invariant puts the queue in firing order.
LEMMA InOrder == IInv => FifoOrder
<1> SUFFICES ASSUME IInv PROVE FifoOrder
  OBVIOUS
<1>1. pending \in Seq(Wakes) /\ DOMAIN pending = 1 .. Len(pending)
  BY DEF IInv, Core, CoreTyped
<1>2. CASE Waiting(pending, row, fired)
  BY <1>1, <1>2 DEF FifoOrder, Queued, Waiting
<1>3. CASE /\ HeadlessRun /\ pending # <<>> /\ Head(pending) = run
           /\ Waiting(Tail(pending), row, fired)
  <2>1. /\ Len(pending) \in Nat
        /\ Len(Tail(pending)) = Len(pending) - 1
        /\ \A i \in 1 .. Len(Tail(pending)) : Tail(pending)[i] = pending[i + 1]
        /\ pending[1] = run
    BY <1>1, <1>3, TailFacts
  <2>2. row[run] = "running" /\ run \in Wakes
    BY <1>3 DEF HeadlessRun, RunningRows
  <2>3. ASSUME NEW j \in 1 .. Len(pending), j # 1
        PROVE  /\ j - 1 \in 1 .. Len(Tail(pending))
               /\ pending[j] = Tail(pending)[j - 1]
               /\ row[pending[j]] = "none"
               /\ \A v \in Wakes : row[v] # "none" => v < pending[j]
               /\ run < pending[j]
    <3>1. j - 1 \in 1 .. Len(Tail(pending)) /\ pending[j] = Tail(pending)[j - 1]
      BY <2>1, <2>3
    <3> QED
      BY <1>3, <2>2, <3>1 DEF Waiting
  <2>4. ASSUME NEW i \in 1 .. Len(pending), NEW j \in 1 .. Len(pending), i < j
        PROVE  pending[i] < pending[j]
    <3>1. j # 1
      BY <2>4
    <3>2. CASE i = 1
      BY <2>1, <2>3, <3>1, <3>2
    <3>3. CASE i # 1
      <4>1. i - 1 < j - 1
        BY <2>4
      <4> QED
        BY <1>3, <2>3, <3>1, <3>3, <4>1 DEF Waiting
    <3> QED
      BY <3>2, <3>3
  <2>5. ASSUME NEW w \in Queued \ {run}
        PROVE  row[w] = "none" /\ \A v \in Wakes : row[v] # "none" => v < w
    <3>1. PICK j \in 1 .. Len(pending) : pending[j] = w
      BY <1>1 DEF Queued
    <3> QED
      BY <2>1, <2>3, <3>1
  <2> QED
    BY <1>1, <2>4, <2>5 DEF FifoOrder
<1> QED
  BY <1>2, <1>3 DEF IInv, Core, Idle, HeadlessRun

\* Wakes are delivered in the order they fired, whatever mixture of headless
\* runs, channel polls and pushes drains the queue.
THEOREM Fifo == Spec => []FifoOrder
BY InOrder, Inductive, PTL

\* The invariant gives every running row its owner.
LEMMA Owned == IInv => RunningRowsOwned
<1> SUFFICES ASSUME IInv PROVE RunningRowsOwned
  OBVIOUS
<1>1. CASE Idle
  <2>1. live \subseteq Wakes /\ NoWake \notin Wakes
    BY DEF IInv, Core, CoreTyped, Wakes, NoWake
  <2> QED
    BY <1>1, <2>1 DEF RunningRowsOwned, Idle, RunningRows
<1>2. CASE HeadlessRun
  <2>1. run # NoWake
    BY <1>2 DEF HeadlessRun, Wakes, NoWake
  <2> QED
    BY <1>2, <2>1 DEF RunningRowsOwned, HeadlessRun, RunningRows
<1> QED
  BY <1>1, <1>2 DEF IInv, Core

\* Every `running' History row has exactly one owner that will settle it, so
\* wakeFinished is called exactly once per wakeStarted.
THEOREM RowsOwned == Spec => []RunningRowsOwned
BY Owned, Inductive, PTL

\* A crash mid-run never loses the head: it is in the queue until its child
\* exits, unless a Stop emptied the queue, and then it is not queued again.
THEOREM HeadHeld == Spec => []HeadHeldUntilExit
<1>1. IInv => HeadHeldUntilExit
  <2> SUFFICES ASSUME IInv, wstate = "HEADLESS_RUNNING"
               PROVE  IF stopping THEN run \notin Queued
                      ELSE pending # <<>> /\ Head(pending) = run
    BY DEF HeadHeldUntilExit
  <2>1. HeadlessRun /\ stopping \in BOOLEAN /\ pending \in Seq(Wakes)
    BY DEF IInv, Core, CoreTyped, Idle
  <2>2. CASE stopping = TRUE
    <3>1. Waiting(pending, row, fired) /\ row[run] = "running"
      BY <2>1, <2>2 DEF HeadlessRun, RunningRows
    <3>2. run \notin Queued
      BY <2>1, <3>1 DEF Queued, Waiting
    <3> QED
      BY <2>2, <3>2
  <2>3. CASE stopping = FALSE
    BY <2>1, <2>3 DEF HeadlessRun
  <2> QED
    BY <2>1, <2>2, <2>3
<1> QED
  BY <1>1, Inductive, PTL

\* A headless run is bounded by its kill timer or by a signal already sent, and
\* no flag of one run survives into the next.
THEOREM Supervised == Spec => []RunSupervised
<1>1. IInv => RunSupervised
  <2> SUFFICES ASSUME IInv PROVE RunSupervised
    OBVIOUS
  <2>1. /\ killArmed \in BOOLEAN /\ timedOut \in BOOLEAN /\ stopping \in BOOLEAN
    BY DEF IInv, Core, CoreTyped
  <2>2. CASE Idle
    BY <2>2 DEF RunSupervised, Idle
  <2>3. CASE HeadlessRun
    BY <2>1, <2>3 DEF RunSupervised, HeadlessRun
  <2> QED
    BY <2>2, <2>3 DEF IInv, Core
<1> QED
  BY <1>1, Inductive, PTL

\* The queue keeps its order and its head (enqueue, headlessExited, stop).
THEOREM OrderKept == Spec => []QueueOrder
BY Fifo, HeadHeld, PTL DEF QueueOrder

\* Every run and every running History row has one owner (startHeadless,
\* headlessExited, settleLive, armKillTimer).
THEOREM OwnersKept == Spec => []RunsOwned
BY RowsOwned, Supervised, PTL DEF RunsOwned

(***************************************************************************)
(* The second part: WakeWriter implements WakeLedger, and what it starts   *)
(* and gives up is justified.  It needs what drives the queue besides      *)
(* the invariant of the first part.                                        *)
(***************************************************************************)

-----------------------------------------------------------------------------
(* What drives the queue                                                     *)

(* A run has a child, a session of the channel is polled before anything waits, and
   one of the push transport has a promise outstanding or a retry armed. *)
Driven ==
  /\ wstate = "HEADLESS_RUNNING" => childAlive = TRUE \/ RunMayThrow
  /\ wstate = "INTERACTIVE_RUNNING" =>
       IF push = NoPush THEN pending # <<>> => poll = "none"
       ELSE IF pushBusy = TRUE THEN flight[push] # NoWake
       ELSE pending # <<>> => retryArmed = TRUE

(* An archived agent has nothing queued. *)
GoneEmpty == gone = TRUE => pending = <<>>

LInv == IInv /\ Driven /\ GoneEmpty

-----------------------------------------------------------------------------
(* What one step does to the queue and the rows                              *)

Elements(q) == {q[i] : i \in DOMAIN q}

LEMMA ElementsFacts ==
  ASSUME NEW q \in Seq(Wakes)
  PROVE  /\ Elements(q) \subseteq Wakes
         /\ q # <<>> => /\ Head(q) \in Elements(q) /\ Elements(Tail(q)) \subseteq Elements(q)
                        /\ \A w \in Elements(q) : w = Head(q) \/ w \in Elements(Tail(q))
<1>1. DOMAIN q = 1 .. Len(q) /\ Elements(q) \subseteq Wakes
  BY DEF Elements
<1>2. ASSUME q # <<>>
      PROVE  /\ Head(q) \in Elements(q) /\ Elements(Tail(q)) \subseteq Elements(q)
             /\ \A w \in Elements(q) : w = Head(q) \/ w \in Elements(Tail(q))
  <2>1. /\ Tail(q) \in Seq(Wakes) /\ Len(q) \in Nat /\ Len(q) >= 1
        /\ Len(Tail(q)) = Len(q) - 1 /\ Head(q) = q[1]
        /\ \A i \in 1 .. Len(Tail(q)) : Tail(q)[i] = q[i + 1]
    BY <1>2, TailFacts
  <2>2. DOMAIN Tail(q) = 1 .. Len(Tail(q))
    BY <2>1
  <2>3. 1 \in 1 .. Len(q) /\ \A i \in 1 .. Len(Tail(q)) : i + 1 \in 1 .. Len(q)
    BY <2>1
  <2>4. \A i \in 1 .. Len(q) : i # 1 => i - 1 \in 1 .. Len(Tail(q)) /\ (i - 1) + 1 = i
    BY <2>1
  <2>5. Head(q) \in Elements(q) /\ Elements(Tail(q)) \subseteq Elements(q)
    BY <1>1, <2>1, <2>2, <2>3 DEF Elements
  <2>6. \A w \in Elements(q) : w = Head(q) \/ w \in Elements(Tail(q))
    <3> SUFFICES ASSUME NEW i \in 1 .. Len(q), i # 1 PROVE q[i] \in Elements(Tail(q))
      BY <1>1, <2>1 DEF Elements
    <3>1. i - 1 \in 1 .. Len(Tail(q)) /\ Tail(q)[i - 1] = q[i]
      BY <2>1, <2>4
    <3> QED
      BY <2>2, <3>1 DEF Elements
  <2> QED
    BY <2>5, <2>6
<1> QED
  BY <1>1, <1>2

LEMMA EnqueuedElements ==
  ASSUME NEW q \in Seq(Wakes), NEW w \in Wakes
  PROVE  Enqueued(q, w) \in Seq(Wakes) /\ Enqueued(q, w) # <<>> /\ Elements(Enqueued(q, w)) = Elements(q) \cup {w}
<1>1. /\ Append(q, w) \in Seq(Wakes) /\ Len(q) \in Nat /\ Len(Append(q, w)) = Len(q) + 1
      /\ \A i \in 1 .. Len(q) : Append(q, w)[i] = q[i]
      /\ Append(q, w)[Len(q) + 1] = w
  BY AppendProperties
<1>2. DOMAIN q = 1 .. Len(q) /\ DOMAIN Append(q, w) = 1 .. (Len(q) + 1)
  BY <1>1
<1>3. 1 .. (Len(q) + 1) = (1 .. Len(q)) \cup {Len(q) + 1}
  BY <1>1
<1> QED
  BY <1>1, <1>2, <1>3, AppendProperties DEF Elements, Enqueued

(* Rows r come from the writer's by settling some that run. *)
OnlySettled(r) ==
  \A w \in Wakes : r[w] = row[w] \/ (row[w] = "running" /\ r[w] \in Settlement)

LEMMA SettledOnly ==
  ASSUME row \in [Wakes -> Row], NEW S, NEW outcome \in Settlement
  PROVE  OnlySettled(Settled(row, S, outcome))
  BY DEF OnlySettled, Settled

(* From queue q and rows r the step takes nothing, serves the head in the session,
   starts a run for it, or drops the queue. *)
Rested(q, r) == pending' = q /\ row' = r /\ ~(used' > used)
Served(q, r) ==
  q # <<>> /\ pending' = Tail(q) /\ row' = Started(r, Head(q)) /\ ~(used' > used)
Ran(q, r) ==
  /\ q # <<>> /\ pending' = q /\ row' = Started(r, Head(q)) /\ run' = Head(q)
  /\ used' = used + 1 /\ ~BudgetSpent
Dropped(r) ==
  pending' = <<>> /\ row' = r /\ ~(used' > used) /\ fired' = fired /\ QueueMayBeDropped

Taken(q, r) == Rested(q, r) \/ Served(q, r) \/ Ran(q, r) \/ Dropped(r)

(* The wakes that fire in this step: one or none. *)
New == {w \in Wakes : fired' # fired /\ w = fired'}

Begins(w) == row[w] = "none" /\ row'[w] = "running"

(* The shape of every step, as the ledger sees it. *)
Shape ==
  /\ fired' \in {fired, fired + 1}
  /\ \A w \in New : w \in Queued' \/ row'[w] = "running"
  /\ Queued' \subseteq Queued \cup New
  /\ \A w \in Wakes : \/ row'[w] = row[w]
                      \/ row[w] = "running" /\ row'[w] \in Settlement
                      \/ Begins(w) /\ w \in Queued \cup New
  /\ \A v, w \in Wakes : Begins(v) /\ Begins(w) => v = w

(* The starts of a step are paid for, are of wakes that never ran, and are not those
   of an archived agent. *)
Paid ==
  /\ used' > used => (featureOn /\ agentLimit => used < MaxTurns) /\ used' = used + 1
  /\ used' > used => row[run'] = "none"
  /\ gone => \A w \in Wakes : row'[w] = "running" => row[w] = "running"

LEMMA TakenFacts ==
  ASSUME CoreTyped, NEW q \in Seq(Wakes), NEW r \in [Wakes -> Row], OnlySettled(r),
         fired' \in {fired, fired + 1}, Elements(q) \subseteq Queued \cup New,
         New \subseteq Elements(q),
         Rested(q, r) \/ q = <<>> \/ r[Head(q)] = "none",
         gone = TRUE => q = <<>>, gone \in BOOLEAN,
         Taken(q, r)
  PROVE  /\ Shape /\ Paid
         /\ \A w \in Elements(q) : Vanishes(w) => QueueMayBeDropped
         /\ gone = TRUE => pending' = <<>>
<1>0. /\ used \in Nat /\ row \in [Wakes -> Row] /\ Queued = Elements(pending) /\ Queued' = Elements(pending')
      /\ \A s \in Settlement : s # "none" /\ s # "running"
      /\ Elements(<<>>) = {}
  BY DEF CoreTyped, Queued, Elements, Settlement, Failure
<1>1. CASE Rested(q, r)
  <2>1. Shape
    BY <1>0, <1>1 DEF Shape, OnlySettled, Begins, Rested
  <2>2. Paid
    BY <1>0, <1>1 DEF Paid, OnlySettled, Rested
  <2> QED
    BY <1>0, <1>1, <2>1, <2>2 DEF Vanishes, Rested
<1>2. CASE Dropped(r)
  <2>1. Shape
    BY <1>0, <1>2 DEF Shape, OnlySettled, Begins, Dropped, New
  <2>2. Paid
    BY <1>0, <1>2 DEF Paid, OnlySettled, Dropped
  <2> QED
    BY <1>2, <2>1, <2>2 DEF Dropped
<1>3. CASE (Served(q, r) \/ Ran(q, r)) /\ ~Rested(q, r)
  <2>h. PICK h \in Wakes : h = Head(q)
    BY <1>3, TailFacts DEF Served, Ran
  <2>1. /\ q # <<>> /\ gone = FALSE /\ r[h] = "none" /\ row[h] = "none"
        /\ row' = Started(r, h) /\ (pending' = q \/ pending' = Tail(q))
    BY <1>0, <1>3, <2>h DEF Served, Ran, OnlySettled, Rested
  <2>2. /\ row'[h] = "running" /\ \A w \in Wakes : w # h => row'[w] = r[w]
    BY <2>1, StartedFacts
  <2>3. h \in Elements(q) /\ Elements(pending') \subseteq Elements(q)
        /\ \A w \in Elements(q) : w = h \/ w \in Elements(pending')
    BY <2>1, <2>h, ElementsFacts
  <2>4. \A w \in Wakes : Begins(w) <=> w = h
    BY <1>0, <2>1, <2>2 DEF Begins, OnlySettled
  <2>5. Shape
    <3>1. \A w \in New : w \in Queued' \/ row'[w] = "running"
      BY <1>0, <2>2, <2>3
    <3>2. Queued' \subseteq Queued \cup New
      BY <1>0, <2>3
    <3>3. \A w \in Wakes : \/ row'[w] = row[w]
                           \/ row[w] = "running" /\ row'[w] \in Settlement
                           \/ Begins(w) /\ w \in Queued \cup New
      BY <2>2, <2>3, <2>4 DEF OnlySettled
    <3> QED
      BY <2>4, <3>1, <3>2, <3>3 DEF Shape
  <2>6. Paid
    <3>1. used' > used => Ran(q, r)
      BY <1>3 DEF Served
    <3>2. Ran(q, r) => row[run'] = "none" /\ used' = used + 1
      BY <2>1, <2>h DEF Ran
    <3>3. Ran(q, r) => (featureOn /\ agentLimit => used < MaxTurns)
      BY <1>0, MaxTurnsAssumption DEF Ran, BudgetSpent
    <3> QED
      BY <2>1, <3>1, <3>2, <3>3 DEF Paid
  <2>7. \A w \in Elements(q) : ~Vanishes(w)
    BY <1>0, <2>2, <2>3 DEF Vanishes
  <2> QED
    BY <2>1, <2>5, <2>6, <2>7
<1> QED
  BY <1>1, <1>2, <1>3 DEF Taken

(* What every step keeps and shows. *)
Explained ==
  \A w \in Wakes : Vanishes(w) =>
    QueueMayBeDropped \/ (stopping /\ run # run' /\ w = Head(pending))

Breaking ==
  wstate # "BROKEN" /\ wstate' = "BROKEN" =>
    \/ HostRestart
    \/ row'[run] = "spawn_fail"
    \/ row'[run] = "resume_fail" /\ resumeFails + 1 = MaxResumeFails

Accounted == Shape /\ Paid /\ Explained /\ Breaking /\ Driven' /\ GoneEmpty'

LEMMA LInvFacts ==
  ASSUME LInv
  PROVE  /\ CoreTyped /\ OthersTyped /\ Driven /\ GoneEmpty
         /\ pending \in Seq(Wakes) /\ row \in [Wakes -> Row] /\ gone \in BOOLEAN
         /\ used \in Nat /\ Queued = Elements(pending) /\ fired \in Nat
         /\ Waiting(pending, row, fired) \/ HeadlessRun
         /\ wstate # "HEADLESS_RUNNING" => Waiting(pending, row, fired)
         /\ OnlySettled(row) /\ live \subseteq Wakes
  BY DEF LInv, IInv, Core, CoreTyped, Others, OthersTyped, Idle, HeadlessRun, Queued, Elements, OnlySettled

(* A step on the queue as it is, or with the wake that fires. *)
LEMMA TakenStep ==
  ASSUME LInv, NEW q \in Seq(Wakes), NEW r \in [Wakes -> Row], OnlySettled(r),
         fired' \in {fired, fired + 1}, Elements(q) = Queued \cup New,
         Rested(q, r) \/ q = <<>> \/ r[Head(q)] = "none",
         gone = TRUE => q = <<>>, gone' = gone,
         Taken(q, r)
  PROVE  Shape /\ Paid /\ Explained /\ GoneEmpty'
<1>1. /\ Shape /\ Paid /\ \A w \in Elements(q) : Vanishes(w) => QueueMayBeDropped
      /\ gone = TRUE => pending' = <<>>
  BY LInvFacts, TakenFacts
<1>2. Explained
  BY <1>1 DEF Explained, Vanishes
<1> QED
  BY <1>1, <1>2 DEF GoneEmpty

(* The session's transports. *)
LEMMA ServeFacts ==
  ASSUME NEW q \in Seq(Wakes), NEW p, NEW c \in Pushes \cup {NoPush}, NEW busy \in BOOLEAN,
         Serve(q, p, c, busy), used \in Nat, used' = used, wstate' = "INTERACTIVE_RUNNING", push' = c,
         flight \in [Pushes -> Wakes \cup {NoWake}],
         c # NoPush /\ busy = TRUE => flight[c] # NoWake
  PROVE  Taken(q, row) /\ Driven'
<1>0. ~(used' > used)
  OBVIOUS
<1>1. CASE /\ c = NoPush /\ q # <<>> /\ pending' = Tail(q) /\ row' = Started(row, Head(q)) /\ poll' = "none"
  BY <1>0, <1>1 DEF Taken, Served, Driven
<1>2. CASE /\ c # NoPush /\ q # <<>> /\ pushBusy' = TRUE /\ flight' = [flight EXCEPT ![c] = Head(q)]
           /\ pending' = q /\ UNCHANGED <<live, row>>
  <2>1. Head(q) # NoWake /\ flight'[c] = Head(q)
    BY <1>2, TailFacts DEF NoWake, Wakes
  <2> QED
    BY <1>0, <1>2, <2>1 DEF Taken, Rested, Driven
<1>3. CASE /\ q = <<>> \/ (IF c = NoPush THEN p = "none" ELSE busy)
           /\ pending' = q /\ poll' = p /\ pushBusy' = busy /\ UNCHANGED <<live, row, flight>>
  BY <1>0, <1>3 DEF Taken, Rested, Driven
<1> QED
  BY <1>1, <1>2, <1>3 DEF Serve

(* The way out of a session or a run. *)
LEMMA DrainFacts ==
  ASSUME NEW q, NEW r, OfflineAndDrain(q, r), used \in Nat,
         fired' = fired \/ (q # <<>> /\ ~BudgetSpent)
  PROVE  Taken(q, r) /\ Driven' /\ wstate' # "BROKEN"
<1>1. CASE q # <<>> /\ ~BudgetSpent /\ StartHeadless(q, r)
  BY <1>1, RunMayThrowAssumption DEF StartHeadless, Taken, Ran, Driven
<1>2. CASE /\ q = <<>> \/ BudgetSpent
           /\ wstate' = "OFFLINE" /\ pending' = <<>> /\ row' = r /\ used' = used
  <2>1. ~(used' > used) /\ Driven'
    BY <1>2 DEF Driven
  <2>2. q = <<>> => Rested(q, r)
    BY <1>2, <2>1 DEF Rested
  <2>3. q # <<>> => Dropped(r)
    BY <1>2, <2>1 DEF Dropped, QueueMayBeDropped
  <2> QED
    BY <1>2, <2>1, <2>2, <2>3 DEF Taken
<1> QED
  BY <1>1, <1>2 DEF OfflineAndDrain

(* The head of a waiting queue has no row. *)
LEMMA FreshHead ==
  ASSUME NEW q, NEW r, NEW f, Waiting(q, r, f)
  PROVE  q = <<>> \/ r[Head(q)] = "none"
  BY WaitingTail

LEMMA FireAccounted == ASSUME LInv, Fire PROVE Accounted
<1>0. /\ CoreTyped /\ OthersTyped /\ Driven /\ pending \in Seq(Wakes) /\ row \in [Wakes -> Row]
      /\ used \in Nat /\ Queued = Elements(pending) /\ fired \in Nat /\ OnlySettled(row)
      /\ wstate # "HEADLESS_RUNNING" => Waiting(pending, row, fired)
  BY LInvFacts
<1>q. PICK q : q = Enqueued(pending, fired + 1)
  OBVIOUS
<1>1. /\ fired' = fired + 1 /\ fired + 1 \in Wakes /\ ~gone /\ ~WouldDropWake
      /\ UNCHANGED <<push, retryArmed, gone>> /\ fired' # fired
      /\ \A v \in Wakes : row[v] # "none" => v <= fired
  BY <1>0, MaxWakesAssumption DEF Fire, Wakes, LInv, IInv, Core, RowsFired, settingVars
<1>2. /\ New = {fired + 1} /\ q \in Seq(Wakes) /\ q # <<>> /\ Elements(q) = Queued \cup New
  <2>1. New = {fired + 1}
    BY <1>1 DEF New
  <2>2. q \in Seq(Wakes) /\ q # <<>> /\ Elements(q) = Elements(pending) \cup {fired + 1}
    BY <1>0, <1>1, <1>q, EnqueuedElements
  <2> QED
    BY <1>0, <2>1, <2>2
<1>3. wstate # "HEADLESS_RUNNING" => row[Head(q)] = "none"
  BY <1>0, <1>1, <1>2, <1>q, WaitingEnqueue, FreshHead
<1>4. gone # TRUE
  BY <1>1
<1>5. CASE wstate = "OFFLINE"
  <2>1. OfflineAndDrain(q, row) /\ ~BudgetSpent
    BY <1>1, <1>5, <1>q DEF Fire, WouldDropWake
  <2>2. Taken(q, row) /\ Driven' /\ wstate' # "BROKEN"
    BY <1>0, <1>2, <2>1, DrainFacts
  <2> QED
    BY <1>0, <1>1, <1>2, <1>3, <1>4, <1>5, <2>2, TakenStep DEF Accounted, Breaking
<1>6. CASE wstate = "INTERACTIVE_RUNNING"
  <2>1. Serve(q, poll, push, pushBusy) /\ UNCHANGED <<wstate, used>>
    BY <1>6, <1>q DEF Fire
  <2>2. Taken(q, row) /\ Driven'
    BY <1>0, <1>1, <1>2, <1>6, <2>1, ServeFacts DEF OthersTyped, Driven
  <2> QED
    BY <1>0, <1>1, <1>2, <1>3, <1>4, <1>6, <2>1, <2>2, TakenStep DEF Accounted, Breaking
<1>7. CASE wstate = "HEADLESS_RUNNING"
  <2>1. pending' = q /\ UNCHANGED <<wstate, row, runVars, used>>
    BY <1>7, <1>q DEF Fire
  <2>2. Rested(q, row) /\ Taken(q, row) /\ Driven'
    BY <1>0, <1>7, <2>1 DEF Taken, Rested, Driven, runVars
  <2> QED
    BY <1>0, <1>1, <1>2, <1>4, <1>7, <2>1, <2>2, TakenStep DEF Accounted, Breaking
<1> QED
  BY <1>5, <1>6, <1>7 DEF Fire

(* A step of a session's transports on the queue as it is. *)
LEMMA ServeAccounted ==
  ASSUME LInv, wstate # "HEADLESS_RUNNING", NEW p, NEW c \in Pushes \cup {NoPush}, NEW busy \in BOOLEAN,
         Serve(pending, p, c, busy), wstate' = "INTERACTIVE_RUNNING", push' = c,
         c # NoPush /\ busy = TRUE => flight[c] # NoWake,
         UNCHANGED <<used, gone, fired>>
  PROVE  Accounted
<1>0. /\ CoreTyped /\ OthersTyped /\ GoneEmpty /\ pending \in Seq(Wakes) /\ row \in [Wakes -> Row]
      /\ used \in Nat /\ Queued = Elements(pending) /\ OnlySettled(row)
      /\ Waiting(pending, row, fired)
  BY LInvFacts
<1>1. Taken(pending, row) /\ Driven'
  BY <1>0, ServeFacts DEF OthersTyped
<1>2. New = {} /\ (pending = <<>> \/ row[Head(pending)] = "none")
  BY <1>0, FreshHead DEF New
<1>3. gone = TRUE => pending = <<>>
  BY <1>0 DEF GoneEmpty
<1> QED
  BY <1>0, <1>1, <1>2, <1>3, TakenStep DEF Accounted, Breaking

LEMMA AwaitPollAccounted == ASSUME LInv, NEW owner, AwaitPoll(owner) PROVE Accounted
<1>0. /\ OthersTyped /\ Driven /\ pending \in Seq(Wakes) /\ row \in [Wakes -> Row]
      /\ used \in Nat /\ Queued = Elements(pending) /\ OnlySettled(row) /\ GoneEmpty
  BY LInvFacts
<1>1. UNCHANGED <<wstate, push, used, gone, fired, childAlive, retryArmed>>
  BY DEF AwaitPoll, runVars
<1>2. CASE wstate = "INTERACTIVE_RUNNING"
  <2>1. Serve(pending, owner, push, pushBusy)
    BY <1>2 DEF AwaitPoll
  <2> QED
    BY <1>0, <1>1, <1>2, <2>1, ServeAccounted DEF OthersTyped, Driven
<1>3. CASE wstate # "INTERACTIVE_RUNNING"
  <2>1. UNCHANGED <<pending, row>>
    BY <1>3 DEF AwaitPoll, queueVars
  <2>2. Rested(pending, row) /\ Taken(pending, row) /\ Driven' /\ New = {}
    BY <1>0, <1>1, <1>3, <2>1 DEF Taken, Rested, Driven, New
  <2> QED
    BY <1>0, <1>1, <1>3, <2>2, TakenStep DEF Accounted, Breaking, GoneEmpty
<1> QED
  BY <1>2, <1>3

LEMMA OnInteractiveUpAccounted ==
  ASSUME LInv, NEW c \in Pushes \cup {NoPush}, OnInteractiveUp(c) PROVE Accounted
<1>1. /\ wstate # "HEADLESS_RUNNING" /\ wstate' = "INTERACTIVE_RUNNING" /\ push' = c
      /\ Serve(pending, Orphaned(poll), c, FALSE) /\ UNCHANGED <<used, gone, fired>>
  BY DEF OnInteractiveUp
<1> QED
  BY <1>1, ServeAccounted

LEMMA PushRetryAccounted == ASSUME LInv, PushRetry PROVE Accounted
<1>0. wstate = "INTERACTIVE_RUNNING" /\ OthersTyped /\ Driven
  BY LInvFacts DEF LInv, IInv, Others, OthersTyped, PushRetry
<1>1. Serve(pending, poll, push, pushBusy) /\ UNCHANGED <<wstate, push, used, gone, fired>>
  BY DEF PushRetry
<1> QED
  BY <1>0, <1>1, ServeAccounted DEF OthersTyped, Driven

LEMMA OnInteractiveDownAccounted == ASSUME LInv, OnInteractiveDown PROVE Accounted
<1>0. /\ CoreTyped /\ GoneEmpty /\ pending \in Seq(Wakes) /\ row \in [Wakes -> Row]
      /\ used \in Nat /\ Queued = Elements(pending) /\ live \subseteq Wakes
      /\ wstate # "HEADLESS_RUNNING" => Waiting(pending, row, fired)
  BY LInvFacts
<1>r. PICK r : r = Settled(row, live, "stopped")
  OBVIOUS
<1>1. /\ OfflineAndDrain(pending, r) /\ UNCHANGED <<gone, fired>> /\ wstate = "INTERACTIVE_RUNNING"
  BY <1>r DEF OnInteractiveDown
<1>2. r \in [Wakes -> Row] /\ OnlySettled(r) /\ \A v \in Wakes : r[v] = "none" <=> row[v] = "none"
  <2>1. "stopped" \in Settlement
    BY DEF Settlement
  <2> QED
    BY <1>0, <1>r, <2>1, SettledFacts, SettledOnly
<1>3. pending = <<>> \/ r[Head(pending)] = "none"
  <2>1. Waiting(pending, r, fired)
    BY <1>0, <1>1, <1>2, WaitingRows
  <2> QED
    BY <2>1, FreshHead
<1>4. Taken(pending, r) /\ Driven' /\ wstate' # "BROKEN"
  BY <1>0, <1>1, DrainFacts
<1>5. New = {} /\ (gone = TRUE => pending = <<>>)
  BY <1>0, <1>1 DEF New, GoneEmpty
<1> QED
  BY <1>0, <1>1, <1>2, <1>3, <1>4, <1>5, TakenStep DEF Accounted, Breaking

(* A step that drops the queue, settles rows and is one that may. *)
LEMMA DropAccounted ==
  ASSUME LInv, NEW r \in [Wakes -> Row], OnlySettled(r), pending' = <<>>, row' = r,
         UNCHANGED <<used, fired>>, QueueMayBeDropped
  PROVE  Shape /\ Paid /\ Explained /\ GoneEmpty'
<1>0. /\ CoreTyped /\ pending \in Seq(Wakes) /\ gone \in BOOLEAN /\ used \in Nat
  BY LInvFacts
<1>1. <<>> \in Seq(Wakes) /\ Elements(<<>>) = {} /\ New = {}
  BY DEF Elements, New
<1>2. Taken(<<>>, r) /\ Rested(<<>>, r)
  BY <1>0 DEF Taken, Rested
<1>3. Shape /\ Paid
  BY <1>0, <1>1, <1>2, TakenFacts
<1> QED
  BY <1>3 DEF Explained, GoneEmpty

LEMMA StopAccounted == ASSUME LInv, UserStop \/ Archive PROVE Accounted
<1>0. CoreTyped /\ OthersTyped /\ Driven /\ row \in [Wakes -> Row] /\ live \subseteq Wakes
  BY LInvFacts
<1>1. StopEffect /\ QueueMayBeDropped
  BY DEF UserStop, Archive, QueueMayBeDropped
<1>2. /\ pending' = <<>> /\ row' = Settled(row, live, "stopped")
      /\ UNCHANGED <<wstate, push, pushBusy, flight, retryArmed, childAlive, used, fired>>
  BY <1>1 DEF StopEffect, SettleLive, pushVars
<1>3. row' \in [Wakes -> Row] /\ OnlySettled(row')
  <2>1. "stopped" \in Settlement
    BY DEF Settlement
  <2> QED
    BY <1>0, <1>2, <2>1, SettledFacts, SettledOnly
<1>4. Shape /\ Paid /\ Explained /\ GoneEmpty'
  BY <1>1, <1>2, <1>3, DropAccounted
<1>5. Driven' /\ Breaking
  BY <1>0, <1>2 DEF Driven, Breaking
<1> QED
  BY <1>4, <1>5 DEF Accounted

LEMMA HostRestartAccounted == ASSUME LInv, HostRestart PROVE Accounted
<1>0. CoreTyped /\ row \in [Wakes -> Row]
  BY LInvFacts
<1>1. /\ pending' = <<>> /\ row' = Settled(row, Wakes, "stopped") /\ wstate' \in {"OFFLINE", "BROKEN"}
      /\ UNCHANGED <<used, fired>> /\ QueueMayBeDropped
  BY DEF HostRestart, QueueMayBeDropped
<1>2. row' \in [Wakes -> Row] /\ OnlySettled(row')
  <2>1. "stopped" \in Settlement
    BY DEF Settlement
  <2> QED
    BY <1>0, <1>1, <2>1, SettledFacts, SettledOnly
<1>3. Shape /\ Paid /\ Explained /\ GoneEmpty'
  BY <1>1, <1>2, DropAccounted
<1>4. Driven' /\ Breaking
  BY <1>1 DEF Driven, Breaking
<1> QED
  BY <1>3, <1>4 DEF Accounted

(* A step that leaves the queue and at most settles what runs. *)
LEMMA RestAccounted ==
  ASSUME LInv, NEW r \in [Wakes -> Row], OnlySettled(r), pending' = pending, row' = r,
         ~(used' > used), UNCHANGED <<wstate, fired, gone>>, Driven'
  PROVE  Accounted
<1>0. /\ GoneEmpty /\ pending \in Seq(Wakes) /\ Queued = Elements(pending)
  BY LInvFacts
<1>1. New = {} /\ Rested(pending, r) /\ Taken(pending, r)
  BY DEF New, Rested, Taken
<1> QED
  BY <1>0, <1>1, TakenStep DEF Accounted, Breaking, GoneEmpty

LEMMA TurnHookAccounted == ASSUME LInv, OnTurnEnded \/ OnTurnFailed PROVE Accounted
<1>0. CoreTyped /\ Driven /\ row \in [Wakes -> Row] /\ live \subseteq Wakes /\ used \in Nat
  BY LInvFacts
<1>1. PICK s \in Settlement : SettleLive(s)
  BY DEF OnTurnEnded, OnTurnFailed, Settlement, Failure
<1>2. row' \in [Wakes -> Row] /\ OnlySettled(row')
  BY <1>0, <1>1, SettledFacts, SettledOnly DEF SettleLive
<1>3. UNCHANGED <<wstate, pending, poll, push, pushBusy, flight, retryArmed, childAlive, used, fired, gone>>
  BY DEF OnTurnEnded, OnTurnFailed, pushVars, runVars
<1>4. Driven' /\ ~(used' > used)
  BY <1>0, <1>3 DEF Driven
<1> QED
  BY <1>2, <1>3, <1>4, RestAccounted

LEMMA OthersAccounted ==
  ASSUME LInv, \/ PollEnds \/ KillTimerFires \/ ResetTurnLimit \/ ToggleAgentLimit \/ ToggleFeature
               \/ UNCHANGED vars
  PROVE  Accounted
<1>0. CoreTyped /\ Driven /\ row \in [Wakes -> Row] /\ used \in Nat /\ OnlySettled(row)
  BY LInvFacts
<1>1. /\ UNCHANGED <<wstate, pending, row, push, pushBusy, flight, retryArmed, childAlive, fired, gone>>
      /\ poll' = poll \/ poll' = "none"
      /\ used' = used \/ used' = 0
  BY DEF PollEnds, KillTimerFires, ResetTurnLimit, ToggleAgentLimit, ToggleFeature, vars,
         queueVars, pushVars, runVars
<1>2. Driven' /\ ~(used' > used)
  BY <1>0, <1>1 DEF Driven
<1> QED
  BY <1>0, <1>1, <1>2, RestAccounted

(* A promise that settles for the installed closure takes the head with it. *)
LEMMA PushSettledAccounted ==
  ASSUME LInv, NEW c \in Pushes, NEW ok \in BOOLEAN, PushSettled(c, ok) PROVE Accounted
<1>0. /\ CoreTyped /\ OthersTyped /\ Driven /\ GoneEmpty /\ pending \in Seq(Wakes)
      /\ row \in [Wakes -> Row] /\ used \in Nat /\ Queued = Elements(pending) /\ OnlySettled(row)
      /\ flight \in [Pushes -> Wakes \cup {NoWake}]
      /\ wstate # "HEADLESS_RUNNING" => Waiting(pending, row, fired)
  BY LInvFacts DEF OthersTyped
<1>1. UNCHANGED <<wstate, poll, push, childAlive, used, gone, fired>>
  BY DEF PushSettled, runVars
<1>2. push # NoPush => wstate = "INTERACTIVE_RUNNING"
  BY DEF LInv, IInv, Others
<1>3. c # NoPush
  BY PushesAssumption
<1>4. ~(used' > used) /\ New = {} /\ (gone = TRUE => pending = <<>>)
  BY <1>0, <1>1 DEF New, GoneEmpty
<1>5. CASE push # c /\ flight' = [flight EXCEPT ![c] = NoWake] /\ UNCHANGED <<queueVars, pushBusy, retryArmed>>
  <2>1. \A p \in Pushes : p # c => flight'[p] = flight[p]
    BY <1>0, <1>5
  <2>2. Driven'
    BY <1>0, <1>1, <1>5, <2>1 DEF Driven, OthersTyped, queueVars
  <2> QED
    BY <1>0, <1>1, <1>4, <1>5, <2>2, RestAccounted DEF queueVars
<1>6. CASE push = c /\ ~ok /\ pushBusy' = FALSE /\ retryArmed' = TRUE /\ UNCHANGED queueVars
  <2>1. Driven'
    BY <1>0, <1>1, <1>3, <1>6 DEF Driven
  <2> QED
    BY <1>0, <1>1, <1>4, <1>6, <2>1, RestAccounted DEF queueVars
<1>7. CASE push = c /\ ok
  <2>1. Waiting(pending, row, fired)
    BY <1>0, <1>2, <1>3, <1>7
  <2>m. PICK rest \in Seq(Wakes) :
          /\ pending' = rest
          /\ \/ rest = pending /\ row' = row
             \/ /\ pending # <<>> /\ rest = Tail(pending)
                /\ row' = Started(row, Head(pending))
          /\ pushBusy' = (rest # <<>>)
          /\ flight' = IF rest = <<>> THEN [flight EXCEPT ![c] = NoWake]
                       ELSE [flight EXCEPT ![c] = Head(rest)]
    <3>1. CASE pending # <<>> /\ Head(pending) = flight[c]
      <4>1. Tail(pending) \in Seq(Wakes)
        BY <1>0, <3>1, TailFacts
      <4> QED
        BY <1>7, <3>1, <4>1 DEF PushSettled
    <3>2. CASE ~(pending # <<>> /\ Head(pending) = flight[c])
      BY <1>0, <1>7, <3>2 DEF PushSettled
    <3> QED
      BY <3>1, <3>2
  <2>2. Taken(pending, row)
    BY <1>4, <2>m DEF Taken, Rested, Served
  <2>3. Driven'
    <3>1. rest # <<>> => Head(rest) # NoWake /\ flight'[c] = Head(rest)
      BY <1>0, <2>m, TailFacts DEF NoWake, Wakes
    <3> QED
      BY <1>1, <1>2, <1>3, <1>7, <2>m, <3>1 DEF Driven
  <2>4. pending = <<>> \/ row[Head(pending)] = "none"
    BY <2>1, FreshHead
  <2>5. Shape /\ Paid /\ Explained /\ GoneEmpty'
    BY <1>0, <1>1, <1>4, <2>2, <2>4, TakenStep
  <2> QED
    BY <1>1, <2>3, <2>5 DEF Accounted, Breaking
<1> QED
  BY <1>5, <1>6, <1>7 DEF PushSettled

(* A child's exit: its wake leaves the queue with a row, or had been dropped by the
   Stop; the next one starts, or the queue is dropped. *)
LEMMA HeadlessExitedAccounted ==
  ASSUME LInv, NEW reason \in ExitReason, HeadlessExited(reason) PROVE Accounted
<1>0. /\ CoreTyped /\ OthersTyped /\ GoneEmpty /\ pending \in Seq(Wakes) /\ gone \in BOOLEAN
      /\ row \in [Wakes -> Row] /\ used \in Nat /\ Queued = Elements(pending)
  BY LInvFacts
<1>1. /\ childAlive = TRUE /\ stopping \in BOOLEAN /\ timedOut \in BOOLEAN
      /\ UNCHANGED <<gone, fired>>
  BY <1>0 DEF CoreTyped, HeadlessExited
<1>2. HeadlessRun
  BY <1>1 DEF LInv, IInv, Core, Idle
<1>s. PICK s : s = ExitOutcome(reason) /\ s \in Settlement
  BY <1>1, ExitOutcomeSettles
<1>r. PICK r : r = Settled(row, {run}, s)
  OBVIOUS
<1>q. PICK q : q = Shift(pending)
  OBVIOUS
<1>3. /\ r \in [Wakes -> Row] /\ OnlySettled(r) /\ \A v \in Wakes : r[v] = "none" <=> row[v] = "none"
  BY <1>0, <1>r, <1>s, SettledFacts, SettledOnly
<1>4. run \in Wakes /\ row[run] = "running" /\ r[run] = s /\ r[run] # "none"
  <2>1. run \in Wakes /\ row[run] = "running"
    BY <1>2 DEF HeadlessRun, RunningRows
  <2>2. r[run] = s
    BY <1>r, <2>1 DEF Settled
  <2> QED
    BY <1>s, <2>1, <2>2 DEF Settlement, Failure
<1>5. Waiting(q, row, fired)
  <2>1. CASE stopping = TRUE
    BY <1>2, <1>q, <2>1, WaitingTail DEF HeadlessRun, Shift
  <2>2. CASE stopping # TRUE
    BY <1>2, <1>q, <2>2 DEF HeadlessRun, Shift
  <2> QED
    BY <2>1, <2>2
<1>6. q \in Seq(Wakes) /\ (q = <<>> \/ r[Head(q)] = "none") /\ New = {}
  <2>1. Waiting(q, r, fired)
    BY <1>3, <1>5, WaitingRows
  <2> QED
    BY <1>1, <2>1, FreshHead DEF Waiting, New
<1>7. Elements(q) \subseteq Queued /\ \A w \in Queued : w \in Elements(q) \/ (pending # <<>> /\ w = Head(pending))
  <2>1. CASE pending = <<>>
    BY <1>0, <1>q, <2>1 DEF Shift
  <2>2. CASE pending # <<>>
    BY <1>0, <1>q, <2>2, ElementsFacts DEF Shift
  <2> QED
    BY <2>1, <2>2
<1>8. gone = TRUE => q = <<>>
  BY <1>0, <1>q DEF GoneEmpty, Shift
<1>9. CASE OfflineAndDrain(q, r)
  <2>1. Taken(q, r) /\ Driven' /\ wstate' # "BROKEN"
    BY <1>0, <1>1, <1>9, DrainFacts
  <2>2. /\ Shape /\ Paid /\ \A w \in Elements(q) : Vanishes(w) => QueueMayBeDropped
        /\ gone = TRUE => pending' = <<>>
    BY <1>0, <1>1, <1>3, <1>6, <1>7, <1>8, <2>1, TakenFacts
  <2>3. Explained
    <3> SUFFICES ASSUME NEW w \in Wakes, Vanishes(w), ~QueueMayBeDropped
                 PROVE  stopping /\ run # run' /\ w = Head(pending)
      BY DEF Explained
    <3>1. pending # <<>> /\ w = Head(pending) /\ row'[w] = "none"
      BY <1>7, <2>2 DEF Vanishes
    <3>2. w # run
      <4>1. row' = r \/ (q # <<>> /\ Head(q) \in Wakes /\ row' = Started(r, Head(q)))
        BY <1>6, <1>9, TailFacts DEF OfflineAndDrain, StartHeadless
      <4>2. row'[run] # "none"
        BY <1>3, <1>4, <4>1, StartedFacts
      <4> QED
        BY <3>1, <4>2
    <3>3. stopping = TRUE
      BY <1>1, <1>2, <3>1, <3>2 DEF HeadlessRun
    <3>4. run' # run
      <4>1. CASE q # <<>> /\ run' = Head(q)
        BY <1>4, <1>6, <4>1
      <4>2. CASE run' = NoWake
        BY <1>4, <4>2 DEF NoWake, Wakes
      <4> QED
        BY <1>9, <4>1, <4>2 DEF OfflineAndDrain, StartHeadless, NoRun
    <3> QED
      BY <3>1, <3>3, <3>4
  <2> QED
    BY <1>1, <2>1, <2>2, <2>3 DEF Accounted, Breaking, GoneEmpty
<1>10. CASE Break(r) /\ (s = "spawn_fail" \/ (s = "resume_fail" /\ resumeFails + 1 = MaxResumeFails))
  <2>1. pending' = <<>> /\ row' = r /\ wstate' = "BROKEN" /\ used' = used
    BY <1>10 DEF Break
  <2>2. Shape /\ Paid /\ Explained /\ GoneEmpty'
    BY <1>1, <1>3, <2>1, DropAccounted DEF QueueMayBeDropped
  <2>3. Driven' /\ Breaking
    BY <1>4, <1>10, <2>1 DEF Driven, Breaking
  <2> QED
    BY <2>2, <2>3 DEF Accounted
<1> QED
  <2>1. CASE (Killed \/ reason = "ok") /\ OfflineAndDrain(q, r)
    BY <1>9, <2>1
  <2>2. CASE ~Killed /\ reason = "resumeFail" /\ resumeFails' = resumeFails + 1
             /\ IF Unresumable(resumeFails') THEN Break(r) ELSE OfflineAndDrain(q, r)
    <3>1. s = "resume_fail"
      BY <1>1, <1>s, <2>2 DEF ExitOutcome, Killed
    <3>2. resumeFails \in Nat /\ resumeFails < MaxResumeFails
      BY <1>2, MaxResumeFailsAssumption DEF LInv, IInv, Others, OthersTyped, HeadlessRun
    <3>3. Unresumable(resumeFails') => resumeFails + 1 = MaxResumeFails
      BY <2>2, <3>2, MaxResumeFailsAssumption DEF Unresumable
    <3> QED
      BY <1>9, <1>10, <2>2, <3>1, <3>3
  <2>3. CASE ~Killed /\ reason = "spawnFail" /\ Break(r)
    <3>1. s = "spawn_fail"
      BY <1>1, <1>s, <2>3 DEF ExitOutcome, Killed
    <3> QED
      BY <1>10, <2>3, <3>1
  <2> QED
    BY <1>q, <1>r, <1>s, <2>1, <2>2, <2>3 DEF HeadlessExited

LEMMA StepAccounted == LInv /\ [Next]_vars => LInv' /\ Accounted
<1> SUFFICES ASSUME LInv, [Next]_vars PROVE LInv' /\ Accounted
  OBVIOUS
<1>1. IInv'
  BY CoreStep, OthersStep DEF LInv, IInv
<1>2. Accounted
  <2>1. CASE PollEnds \/ KillTimerFires \/ ResetTurnLimit \/ ToggleAgentLimit \/ ToggleFeature \/ UNCHANGED vars
    BY <2>1, OthersAccounted
  <2>2. CASE UserStop \/ Archive
    BY <2>2, StopAccounted
  <2>3. CASE OnTurnEnded \/ OnTurnFailed
    BY <2>3, TurnHookAccounted
  <2> QED
    BY <2>1, <2>2, <2>3, FireAccounted, AwaitPollAccounted, OnInteractiveUpAccounted,
       OnInteractiveDownAccounted, PushSettledAccounted, PushRetryAccounted,
       HeadlessExitedAccounted, HostRestartAccounted DEF Next
<1> QED
  BY <1>1, <1>2 DEF LInv, Accounted
-----------------------------------------------------------------------------
(* The refinement                                                            *)

(* Where the ledger sees a wake. *)
StatusRead ==
  \A w \in Wakes :
    /\ WakeStatus[w] = IF w > fired THEN "unfired"
                       ELSE IF row[w] # "none" THEN row[w]
                       ELSE IF w \in Queued THEN "queued" ELSE "dropped"
    /\ w > fired => row[w] = "none"
    /\ row[w] \in {"none", "running"} \cup Settlement

LEMMA StatusFacts == IInv => StatusRead
<1> SUFFICES ASSUME IInv, NEW w \in Wakes
             PROVE  /\ WakeStatus[w] = IF w > fired THEN "unfired"
                                      ELSE IF row[w] # "none" THEN row[w]
                                      ELSE IF w \in Queued THEN "queued" ELSE "dropped"
                    /\ w > fired => row[w] = "none"
                    /\ row[w] \in {"none", "running"} \cup Settlement
  BY DEF StatusRead
<1>1. /\ fired \in Nat /\ w \in Nat /\ (row[w] # "none" => w <= fired)
      /\ row[w] \in Row
  BY MaxWakesAssumption DEF IInv, Core, CoreTyped, RowsFired, Wakes
<1>2. ~(w > fired) <=> w <= fired
  BY <1>1
<1>3. WakeStatus[w] = CASE row[w] # "none" -> row[w]
                        [] row[w] = "none" /\ w > fired -> "unfired"
                        [] row[w] = "none" /\ w \in Queued -> "queued"
                        [] row[w] = "none" /\ w <= fired /\ w \notin Queued -> "dropped"
  BY DEF WakeStatus
<1>4. w \in Queued => w <= fired
  <2>1. CASE Waiting(pending, row, fired)
    BY <2>1 DEF Waiting, Queued
  <2>2. CASE /\ HeadlessRun /\ pending # <<>> /\ Head(pending) = run /\ Waiting(Tail(pending), row, fired)
    <3>1. row[run] = "running" /\ pending \in Seq(Wakes)
      BY <2>2 DEF HeadlessRun, RunningRows, IInv, Core, CoreTyped
    <3>2. \A i \in DOMAIN Tail(pending) : Tail(pending)[i] <= fired
      BY <2>2 DEF Waiting
    <3>3. w \in Queued => w = run \/ \E i \in DOMAIN Tail(pending) : w = Tail(pending)[i]
      BY <2>2, <3>1, ElementsFacts DEF Elements, Queued
    <3> QED
      BY <1>1, <3>1, <3>2, <3>3
  <2> QED
    BY <2>1, <2>2 DEF IInv, Core, Idle, HeadlessRun
<1>5. CASE row[w] # "none"
  BY <1>1, <1>2, <1>3, <1>5 DEF Row, Settlement
<1>6. CASE row[w] = "none" /\ w > fired
  BY <1>2, <1>3, <1>4, <1>6
<1>7. CASE row[w] = "none" /\ w <= fired /\ w \in Queued
  BY <1>2, <1>3, <1>7
<1>8. CASE row[w] = "none" /\ w <= fired /\ w \notin Queued
  BY <1>2, <1>3, <1>8
<1> QED
  BY <1>2, <1>5, <1>6, <1>7, <1>8
LEMMA StatusIsFunction ==
  /\ WakeStatus = [w \in Wakes |-> WakeStatus[w]]
  /\ WakeStatus' = [w \in Wakes |-> WakeStatus'[w]]
<1> DEFINE e(w) == CASE row[w] # "none" -> row[w]
                     [] row[w] = "none" /\ w > fired -> "unfired"
                     [] row[w] = "none" /\ w \in Queued -> "queued"
                     [] row[w] = "none" /\ w <= fired /\ w \notin Queued -> "dropped"
<1>1. WakeStatus = [w \in Wakes |-> e(w)]
  BY DEF WakeStatus
<1>2. WakeStatus' = [w \in Wakes |-> e(w)']
  BY DEF WakeStatus
<1> HIDE DEF e
<1> QED
  BY <1>1, <1>2

(* No wake is fired yet when the ledger opens. *)
LEMMA LedgerInit == Init => Ledger!Init
<1> SUFFICES ASSUME Init PROVE Ledger!Init
  OBVIOUS
<1>1. IInv /\ fired = 0
  BY InitCore DEF Init
<1>2. \A w \in Wakes : w > 0
  BY DEF Wakes
<1>3. \A w \in Wakes : WakeStatus[w] = "unfired"
  BY <1>1, <1>2, StatusFacts DEF StatusRead
<1>4. WakeStatus = [w \in Wakes |-> WakeStatus[w]]
  BY StatusIsFunction
<1> QED
  BY <1>3, <1>4 DEF Ledger!Init

(* A step of the shape of the writer's steps is one of the ledger's. *)
LEMMA LedgerStep ==
  ASSUME IInv, Shape, fired \in Nat, StatusRead, StatusRead', FifoOrder', RunningRowsOwned'
  PROVE  Ledger!Step
<1> DEFINE Read(w) == IF w > fired THEN "unfired"
                      ELSE IF row[w] # "none" THEN row[w]
                      ELSE IF w \in Queued THEN "queued" ELSE "dropped"
           ReadNext(w) == IF w > fired' THEN "unfired"
                      ELSE IF row'[w] # "none" THEN row'[w]
                      ELSE IF w \in Queued' THEN "queued" ELSE "dropped"
<1>0. /\ \A w \in Wakes : w \in Nat
      /\ \A s \in Settlement : s \notin {"none", "unfired", "queued", "running", "dropped"}
      /\ Ledger!Settlements = Settlement
  BY DEF Wakes, Settlement, Failure, Ledger!Settlements
<1>1. \A w \in Wakes : /\ WakeStatus[w] = Read(w) /\ WakeStatus'[w] = ReadNext(w)
                       /\ w > fired => row[w] = "none"
                       /\ w > fired' => row'[w] = "none"
                       /\ row[w] \in {"none", "running"} \cup Settlement
                       /\ row'[w] \in {"none", "running"} \cup Settlement
  BY DEF StatusRead
<1>2. /\ fired' = fired \/ fired' = fired + 1
      /\ \A w \in Wakes : w \in New <=> fired' = fired + 1 /\ w = fired + 1
      /\ \A w \in Wakes : w > fired /\ ~(w > fired') <=> w \in New
      /\ \A w \in Wakes : w > fired' => w > fired
  BY <1>0 DEF Shape, New
<1>3. ASSUME NEW w \in Wakes
      PROVE  /\ <<Read(w), ReadNext(w)>> \in Ledger!Moves
             /\ ReadNext(w) \in Ledger!Status
             /\ Read(w) = "unfired" /\ ReadNext(w) # "unfired" => w \in New
             /\ Read(w) # "running" /\ ReadNext(w) = "running" => Begins(w)
  <2>1. CASE w > fired'
    <3>1. Read(w) = "unfired" /\ ReadNext(w) = "unfired"
      BY <1>2, <2>1
    <3> QED
      BY <3>1 DEF Ledger!Moves, Ledger!Status
  <2>2. CASE w \in New
    <3>1. row[w] = "none" /\ Read(w) = "unfired" /\ ~(w > fired')
      BY <1>1, <1>2, <2>2
    <3>2. row'[w] = "none" \/ (row'[w] = "running" /\ Begins(w))
      BY <3>1 DEF Shape, Begins
    <3>3. ReadNext(w) = "queued" \/ (ReadNext(w) = "running" /\ Begins(w))
      BY <2>2, <3>1, <3>2 DEF Shape
    <3> QED
      BY <2>2, <3>1, <3>3 DEF Ledger!Moves, Ledger!Status
  <2>3. CASE ~(w > fired) /\ ~(w > fired') /\ w \notin New
    <3>1. \/ row'[w] = row[w]
          \/ row[w] = "running" /\ row'[w] \in Settlement
          \/ Begins(w) /\ w \in Queued
      BY <2>3 DEF Shape
    <3>2. w \in Queued' => w \in Queued
      BY <2>3 DEF Shape
    <3>3. CASE row[w] = "none"
      <4>1. CASE row'[w] = "none"
        <5>1. Read(w) \in {"queued", "dropped"} /\ (ReadNext(w) = Read(w) \/ (Read(w) = "queued" /\ ReadNext(w) = "dropped"))
          BY <2>3, <3>2, <3>3, <4>1
        <5> QED
          BY <5>1 DEF Ledger!Moves, Ledger!Status
      <4>2. CASE row'[w] # "none"
        <5>1. Read(w) = "queued" /\ ReadNext(w) = "running" /\ Begins(w)
          BY <2>3, <3>1, <3>3, <4>2 DEF Begins
        <5> QED
          BY <5>1 DEF Ledger!Moves, Ledger!Status
      <4> QED
        BY <4>1, <4>2
    <3>4. CASE row[w] = "running"
      <4>1. Read(w) = "running" /\ (ReadNext(w) = "running" \/ ReadNext(w) \in Settlement)
        BY <1>0, <2>3, <3>1, <3>4 DEF Begins
      <4> QED
        BY <1>0, <4>1 DEF Ledger!Moves, Ledger!Status
    <3>5. CASE row[w] \in Settlement
      <4>1. Read(w) = row[w] /\ ReadNext(w) = row[w]
        BY <1>0, <2>3, <3>1, <3>5 DEF Begins
      <4> QED
        BY <1>0, <3>5, <4>1 DEF Ledger!Moves, Ledger!Status
    <3> QED
      BY <1>1, <3>3, <3>4, <3>5
  <2> QED
    BY <1>2, <2>1, <2>2, <2>3
<1>4. ASSUME NEW v \in Wakes, NEW w \in Wakes, Begins(v), w < v
      PROVE  ReadNext(w) \notin {"unfired", "queued"}
  <2>1. row'[v] = "running" /\ ~(v > fired')
    BY <1>1, <1>4 DEF Begins
  <2>2. fired' \in Nat /\ ~(w > fired')
    BY <1>0, <1>2, <1>4, <2>1
  <2>3. row'[w] = "none" => w \notin Queued'
    <3> SUFFICES ASSUME row'[w] = "none", w \in Queued' PROVE FALSE
      OBVIOUS
    <3>1. w = run'
      <4>1. w # run' => v < w
        BY <2>1 DEF FifoOrder
      <4> QED
        BY <1>0, <1>4, <4>1
    <3>2. w # NoWake
      BY DEF Wakes, NoWake
    <3> QED
      BY <3>1, <3>2 DEF RunningRowsOwned
  <2>4. row'[w] # "none" => row'[w] \notin {"unfired", "queued"}
    BY <1>0, <1>1
  <2> QED
    BY <2>2, <2>3, <2>4
<1>5. WakeStatus' \in [Wakes -> Ledger!Status]
  <2>1. WakeStatus' = [w \in Wakes |-> WakeStatus'[w]]
    BY StatusIsFunction
  <2> QED
    BY <1>1, <1>3, <2>1
<1>6. \A v, w \in Wakes : v \in New /\ w \in New => v = w
  BY DEF New
<1> HIDE DEF Read, ReadNext
<1>7. \A v, w \in Wakes : Ledger!Fires(v) /\ Ledger!Fires(w) => v = w
  BY <1>1, <1>3, <1>6 DEF Ledger!Fires
<1>8. \A v \in Wakes : Ledger!Starts(v) => Begins(v)
  BY <1>1, <1>3 DEF Ledger!Starts
<1> QED
  BY <1>1, <1>3, <1>4, <1>5, <1>7, <1>8 DEF Ledger!Step, Shape
-----------------------------------------------------------------------------
(* The theorems                                                              *)

(* The invariant the others rest on. *)
LEMMA LInvAlways == Spec => []LInv
<1>1. Init => LInv
  <2> SUFFICES ASSUME Init PROVE LInv
    OBVIOUS
  <2>1. Driven /\ GoneEmpty
    BY DEF Init, Driven, GoneEmpty
  <2> QED
    BY <2>1, InitCore DEF LInv
<1>2. LInv /\ [Next]_vars => LInv'
  BY StepAccounted
<1> QED
  BY <1>1, <1>2, PTL DEF Spec

(* A queued wake always has something outstanding that will move it: the run in
   progress, a poll that is served on arrival, a push promise or the retry timer
   (drain, serveInteractive, servePush). *)
THEOREM DriverKept == Spec => []QueueHasDriver
<1>1. LInv => QueueHasDriver
  <2> SUFFICES ASSUME LInv, pending # <<>>
               PROVE  \/ wstate = "HEADLESS_RUNNING" /\ (childAlive \/ RunMayThrow)
                      \/ /\ wstate = "INTERACTIVE_RUNNING"
                         /\ IF push = NoPush THEN poll = "none"
                            ELSE IF pushBusy THEN flight[push] # NoWake ELSE retryArmed
    BY DEF QueueHasDriver
  <2>1. wstate = "HEADLESS_RUNNING" \/ wstate = "INTERACTIVE_RUNNING"
    BY DEF LInv, IInv, Core, Idle, HeadlessRun
  <2>2. pushBusy \in BOOLEAN /\ retryArmed \in BOOLEAN /\ childAlive \in BOOLEAN /\ Driven
    BY LInvFacts DEF OthersTyped, CoreTyped
  <2> QED
    BY <2>1, <2>2 DEF Driven
<1> QED
  BY <1>1, LInvAlways, PTL

(* A wake leaves the queue without ever starting only when the user stops the agent,
   the agent breaks, its budget is spent or the host goes away -- or when it was
   queued at the front while a stopped child was still exiting (stop,
   headlessExited, drain). *)
THEOREM DropsExplained == Spec => DropsAccounted
<1>1. LInv /\ [Next]_vars =>
        [\A w \in Wakes : Vanishes(w) =>
           \/ QueueMayBeDropped
           \/ stopping /\ run # run' /\ w = Head(pending)]_vars
  BY StepAccounted DEF Accounted, Explained
<1> QED
  BY <1>1, LInvAlways, PTL DEF Spec, DropsAccounted

(* What the writer starts and gives up is justified: no run is started without a
   turn left, for a wake that ran before or for an archived agent, and an agent is
   broken only by its own session's failure or a crash (startHeadless,
   headlessExited, BudgetSpent's gate). *)
THEOREM StartsJustified == Spec => RunsJustified
<1>1. LInv /\ [Next]_vars => Paid /\ Breaking
  BY StepAccounted DEF Accounted
<1>2. LInv /\ [Next]_vars =>
        [used' > used => (featureOn /\ agentLimit => used < MaxTurns) /\ used' = used + 1]_vars
  BY <1>1 DEF Paid
<1>3. LInv /\ [Next]_vars => [used' > used => row[run'] = "none"]_vars
  BY <1>1 DEF Paid
<1>4. LInv /\ [Next]_vars =>
        [gone => \A w \in Wakes : row'[w] = "running" => row[w] = "running"]_vars
  BY <1>1 DEF Paid
<1>5. LInv /\ [Next]_vars =>
        [wstate # "BROKEN" /\ wstate' = "BROKEN" =>
           \/ HostRestart
           \/ row'[run] = "spawn_fail"
           \/ row'[run] = "resume_fail" /\ resumeFails + 1 = MaxResumeFails]_vars
  BY <1>1 DEF Breaking
<1>6. Spec => BudgetRespected
  BY <1>2, LInvAlways, PTL DEF Spec, BudgetRespected
<1>7. Spec => HeadlessStartsOnce
  BY <1>3, LInvAlways, PTL DEF Spec, HeadlessStartsOnce
<1>8. Spec => ArchivedNeverRuns
  BY <1>4, LInvAlways, PTL DEF Spec, ArchivedNeverRuns
<1>9. Spec => BreaksOnlyOnFailure
  BY <1>5, LInvAlways, PTL DEF Spec, BreaksOnlyOnFailure
<1> QED
  BY <1>6, <1>7, <1>8, <1>9, PTL DEF RunsJustified

(* The writer keeps the wake layer's promise for every wake: it fires once, is queued
   in order, starts at most once and, once started, settles exactly once; every step
   of the coordinator is a step or a stutter of the ledger. *)
THEOREM Implements == Spec => ImplementsLedger
<1>1. IInv' => StatusRead' /\ FifoOrder' /\ RunningRowsOwned'
  BY StatusFacts, InOrder, Owned, PTL
<1>2. LInv /\ [Next]_vars => [Ledger!Step]_WakeStatus
  <2> SUFFICES ASSUME LInv, [Next]_vars PROVE Ledger!Step
    OBVIOUS
  <2>1. Shape /\ IInv /\ IInv'
    BY StepAccounted DEF Accounted, LInv
  <2>2. StatusRead /\ fired \in Nat
    BY <2>1, StatusFacts, LInvFacts
  <2> QED
    BY <1>1, <2>1, <2>2, LedgerStep
<1>3. Spec => Ledger!Spec
  BY <1>2, LedgerInit, LInvAlways, PTL DEF Spec, Ledger!Spec
<1> QED
  BY <1>3 DEF ImplementsLedger
=============================================================================
