------------------------- MODULE TerminalViewProofs -------------------------
(***************************************************************************)
(* Proofs about the terminal pane, for any number of agents, any size of   *)
(* the ring and of a socket's buffer and any number of reconnects: what    *)
(* the pane shows is the session's output, unbroken, and it launches no    *)
(* more than was asked of it and comes to rest on what is so               *)
(* (lib/terminal/session-controller.ts, pty-daemon/).                      *)
(***************************************************************************)
EXTENDS TerminalView, FiniteSetTheorems, WellFoundedInduction, TLAPS

-----------------------------------------------------------------------------
(* The inductive invariant                                                   *)

Intents == {"auto", "resume", "attach"}
Phases == {"idle", "asking", "opening", "endpoint", "socket", "waiting", "over"}

(* Types. *)
HostTypes ==
  /\ store \in [Agents -> Sessions \cup {None}]
  /\ opening \in [Agents -> {"no", "view", "left_view", "respawn"}]
  /\ news \subseteq Agents /\ born \in Nat /\ output \in Nat

ViewTypes ==
  /\ stale \subseteq [agent : Agents, intent : Intents]
  /\ shown \in Agents \cup {None} /\ phase \in Phases /\ intent \in Intents
  /\ attempts \in 0 .. MaxAttempts /\ liveness \in {"connecting", "live", "dead"}
  /\ screen \in Seq(Seq(Items)) /\ clicks \in Nat /\ lost \in Nat

SocketType == socket \in Sockets \cup {None}

(* The sessions of the store are told apart by their numbers; no spawn is in flight for
   one that is live. *)
StoreSound ==
  /\ \A a \in Agents : store[a] # None =>
       /\ store[a].sid \in 1 .. born /\ store[a].low <= store[a].made
       /\ store[a].made > 0 => store[a].low < store[a].made
       /\ ~store[a].exited => opening[a] = "no"
  /\ \A a, b \in Agents :
       store[a] # None /\ store[b] # None /\ store[a].sid = store[b].sid => a = b

(* The phase says what there is. *)
PhaseSound ==
  /\ shown = None <=> phase = "idle"
  /\ phase = "socket" <=> socket # None
  /\ socket # None => screen # <<>>

ViewSound == ViewTypes /\ SocketType /\ PhaseSound
Based == HostTypes /\ StoreSound /\ ViewSound

(* The frames of a socket: the greeting first, then output, then the exit, then the close,
   and a socket that closed holds nothing back. *)
WireShaped(k) ==
  /\ \A i \in 1 .. Len(k.wire) :
       /\ k.wire[i].t = "hello" => i = 1
       /\ k.wire[i].t = "exit" =>
            i = Len(k.wire) - 1 /\ k.wire[i + 1] = Close("exited")
       /\ k.wire[i].t = "close" => i = Len(k.wire) /\ ~k.open
  /\ ~k.open => k.wire # <<>> /\ k.wire[Len(k.wire)].t = "close" /\ k.pending = <<>>

Exiting(k) == \E i \in 1 .. Len(k.wire) : k.wire[i].t = "exit"
Greets(k) == k.wire # <<>> /\ k.wire[1].t = "hello"
ClosedBy(k, code) == k.wire # <<>> /\ k.wire[Len(k.wire)] = Close(code)

(* A part of the way to the pane is the chunks after one mark up to the next. *)
Run(p, sid, from, to) ==
  /\ from <= to /\ Len(p) = to - from
  /\ \A i \in 1 .. Len(p) : p[i] = [sid |-> sid, n |-> from + i]

Data(frame) == IF frame.t = "output" THEN frame.data ELSE <<>>

Threaded(k, told, m) ==
  /\ m \in [0 .. (Len(k.wire) + 2) -> Nat]
  /\ Run(told, k.sid, m[0], m[1])
  /\ \A i \in 1 .. Len(k.wire) : Run(Data(k.wire[i]), k.sid, m[i], m[i + 1])
  /\ Run(k.pending, k.sid, m[Len(k.wire) + 1], m[Len(k.wire) + 2])

(* The marks begin within the ring and end with the newest chunk. *)
Spans(k, m) ==
  Attached(shown) =>
    /\ m[0] <= store[shown].low
    /\ k.open \/ Exiting(k) => m[Len(k.wire) + 2] = store[shown].made

(* The socket belongs to the agent shown, and is open just as long as its session lives. *)
SocketSound ==
  socket # None =>
    /\ WireShaped(socket)
    /\ \A a \in Agents : Attached(a) => a = shown
    /\ socket.sid # None => socket.sid <= born
    /\ socket.open => Attached(shown) /\ ~store[shown].exited
    /\ Exiting(socket) /\ Attached(shown) => store[shown].exited
    /\ Greets(socket) => Last(screen) = <<>>
    /\ Ended(Last(screen)) => socket.wire = <<Close("exited")>>
    /\ socket.open /\ ~Greets(socket) => liveness = "live"
    /\ ClosedBy(socket, "exited") =>
         Exiting(socket) \/ (liveness = "dead" /\ ~Greets(socket))

Marked == socket # None => \E m : Threaded(socket, Told(Last(screen)), m) /\ Spans(socket, m)

(* What stands on the screen is in order, and a banner under output is true. *)
ScreenSound ==
  /\ \A i \in 1 .. Len(screen) : Contiguous(Told(screen[i]))
  /\ shown # None /\ screen # <<>> /\ Told(Last(screen)) # <<>> =>
       LET last == Last(Told(Last(screen)))
       IN  /\ last.sid # None => last.sid <= born
           /\ Ended(Last(screen)) /\ store[shown] # None /\ store[shown].sid = last.sid =>
                store[shown].exited /\ store[shown].made = last.n

Seen == SocketSound /\ Marked /\ ScreenSound

(* A session that runs although the pane is done with it was launched for someone else,
   or the pane is about to be told. *)
Unasked ==
  \/ store[shown].by = "left_view" \/ (intent = "attach" /\ store[shown].by = "view")
  \/ store[shown].by = "respawn" /\ shown \in news

Settled ==
  /\ shown # None /\ phase \in {"endpoint", "socket", "over"} /\ opening[shown] = "view" =>
       phase = "over" /\ intent = "attach" 
  /\ phase = "over" => /\ liveness = "dead"
                       /\ IsLive(shown) => attempts = MaxAttempts \/ Unasked
  /\ /\ phase = "socket" /\ IsLive(shown)
     /\ ClosedBy(socket, "exited") \/ ClosedBy(socket, "not_found")
     => Unasked

(* The launches that may still come of what was asked so far. *)
Launching == {a \in Agents : opening[a] \in {"view", "left_view"}}
Respawning == {a \in Agents : opening[a] = "respawn"}
Replaceable == {a \in Agents : IsLive(a) /\ store[a].continued}
Calls == {c \in stale : c.intent # "attach"}
Owed == IF phase \in {"asking", "waiting"} /\ intent # "attach" THEN 2 ELSE 0

Spending ==
  born + 2 * Cardinality(Launching) + Cardinality(Respawning) + Cardinality(Replaceable)
    + 2 * Cardinality(Calls) + Owed

Budgeted == IsFiniteSet(stale) /\ Spending <= 2 * (clicks + lost)

-----------------------------------------------------------------------------
(* Sequences of items and runs of them.                                      *)

LEMMA Banners == Banner \in Items /\ \A sid, n : n > 0 => [sid |-> sid, n |-> n] # Banner
  BY DEF Banner, Items

LEMMA FrontIs ==
  ASSUME NEW S, NEW p \in Seq(S), p # <<>>
  PROVE  /\ Front(p) \in Seq(S) /\ Len(Front(p)) = Len(p) - 1
         /\ \A i \in 1 .. (Len(p) - 1) : Front(p)[i] = p[i]
<1>1. Len(p) \in Nat /\ Len(p) >= 1
  OBVIOUS
<1>2. Front(p) = [i \in 1 .. (Len(p) - 1) |-> p[i]]
  <2>1. Front(p) = [i \in 1 .. (Len(p) - 1 - 1 + 1) |-> p[i + 1 - 1]]
    BY DEF Front, SubSeq
  <2> QED
    BY <1>1, <2>1
<1> QED
  BY <1>1, <1>2

LEMMA ToldIs ==
  ASSUME NEW p \in Seq(Items)
  PROVE  /\ Told(p) \in Seq(Items) /\ (~Ended(p) => Told(p) = p)
         /\ Ended(p \o <<Banner>>) /\ Told(p \o <<Banner>>) = p
         /\ ~Ended(<<>>) /\ Told(<<>>) = <<>>
<1>1. Told(p) \in Seq(Items) /\ (~Ended(p) => Told(p) = p)
  BY FrontIs DEF Told, Ended
<1> DEFINE q == p \o <<Banner>>
<1>2. q \in Seq(Items) /\ q # <<>> /\ Len(q) = Len(p) + 1 /\ q[Len(q)] = Banner
      /\ \A i \in 1 .. Len(p) : q[i] = p[i]
  BY Banners
<1> HIDE DEF q
<1>3. Ended(q)
  BY <1>2 DEF Ended, Last
<1>4. Front(q) = p
  <2>1. Front(q) \in Seq(Items) /\ Len(Front(q)) = Len(p) /\ \A i \in 1 .. Len(p) : Front(q)[i] = p[i]
    BY <1>2, FrontIs
  <2> QED
    BY <2>1
<1>5. Told(q) = p
  BY <1>3, <1>4 DEF Told
<1>6. ~Ended(<<>>) /\ Told(<<>>) = <<>>
  BY DEF Ended, Told
<1> QED
  BY <1>1, <1>3, <1>5, <1>6 DEF q

LEMMA ToldNothing ==
  /\ ~Ended(<<>>) /\ Told(<<>>) = <<>> /\ <<>> \in Seq(Items)
  /\ Ended(<<Banner>>) /\ Told(<<Banner>>) = <<>> /\ <<Banner>> \in Seq(Items)
<1>1. ~Ended(<<>>) /\ Told(<<>>) = <<>>
  BY DEF Ended, Told
<1>2. <<>> \in Seq(Items) /\ <<>> \o <<Banner>> = <<Banner>> /\ <<Banner>> \in Seq(Items)
  BY Banners
<1>3. Ended(<<>> \o <<Banner>>) /\ Told(<<>> \o <<Banner>>) = <<>>
  BY <1>2, ToldIs
<1> QED
  BY <1>1, <1>2, <1>3

LEMMA RunEmpty == \A sid : \A n \in Nat : Run(<<>>, sid, n, n)
  BY DEF Run

LEMMA RunJoins ==
  ASSUME NEW p \in Seq(Items), NEW q \in Seq(Items), NEW sid,
         NEW a \in Nat, NEW b \in Nat, NEW c \in Nat, Run(p, sid, a, b), Run(q, sid, b, c)
  PROVE  Run(p \o q, sid, a, c)
<1>1. Len(p) = b - a /\ Len(q) = c - b /\ a <= b /\ b <= c
  BY DEF Run
<1>2. Len(p \o q) = Len(p) + Len(q)
  OBVIOUS
<1>3. ASSUME NEW i \in 1 .. Len(p \o q) PROVE (p \o q)[i] = [sid |-> sid, n |-> a + i]
  <2>1. CASE i <= Len(p)
    <3>1. (p \o q)[i] = p[i] /\ i \in 1 .. Len(p)
      BY <1>1, <1>2, <2>1
    <3> QED
      BY <3>1 DEF Run
  <2>2. CASE i > Len(p)
    <3>1. (p \o q)[i] = q[i - Len(p)] /\ i - Len(p) \in 1 .. Len(q)
      BY <1>1, <1>2, <2>2
    <3>2. q[i - Len(p)] = [sid |-> sid, n |-> b + (i - Len(p))]
      BY <3>1 DEF Run
    <3>3. b + (i - Len(p)) = a + i
      BY <1>1
    <3> QED
      BY <3>1, <3>2, <3>3
  <2> QED
    BY <1>1, <1>2, <2>1, <2>2
<1> QED
  BY <1>1, <1>2, <1>3 DEF Run

(* A run is contiguous and no banner ends it. *)
LEMMA RunPlain ==
  ASSUME NEW p \in Seq(Items), NEW sid, NEW a \in Nat, NEW b \in Nat, Run(p, sid, a, b)
  PROVE  /\ Contiguous(p) /\ ~Ended(p) /\ Told(p) = p
         /\ p = <<>> <=> a = b
         /\ p # <<>> => Last(p).sid = sid /\ Last(p).n = b /\ b > a
<1>1. Len(p) = b - a /\ a <= b /\ \A i \in 1 .. Len(p) : p[i] = [sid |-> sid, n |-> a + i]
  BY DEF Run
<1>2. p = <<>> <=> a = b
  BY <1>1
<1>3. p # <<>> => Last(p) = [sid |-> sid, n |-> b] /\ b > a /\ p[1] = [sid |-> sid, n |-> a + 1]
  <2> SUFFICES ASSUME p # <<>>
               PROVE  Last(p) = [sid |-> sid, n |-> b] /\ b > a /\ p[1] = [sid |-> sid, n |-> a + 1]
    OBVIOUS
  <2>1. Len(p) \in 1 .. Len(p) /\ 1 \in 1 .. Len(p) /\ a + Len(p) = b /\ b > a
    BY <1>1, <1>2
  <2> QED
    BY <1>1, <2>1 DEF Last
<1>4. ~Ended(p)
  BY <1>3, Banners DEF Ended
<1>5. Contiguous(p)
  <2> SUFFICES ASSUME NEW i \in 1 .. (Len(p) - 1)
               PROVE  p[i + 1].sid = p[i].sid /\ p[i + 1].n = p[i].n + 1
    BY DEF Contiguous
  <2>1. i \in 1 .. Len(p) /\ i + 1 \in 1 .. Len(p)
    BY <1>1
  <2>2. p[i] = [sid |-> sid, n |-> a + i] /\ p[i + 1] = [sid |-> sid, n |-> a + (i + 1)]
    BY <1>1, <2>1
  <2> QED
    BY <2>2
<1> QED
  BY <1>2, <1>3, <1>4, <1>5, ToldIs


-----------------------------------------------------------------------------
(* Sockets and what is threaded through them.                                *)

LEMMA Appended ==
  ASSUME NEW S, NEW w \in Seq(S), NEW x \in S
  PROVE  /\ Append(w, x) \in Seq(S) /\ Append(w, x) # <<>>
         /\ Len(Append(w, x)) = Len(w) + 1 /\ Append(w, x)[Len(w) + 1] = x
         /\ \A i \in 1 .. Len(w) : Append(w, x)[i] = w[i]
  OBVIOUS

LEMMA SocketIs ==
  ASSUME NEW k \in Sockets
  PROVE  /\ k.sid \in Nat \cup {None} /\ k.pending \in Seq(Items) /\ k.wire \in Seq(Frames)
         /\ Len(k.wire) \in Nat /\ \A i \in 1 .. Len(k.wire) : k.wire[i] \in Frames
  BY DEF Sockets

LEMMA Rewritten ==
  ASSUME NEW k \in Sockets, NEW w, NEW p
  PROVE  /\ [k EXCEPT !.wire = w, !.pending = p] =
              [sid |-> k.sid, pending |-> p, wire |-> w, open |-> k.open]
         /\ [k EXCEPT !.wire = w] =
              [sid |-> k.sid, pending |-> k.pending, wire |-> w, open |-> k.open]
         /\ [k EXCEPT !.pending = p] =
              [sid |-> k.sid, pending |-> p, wire |-> k.wire, open |-> k.open]
<1> DEFINE x == [k EXCEPT !.wire = w]
<1>1. x = [sid |-> k.sid, pending |-> k.pending, wire |-> w, open |-> k.open]
  BY DEF Sockets
<1>2. [k EXCEPT !.wire = w, !.pending = p] = [x EXCEPT !.pending = p]
  BY Zenon
<1> HIDE DEF x
<1>3. [x EXCEPT !.pending = p] = [sid |-> k.sid, pending |-> p, wire |-> w, open |-> k.open]
  BY <1>1
<1>4. [k EXCEPT !.pending = p] = [sid |-> k.sid, pending |-> p, wire |-> k.wire, open |-> k.open]
  BY DEF Sockets
<1> QED
  BY <1>1, <1>2, <1>3, <1>4 DEF x

LEMMA FrameIs ==
  /\ \A f \in Frames : Data(f) \in Seq(Items) /\ f.t \in {"hello", "exit", "output", "close"}
  /\ \A p \in Seq(Items) : Out(p) \in Frames /\ Data(Out(p)) = p /\ Out(p).t = "output"
  /\ Frame("hello") \in Frames /\ Frame("hello").t = "hello" /\ Data(Frame("hello")) = <<>>
  /\ Frame("exit") \in Frames /\ Frame("exit").t = "exit" /\ Data(Frame("exit")) = <<>>
  /\ \A c \in {"exited", "not_found", "slow_consumer"} :
       Close(c) \in Frames /\ Close(c).t = "close" /\ Data(Close(c)) = <<>> /\ Close(c).code = c
<1>1. \A f \in Frames : Data(f) \in Seq(Items) /\ f.t \in {"hello", "exit", "output", "close"}
  <2> SUFFICES ASSUME NEW f \in Frames
               PROVE  Data(f) \in Seq(Items) /\ f.t \in {"hello", "exit", "output", "close"}
    OBVIOUS
  <2>1. CASE f \in [t : {"hello", "exit"}]
    BY <2>1 DEF Data
  <2>2. CASE f \in [t : {"output"}, data : Seq(Items)]
    BY <2>2 DEF Data
  <2>3. CASE f \in [t : {"close"}, code : {"exited", "not_found", "slow_consumer"}]
    <3>1. f.t = "close"
      BY <2>3
    <3> QED
      BY <3>1 DEF Data
  <2> QED
    BY <2>1, <2>2, <2>3 DEF Frames
<1>2. \A p \in Seq(Items) : Out(p) \in Frames /\ Data(Out(p)) = p /\ Out(p).t = "output"
  BY DEF Frames, Data, Out
<1>3. \A t \in {"hello", "exit"} :
        Frame(t) \in Frames /\ Frame(t).t = t /\ Data(Frame(t)) = <<>>
  BY DEF Frames, Data, Frame
<1>4. \A c \in {"exited", "not_found", "slow_consumer"} :
        Close(c) \in Frames /\ Close(c).t = "close" /\ Data(Close(c)) = <<>> /\ Close(c).code = c
  BY DEF Frames, Data, Close
<1> QED
  BY <1>1, <1>2, <1>3, <1>4

(* A frame goes out and the batch becomes another: the marks before it stay. *)
Extended(k, m, x, y) ==
  [j \in 0 .. (Len(k.wire) + 3) |->
     IF j <= Len(k.wire) + 1 THEN m[j] ELSE IF j = Len(k.wire) + 2 THEN x ELSE y]

LEMMA Sends ==
  ASSUME NEW k \in Sockets, NEW e \in Sockets, NEW told, NEW m, NEW f \in Frames,
         NEW x \in Nat, NEW y \in Nat,
         Threaded(k, told, m), e.wire = Append(k.wire, f), e.sid = k.sid,
         Run(Data(f), k.sid, m[Len(k.wire) + 1], x), Run(e.pending, k.sid, x, y)
  PROVE  LET n == Extended(k, m, x, y)
         IN  /\ Threaded(e, told, n) /\ n[0] = m[0] /\ n[Len(e.wire) + 2] = y
             /\ n[Len(e.wire) + 1] = x
<1> DEFINE n == Extended(k, m, x, y)
           W == Len(k.wire)
<1>1. W \in Nat /\ Len(e.wire) = W + 1 /\ e.wire[W + 1] = f
      /\ \A i \in 1 .. W : e.wire[i] = k.wire[i]
  BY SocketIs
<1>2. m \in [0 .. (W + 2) -> Nat]
  BY DEF Threaded
<1>3. /\ n \in [0 .. (W + 3) -> Nat] /\ n[W + 2] = x /\ n[W + 3] = y
      /\ \A j \in 0 .. (W + 1) : n[j] = m[j]
  <2>1. \A j \in 0 .. (W + 1) : m[j] \in Nat
    BY <1>1, <1>2
  <2> QED
    BY <1>1, <2>1 DEF Extended
<1> HIDE DEF n
<1>4. Run(told, e.sid, n[0], n[1])
  <2>1. n[0] = m[0] /\ n[1] = m[1]
    BY <1>1, <1>3
  <2> QED
    BY <2>1 DEF Threaded
<1>5. ASSUME NEW i \in 1 .. (W + 1) PROVE Run(Data(e.wire[i]), e.sid, n[i], n[i + 1])
  <2>1. CASE i = W + 1
    <3>1. n[i] = m[W + 1] /\ n[i + 1] = x
      BY <1>1, <1>3, <2>1
    <3> QED
      BY <1>1, <2>1, <3>1
  <2>2. CASE i \in 1 .. W
    <3>1. n[i] = m[i] /\ n[i + 1] = m[i + 1] /\ e.wire[i] = k.wire[i]
      <4>1. i \in 0 .. (W + 1) /\ i + 1 \in 0 .. (W + 1)
        BY <1>1, <2>2
      <4> QED
        BY <1>1, <1>3, <2>2, <4>1
    <3> QED
      BY <2>2, <3>1 DEF Threaded
  <2> QED
    BY <1>1, <2>1, <2>2
<1>6. Threaded(e, told, n)
  <2>1. Len(e.wire) + 2 = W + 3 /\ Len(e.wire) + 1 = W + 2
    BY <1>1
  <2> QED
    BY <1>1, <1>3, <1>4, <1>5, <2>1 DEF Threaded
<1> QED
  <2>1. Len(e.wire) + 2 = W + 3 /\ Len(e.wire) + 1 = W + 2 /\ n[0] = m[0]
    BY <1>1, <1>3
  <2> QED
    BY <1>3, <1>6, <2>1 DEF n

LEMMA MarksAre ==
  ASSUME NEW k \in Sockets, NEW told, NEW m, Threaded(k, told, m)
  PROVE  /\ Len(k.wire) \in Nat
         /\ \A j \in 0 .. (Len(k.wire) + 2) : m[j] \in Nat
         /\ m[0] \in Nat /\ m[1] \in Nat
         /\ m[Len(k.wire) + 1] \in Nat /\ m[Len(k.wire) + 2] \in Nat
<1>1. Len(k.wire) \in Nat
  BY SocketIs
<1>2. \A j \in 0 .. (Len(k.wire) + 2) : m[j] \in Nat
  BY DEF Threaded
<1> QED
  BY <1>1, <1>2

LEMMA ClosedIs ==
  ASSUME NEW k \in Sockets, NEW c \in {"exited", "not_found", "slow_consumer"}
  PROVE  /\ closed(k, c) \in Sockets /\ closed(k, c).sid = k.sid /\ ~closed(k, c).open
         /\ closed(k, c).wire = Append(k.wire, Close(c)) /\ closed(k, c).pending = <<>>
<1>1. Append(k.wire, Close(c)) \in Seq(Frames)
  <2>1. k.wire \in Seq(Frames)
    BY SocketIs
  <2>2. Close(c) \in Frames
    BY FrameIs
  <2> QED
    BY <2>1, <2>2, Appended
<1>2. closed(k, c) = [sid |-> k.sid, pending |-> <<>>, wire |-> Append(k.wire, Close(c)),
                      open |-> FALSE]
  BY DEF closed
<1>3. closed(k, c) \in Sockets
  <2>1. k.sid \in Nat \cup {None}
    BY SocketIs
  <2>2. <<>> \in Seq(Items)
    OBVIOUS
  <2> QED
    BY <1>1, <1>2, <2>1, <2>2 DEF Sockets
<1> QED
  BY <1>2, <1>3

LEMMA OpenWire ==
  ASSUME NEW k \in Sockets, WireShaped(k), k.open
  PROVE  \A i \in 1 .. Len(k.wire) : k.wire[i].t \notin {"exit", "close"}
<1> SUFFICES ASSUME NEW i \in 1 .. Len(k.wire) PROVE k.wire[i].t \notin {"exit", "close"}
  OBVIOUS
<1>1. k.wire[i].t # "close"
  BY DEF WireShaped
<1>2. ASSUME k.wire[i].t = "exit" PROVE FALSE
  <2>1. i = Len(k.wire) - 1 /\ k.wire[i + 1] = Close("exited")
    BY <1>2 DEF WireShaped
  <2>2. i + 1 \in 1 .. Len(k.wire)
    <3>1. Len(k.wire) \in Nat
      BY SocketIs
    <3> QED
      BY <2>1, <3>1
  <2> QED
    BY <2>1, <2>2, FrameIs DEF WireShaped
<1> QED
  BY <1>1, <1>2

(* The wire of an open socket takes another frame. *)
LEMMA WireGrows ==
  ASSUME NEW k \in Sockets, NEW e \in Sockets, NEW f \in Frames, WireShaped(k), k.open,
         e.wire = Append(k.wire, f), f.t \notin {"hello", "exit"},
         f.t = "close" <=> ~e.open, ~e.open => e.pending = <<>>
  PROVE  /\ WireShaped(e) /\ ~Exiting(e) /\ ~Exiting(k)
         /\ Greets(e) <=> Greets(k)
<1>1. /\ Len(k.wire) \in Nat /\ Len(e.wire) = Len(k.wire) + 1 /\ e.wire[Len(e.wire)] = f
      /\ \A i \in 1 .. Len(k.wire) : e.wire[i] = k.wire[i]
  BY SocketIs, Appended
<1>2. \A i \in 1 .. Len(k.wire) : k.wire[i].t \notin {"exit", "close"}
  BY OpenWire
<1>3. ASSUME NEW i \in 1 .. Len(e.wire)
      PROVE  /\ e.wire[i].t # "exit" /\ (e.wire[i].t = "hello" => i = 1)
             /\ e.wire[i].t = "close" => i = Len(e.wire) /\ ~e.open
  <2>1. CASE i = Len(e.wire)
    BY <1>1, <2>1
  <2>2. CASE i \in 1 .. Len(k.wire)
    BY <1>1, <1>2, <2>2 DEF WireShaped
  <2> QED
    BY <1>1, <2>1, <2>2
<1>4. WireShaped(e)
  <2>1. ~e.open => e.wire # <<>> /\ e.wire[Len(e.wire)].t = "close" /\ e.pending = <<>>
    BY <1>1
  <2>2. \A i \in 1 .. Len(e.wire) :
          /\ e.wire[i].t = "hello" => i = 1
          /\ e.wire[i].t = "exit" =>
               i = Len(e.wire) - 1 /\ e.wire[i + 1] = Close("exited")
          /\ e.wire[i].t = "close" => i = Len(e.wire) /\ ~e.open
    BY <1>3
  <2> QED
    BY <2>1, <2>2 DEF WireShaped
<1>5. Greets(e) <=> Greets(k)
  <2>1. CASE k.wire = <<>>
    BY <1>1, <2>1 DEF Greets
  <2>2. CASE k.wire # <<>>
    <3>1. 1 \in 1 .. Len(k.wire) /\ e.wire[1] = k.wire[1] /\ e.wire # <<>>
      BY <1>1, <2>2
    <3> QED
      BY <2>2, <3>1 DEF Greets
  <2> QED
    BY <2>1, <2>2
<1> QED
  BY <1>2, <1>3, <1>4, <1>5 DEF Exiting


(* A flush of an open socket: the batch is on the wire, or the socket was given up. *)
LEMMA Flushes ==
  ASSUME NEW k \in Sockets, NEW told, NEW m, WireShaped(k), k.open, Threaded(k, told, m)
  PROVE  LET e == flush(k)
         IN  /\ e \in Sockets /\ WireShaped(e) /\ ~Exiting(e) /\ e.sid = k.sid
             /\ Greets(e) <=> Greets(k)
             /\ e.pending = <<>> /\ (~e.open => ClosedBy(e, "slow_consumer"))
             /\ \E n : /\ Threaded(e, told, n) /\ n[0] = m[0]
                       /\ e.open => n[Len(e.wire) + 2] = m[Len(k.wire) + 2]
<1> DEFINE e == flush(k)
           W == Len(k.wire)
<1>1. /\ W \in Nat /\ m[W + 1] \in Nat /\ m[W + 2] \in Nat /\ k.pending \in Seq(Items)
      /\ Run(k.pending, k.sid, m[W + 1], m[W + 2])
  BY SocketIs, MarksAre DEF Threaded
<1>2. CASE k.pending = <<>>
  <2>1. e = k
    BY <1>2 DEF flush
  <2>2. ~Exiting(k)
    BY OpenWire DEF Exiting
  <2> QED
    BY <1>2, <2>1, <2>2
<1>3. CASE k.pending # <<>> /\ Len(Chunks(k.wire)) > MaxBuffered
  <2> DEFINE f == Close("slow_consumer")
  <2>1. e = closed(k, "slow_consumer")
    BY <1>3 DEF flush
  <2>2. /\ e \in Sockets /\ e.sid = k.sid /\ ~e.open /\ e.wire = Append(k.wire, f)
        /\ e.pending = <<>> /\ f \in Frames /\ f.t = "close" /\ Data(f) = <<>>
    BY <2>1, ClosedIs, FrameIs
  <2> HIDE DEF e, f
  <2>3. WireShaped(e) /\ ~Exiting(e) /\ (Greets(e) <=> Greets(k))
    BY <2>2, WireGrows
  <2>4. LET n == Extended(k, m, m[W + 1], m[W + 1]) IN Threaded(e, told, n) /\ n[0] = m[0]
    BY <1>1, <2>2, RunEmpty, Sends, SMTT(30)
  <2>5. ClosedBy(e, "slow_consumer")
    <3>1. Len(e.wire) = W + 1 /\ e.wire[W + 1] = f /\ e.wire # <<>>
      BY <1>1, <2>2, SocketIs, Appended, SMTT(30)
    <3> QED
      BY <3>1 DEF ClosedBy, f
  <2> QED
    BY <2>2, <2>3, <2>4, <2>5 DEF e
<1>4. CASE k.pending # <<>> /\ ~(Len(Chunks(k.wire)) > MaxBuffered)
  <2> DEFINE f == Out(k.pending)
  <2>1. e = [k EXCEPT !.wire = Append(@, f), !.pending = <<>>]
    BY <1>4 DEF flush
  <2>2. f \in Frames /\ f.t = "output" /\ Data(f) = k.pending
    BY <1>1, FrameIs
  <2> HIDE DEF f
  <2>3. /\ e \in Sockets /\ e.sid = k.sid /\ e.open /\ e.wire = Append(k.wire, f)
        /\ e.pending = <<>>
    <3>1. Append(k.wire, f) \in Seq(Frames) /\ <<>> \in Seq(Items)
      BY <2>2, SocketIs, Appended
    <3>2. e = [sid |-> k.sid, pending |-> <<>>, wire |-> Append(k.wire, f), open |-> k.open]
      BY <2>1, Rewritten
    <3> QED
      BY <3>1, <3>2 DEF Sockets
  <2> HIDE DEF e
  <2>4. WireShaped(e) /\ ~Exiting(e) /\ (Greets(e) <=> Greets(k))
    BY <2>2, <2>3, WireGrows
  <2>5. LET n == Extended(k, m, m[W + 2], m[W + 2])
        IN Threaded(e, told, n) /\ n[0] = m[0] /\ n[Len(e.wire) + 2] = m[W + 2]
    BY <1>1, <2>2, <2>3, RunEmpty, Sends, SMTT(30)
  <2> QED
    BY <2>3, <2>4, <2>5 DEF e
<1> QED
  BY <1>2, <1>3, <1>4

(* The exit of the session behind an open socket. *)
LEMMA SinkExits ==
  ASSUME NEW k \in Sockets, NEW told, NEW m, WireShaped(k), k.open, Threaded(k, told, m)
  PROVE  LET e == sinkExit(k)
         IN  /\ e \in Sockets /\ WireShaped(e) /\ ~e.open /\ e.sid = k.sid
             /\ Greets(e) <=> Greets(k)
             /\ ~ClosedBy(e, "not_found") /\ (ClosedBy(e, "exited") => Exiting(e))
             /\ e.wire # <<Close("exited")>>
             /\ \E n : /\ Threaded(e, told, n) /\ n[0] = m[0]
                       /\ Exiting(e) => n[Len(e.wire) + 2] = m[Len(k.wire) + 2]
<1> DEFINE g == flush(k)
           e == sinkExit(k)
           V == Len(g.wire)
<1>1. /\ g \in Sockets /\ WireShaped(g) /\ ~Exiting(g) /\ g.sid = k.sid
      /\ Greets(g) <=> Greets(k)
      /\ g.pending = <<>> /\ (~g.open => ClosedBy(g, "slow_consumer"))
  BY Flushes
<1>2. PICK n : /\ Threaded(g, told, n) /\ n[0] = m[0]
               /\ g.open => n[V + 2] = m[Len(k.wire) + 2]
  BY Flushes
<1> HIDE DEF g
<1>3. CASE ~g.open
  <2>1. e = g
    BY <1>3 DEF sinkExit, g
  <2>2. g.wire[V] = Close("slow_consumer") /\ V \in Nat /\ g.wire # <<>>
    BY <1>1, <1>3, SocketIs DEF ClosedBy
  <2>3. Close("slow_consumer") # Close("exited") /\ Close("slow_consumer") # Close("not_found")
    BY FrameIs
  <2>4. g.wire # <<Close("exited")>>
    BY <2>2, <2>3
  <2> QED
    BY <1>1, <1>2, <1>3, <2>1, <2>2, <2>3, <2>4 DEF ClosedBy
<1>4. CASE g.open
  <2> DEFINE x == Frame("exit")
             h == [g EXCEPT !.wire = Append(@, x)]
             c == Close("exited")
  <2>1. e = closed(h, "exited")
    BY <1>4 DEF sinkExit, g
  <2>2. /\ x \in Frames /\ x.t = "exit" /\ Data(x) = <<>>
        /\ c \in Frames /\ c.t = "close" /\ Data(c) = <<>>
    BY FrameIs
  <2> HIDE DEF x, c
  <2>3. /\ h \in Sockets /\ h.sid = k.sid /\ h.wire = Append(g.wire, x)
        /\ h.pending = <<>>
    <3>1. Append(g.wire, x) \in Seq(Frames)
      BY <1>1, <2>2, SocketIs, Appended
    <3>2. h = [sid |-> g.sid, pending |-> g.pending, wire |-> Append(g.wire, x), open |-> g.open]
      BY <1>1, Rewritten DEF h
    <3> QED
      BY <1>1, <3>1, <3>2 DEF Sockets
  <2> HIDE DEF h
  <2>4. /\ e \in Sockets /\ e.sid = k.sid /\ ~e.open /\ e.wire = Append(h.wire, c)
        /\ e.pending = <<>>
    <3>1. "exited" \in {"exited", "not_found", "slow_consumer"}
      OBVIOUS
    <3>2. /\ closed(h, "exited") \in Sockets /\ closed(h, "exited").sid = h.sid
          /\ ~closed(h, "exited").open /\ closed(h, "exited").wire = Append(h.wire, c)
          /\ closed(h, "exited").pending = <<>>
      BY <2>3, <3>1, ClosedIs, Zenon DEF c
    <3> QED
      BY <2>1, <2>3, <3>2
  <2> HIDE DEF e
  <2>5. /\ V \in Nat /\ Len(e.wire) = V + 2 /\ e.wire[V + 1] = x /\ e.wire[V + 2] = c
        /\ \A i \in 1 .. V : e.wire[i] = g.wire[i]
    <3>1. /\ V \in Nat /\ Len(h.wire) = V + 1 /\ h.wire[V + 1] = x
          /\ \A i \in 1 .. V : h.wire[i] = g.wire[i]
      BY <1>1, <2>2, <2>3, SocketIs, Appended
    <3>2. /\ Len(e.wire) = Len(h.wire) + 1 /\ e.wire[Len(h.wire) + 1] = c
          /\ \A i \in 1 .. Len(h.wire) : e.wire[i] = h.wire[i]
      BY <2>2, <2>3, <2>4, SocketIs, Appended
    <3>3. \A i \in 1 .. V : i \in 1 .. (V + 1)
      BY <3>1
    <3> QED
      BY <3>1, <3>2, <3>3
  <2>6. /\ \A i \in 1 .. V : g.wire[i].t \notin {"exit", "close"}
        /\ \A i \in 1 .. V : g.wire[i].t = "hello" => i = 1
    BY <1>1, <1>4, OpenWire DEF WireShaped
  <2>7. WireShaped(e)
    <3>1. ASSUME NEW i \in 1 .. Len(e.wire)
          PROVE  /\ e.wire[i].t = "hello" => i = 1
                 /\ e.wire[i].t = "exit" => i = Len(e.wire) - 1 /\ e.wire[i + 1] = c
                 /\ e.wire[i].t = "close" => i = Len(e.wire)
      <4>1. i \in 1 .. V \/ i = V + 1 \/ i = V + 2
        BY <2>5
      <4> QED
        BY <2>2, <2>5, <2>6, <4>1, SMTT(30)
    <3> QED
      BY <2>2, <2>4, <2>5, <3>1 DEF WireShaped, c
  <2>8. Exiting(e)
    BY <2>2, <2>5 DEF Exiting
  <2>9. ~ClosedBy(e, "not_found") /\ e.wire # <<c>>
    <3>1. c # Close("not_found")
      BY FrameIs DEF c
    <3> QED
      BY <2>5, <3>1 DEF ClosedBy
  <2>10. Greets(e) <=> Greets(k)
    <3>1. CASE g.wire = <<>>
      <4>1. e.wire[1] = x
        BY <2>5, <3>1
      <4> QED
        BY <1>1, <2>2, <3>1, <4>1 DEF Greets
    <3>2. CASE g.wire # <<>>
      <4>1. 1 \in 1 .. V /\ e.wire # <<>>
        BY <1>1, <2>5, <3>2, SocketIs
      <4>2. e.wire[1] = g.wire[1]
        BY <2>5, <4>1
      <4> QED
        BY <1>1, <3>2, <4>1, <4>2 DEF Greets
    <3> QED
      BY <3>1, <3>2
  <2>11. \E q : /\ Threaded(e, told, q) /\ q[0] = m[0] /\ q[Len(e.wire) + 2] = m[Len(k.wire) + 2]
    <3> DEFINE y == n[V + 2]
               p == Extended(g, n, y, y)
               q == Extended(h, p, y, y)
    <3>1. y \in Nat /\ n[V + 1] \in Nat /\ n[V + 1] = y
      <4>1. y \in Nat /\ n[V + 1] \in Nat
        BY <1>1, <1>2, MarksAre
      <4>2. Run(<<>>, g.sid, n[V + 1], y)
        BY <1>1, <1>2 DEF Threaded
      <4> QED
        BY <4>1, <4>2 DEF Run
    <3>2. Run(Data(x), g.sid, n[V + 1], y) /\ Run(h.pending, g.sid, y, y) /\ g.sid = h.sid
      BY <1>1, <2>2, <2>3, <3>1, RunEmpty
    <3> HIDE DEF y
    <3>3. Threaded(h, told, p) /\ p[0] = n[0] /\ p[Len(h.wire) + 2] = y /\ p[Len(h.wire) + 1] = y
      <4>1. /\ g \in Sockets /\ h \in Sockets /\ x \in Frames /\ y \in Nat
            /\ Threaded(g, told, n) /\ h.wire = Append(g.wire, x) /\ h.sid = g.sid
            /\ Run(Data(x), g.sid, n[Len(g.wire) + 1], y) /\ Run(h.pending, g.sid, y, y)
        BY <1>1, <1>2, <2>2, <2>3, <3>1, <3>2
      <4> QED
        BY <4>1, Sends, SMTT(120)
    <3> HIDE DEF p
    <3>4. Run(Data(c), h.sid, p[Len(h.wire) + 1], y) /\ Run(e.pending, h.sid, y, y)
      BY <2>2, <2>4, <3>1, <3>3, RunEmpty
    <3>5. Threaded(e, told, q) /\ q[0] = p[0] /\ q[Len(e.wire) + 2] = y
      <4>1. /\ h \in Sockets /\ e \in Sockets /\ c \in Frames /\ y \in Nat
            /\ Threaded(h, told, p) /\ e.wire = Append(h.wire, c) /\ e.sid = h.sid
            /\ Run(Data(c), h.sid, p[Len(h.wire) + 1], y) /\ Run(e.pending, h.sid, y, y)
        BY <2>2, <2>3, <2>4, <3>1, <3>3, <3>4
      <4> QED
        BY <4>1, Sends, SMTT(120)
    <3>6. y = m[Len(k.wire) + 2]
      BY <1>2, <1>4 DEF y
    <3> QED
      BY <1>2, <3>3, <3>5, <3>6
  <2> QED
    BY <2>4, <2>7, <2>8, <2>9, <2>10, <2>11 DEF e, c
<1> QED
  BY <1>3, <1>4


-----------------------------------------------------------------------------
(* Sessions, and what a connection begins with.                              *)

LEMMA SessionIs ==
  ASSUME NEW s \in Sessions
  PROVE  /\ s.sid \in Nat /\ s.made \in Nat /\ s.low \in Nat /\ s.exited \in BOOLEAN
         /\ s.continued \in BOOLEAN /\ s.by \in {"view", "left_view", "respawn"}
  BY DEF Sessions

LEMMA ExitIs ==
  ASSUME NEW s \in Sessions
  PROVE  LET e == [s EXCEPT !.exited = TRUE]
         IN  /\ e \in Sessions /\ e.sid = s.sid /\ e.made = s.made /\ e.low = s.low /\ e.exited
             /\ e.continued = s.continued /\ e.by = s.by
  BY DEF Sessions

LEMMA AppendIs ==
  ASSUME NEW s \in Sessions, s.low <= s.made
  PROVE  LET e == appendOutput(s)
         IN  /\ e \in Sessions /\ e.sid = s.sid /\ e.made = s.made + 1 /\ s.low <= e.low
             /\ e.low < e.made /\ e.exited = s.exited /\ e.continued = s.continued /\ e.by = s.by
<1> DEFINE l == IF s.made + 1 - s.low > RingCap THEN s.low + 1 ELSE s.low
           x == [s EXCEPT !.made = @ + 1]
           e == [x EXCEPT !.low = l]
<1>1. /\ x \in Sessions /\ x.made = s.made + 1 /\ x.sid = s.sid /\ x.low = s.low
      /\ x.exited = s.exited /\ x.continued = s.continued /\ x.by = s.by
  BY DEF Sessions
<1>2. l \in Nat /\ s.low <= l /\ l < s.made + 1
  BY ViewAssumption, SessionIs
<1>3. appendOutput(s) = e
  BY Zenon DEF appendOutput
<1> HIDE DEF x, l
<1>4. /\ e \in Sessions /\ e.made = x.made /\ e.sid = x.sid /\ e.low = l
      /\ e.exited = x.exited /\ e.continued = x.continued /\ e.by = x.by
  BY <1>1, <1>2 DEF Sessions
<1> QED
  BY <1>1, <1>2, <1>3, <1>4

LEMMA SessionNew ==
  ASSUME NEW sid \in Nat, NEW continued \in BOOLEAN, NEW by \in {"view", "left_view", "respawn"}
  PROVE  LET s == Session(sid, continued, by)
         IN  /\ s \in Sessions /\ s.sid = sid /\ s.made = 0 /\ s.low = 0 /\ ~s.exited
             /\ s.continued = continued /\ s.by = by
  BY DEF Session, Sessions

LEMMA SnapshotIs ==
  ASSUME NEW s \in Sessions, s.low <= s.made
  PROVE  snapshot(s) \in Seq(Items) /\ Run(snapshot(s), s.sid, s.low, s.made)
<1> DEFINE d == s.made - s.low
           p == [i \in 1 .. d |-> [sid |-> s.sid, n |-> s.low + i]]
<1>1. d \in Nat /\ s.low \in Nat /\ s.made \in Nat /\ s.sid \in Nat \cup {None}
  BY SessionIs
<1>2. p = snapshot(s)
  BY DEF snapshot
<1> HIDE DEF d
<1>3. ASSUME NEW i \in 1 .. d PROVE [sid |-> s.sid, n |-> s.low + i] \in Items
  <2>1. s.low + i \in Nat
    BY <1>1
  <2> QED
    BY <1>1, <2>1 DEF Items
<1>4. p \in [1 .. d -> Items] /\ Len(p) = d
  BY <1>1, <1>3
<1>5. p \in Seq(Items)
  BY <1>1, <1>4
<1> QED
  BY <1>1, <1>2, <1>4, <1>5 DEF Run, d

LEMMA Connects ==
  ASSUME NEW s \in Sessions, s.low <= s.made
  PROVE  LET e == onConnection(s)
         IN  /\ e \in Sockets /\ WireShaped(e) /\ e.sid = s.sid /\ (e.open <=> ~s.exited)
             /\ Greets(e) /\ (Exiting(e) => s.exited)
             /\ ~ClosedBy(e, "not_found") /\ (ClosedBy(e, "exited") => Exiting(e))
             /\ \E n : /\ Threaded(e, <<>>, n) /\ n[0] = s.low
                       /\ e.open \/ Exiting(e) => n[Len(e.wire) + 2] = s.made
<1> DEFINE hello == Frame("hello")
           k == [sid |-> s.sid, pending |-> snapshot(s), wire |-> <<hello>>, open |-> TRUE]
           m == [j \in 0 .. 3 |-> IF j = 3 THEN s.made ELSE s.low]
<1>1. /\ hello \in Frames /\ hello.t = "hello" /\ Data(hello) = <<>>
      /\ s.sid \in Nat \cup {None} /\ s.low \in Nat /\ s.made \in Nat /\ s.exited \in BOOLEAN
  BY FrameIs, SessionIs
<1>2. /\ k \in Sockets /\ k.sid = s.sid /\ k.wire = <<hello>> /\ Len(k.wire) = 1
      /\ k.wire[1] = hello /\ k.pending = snapshot(s)
  BY <1>1, SnapshotIs DEF Sockets
<1>3. k.open
  BY Zenon
<1>4. onConnection(s) = IF s.exited THEN sinkExit(k) ELSE k
  BY Zenon DEF onConnection
<1> HIDE DEF hello, k
<1>5. WireShaped(k)
  <2> SUFFICES \A i \in 1 .. Len(k.wire) : i = 1 /\ k.wire[i].t = "hello"
    BY <1>3 DEF WireShaped
  <2> QED
    BY <1>1, <1>2
<1>6. Greets(k) /\ ~Exiting(k) /\ \A c : ~ClosedBy(k, c)
  <2>1. k.wire # <<>> /\ k.wire[1].t = "hello" /\ k.wire[Len(k.wire)].t = "hello"
    BY <1>1, <1>2
  <2>2. \A c : Close(c).t = "close"
    BY DEF Close
  <2>3. \A i \in 1 .. Len(k.wire) : k.wire[i].t = "hello"
    BY <1>1, <1>2
  <2> QED
    BY <2>1, <2>2, <2>3 DEF Greets, Exiting, ClosedBy
<1>7. Threaded(k, <<>>, m) /\ m[0] = s.low /\ m[3] = s.made
  <2>1. /\ m \in [0 .. 3 -> Nat] /\ m[0] = s.low /\ m[1] = s.low /\ m[2] = s.low
        /\ m[3] = s.made
    BY <1>1
  <2> HIDE DEF m
  <2>2. Run(<<>>, k.sid, m[0], m[1]) /\ Run(Data(hello), k.sid, m[1], m[2])
    BY <1>1, <2>1, RunEmpty
  <2>3. Run(k.pending, k.sid, m[2], m[3])
    BY <1>2, <2>1, SnapshotIs
  <2>4. \A i \in 1 .. Len(k.wire) : Run(Data(k.wire[i]), k.sid, m[i], m[i + 1])
    BY <1>2, <2>2
  <2>5. Len(k.wire) + 2 = 3 /\ Len(k.wire) + 1 = 2
    BY <1>2
  <2> QED
    BY <2>1, <2>2, <2>3, <2>4, <2>5 DEF Threaded
<1> HIDE DEF m
<1>8. CASE ~s.exited
  <2>1. onConnection(s) = k
    BY <1>4, <1>8
  <2>2. Len(k.wire) + 2 = 3
    BY <1>2
  <2> QED
    BY <1>2, <1>3, <1>5, <1>6, <1>7, <1>8, <2>1, <2>2
<1>9. CASE s.exited
  <2> DEFINE e == sinkExit(k)
  <2>1. /\ e \in Sockets /\ WireShaped(e) /\ ~e.open /\ e.sid = k.sid
        /\ (Greets(e) <=> Greets(k))
        /\ ~ClosedBy(e, "not_found") /\ (ClosedBy(e, "exited") => Exiting(e))
    BY <1>2, <1>3, <1>5, <1>7, SinkExits
  <2>2. PICK n : /\ Threaded(e, <<>>, n) /\ n[0] = m[0]
                 /\ Exiting(e) => n[Len(e.wire) + 2] = m[Len(k.wire) + 2]
    BY <1>2, <1>3, <1>5, <1>7, SinkExits
  <2>3. onConnection(s) = e /\ Len(k.wire) + 2 = 3
    BY <1>2, <1>4, <1>9
  <2> HIDE DEF e
  <2> QED
    BY <1>2, <1>6, <1>7, <1>9, <2>1, <2>2, <2>3
<1> QED
  BY <1>1, <1>8, <1>9

LEMMA NotFoundIs ==
  /\ notFound \in Sockets /\ WireShaped(notFound) /\ notFound.sid = None /\ ~notFound.open
  /\ ~Greets(notFound) /\ ~Exiting(notFound) /\ ~ClosedBy(notFound, "exited")
  /\ \E n : Threaded(notFound, <<>>, n)
<1> DEFINE c == Close("not_found")
           e == notFound
           m == [j \in 0 .. 3 |-> 0]
<1>1. c \in Frames /\ c.t = "close" /\ Data(c) = <<>> /\ c # Close("exited")
  BY FrameIs
<1>2. /\ e.sid = None /\ e.wire = <<c>> /\ e.pending = <<>> /\ ~e.open /\ e \in Sockets
      /\ Len(e.wire) = 1 /\ e.wire[1] = c
  <2>1. e = [sid |-> None, pending |-> <<>>, wire |-> Append(<<>>, c), open |-> FALSE]
    BY DEF notFound, closed
  <2>2. Append(<<>>, c) = <<c>>
    OBVIOUS
  <2>3. <<c>> \in Seq(Frames)
    BY <1>1
  <2> HIDE DEF c
  <2> QED
    BY <2>1, <2>2, <2>3 DEF Sockets
<1> HIDE DEF c, e
<1>3. WireShaped(e) /\ ~Greets(e) /\ ~Exiting(e)
  <2>1. \A i \in 1 .. Len(e.wire) : i = 1 /\ e.wire[i].t = "close"
    BY <1>1, <1>2
  <2>2. e.wire # <<>>
    BY <1>2
  <2> QED
    BY <1>1, <1>2, <2>1, <2>2 DEF WireShaped, Greets, Exiting
<1>4. ~ClosedBy(e, "exited")
  BY <1>1, <1>2 DEF ClosedBy
<1>5. Threaded(e, <<>>, m)
  <2>1. m \in [0 .. 3 -> Nat] /\ m[0] = 0 /\ m[1] = 0 /\ m[2] = 0 /\ m[3] = 0
    OBVIOUS
  <2> HIDE DEF m
  <2>2. Run(<<>>, e.sid, m[0], m[1]) /\ Run(Data(c), e.sid, m[1], m[2])
        /\ Run(e.pending, e.sid, m[2], m[3])
    BY <1>1, <1>2, <2>1, RunEmpty
  <2>3. \A i \in 1 .. Len(e.wire) : Run(Data(e.wire[i]), e.sid, m[i], m[i + 1])
    BY <1>2, <2>2
  <2>4. Len(e.wire) + 2 = 3 /\ Len(e.wire) + 1 = 2
    BY <1>2
  <2> QED
    BY <2>1, <2>2, <2>3, <2>4 DEF Threaded
<1> QED
  BY <1>2, <1>3, <1>4, <1>5 DEF e

-----------------------------------------------------------------------------
(* Types, the store and the phase.                                           *)

LEMMA Stored ==
  ASSUME HostTypes, NEW a \in Agents, store[a] # None
  PROVE  store[a] \in Sessions
  BY DEF HostTypes

LEMMA LiveIs ==
  ASSUME HostTypes, StoreSound, NEW a \in Agents, IsLive(a)
  PROVE  store[a] \in Sessions /\ store[a] # None /\ ~store[a].exited /\ opening[a] = "no"
  BY Stored DEF StoreSound, IsLive

LEMMA HostStays ==
  ASSUME HostTypes, StoreSound, UNCHANGED <<store, opening, born>>, output' \in Nat,
         news' \subseteq Agents
  PROVE  HostTypes' /\ StoreSound'
<1>1. HostTypes'
  BY DEF HostTypes
<1>2. StoreSound'
  BY DEF StoreSound
<1> QED
  BY <1>1, <1>2

LEMMA LaunchKeeps ==
  ASSUME HostTypes, StoreSound, NEW a \in Agents, NEW i \in Intents,
         NEW held, NEW by \in {"view", "left_view"}, Launched(a, i, held, by),
         UNCHANGED <<store, news, born, output>>
  PROVE  HostTypes' /\ StoreSound'
<1>1. CASE opening' = opening
  BY <1>1, HostStays DEF HostTypes
<1>2. CASE opening' # opening
  <2>1. opening' = [opening EXCEPT ![a] = by] /\ ~IsLive(a)
    BY <1>2 DEF Launched, openOrAttach
  <2>2. HostTypes'
    BY <2>1 DEF HostTypes
  <2>3. \A b \in Agents : b # a => opening'[b] = opening[b]
    BY <2>1 DEF HostTypes
  <2>4. StoreSound'
    BY <2>1, <2>3 DEF StoreSound, IsLive
  <2> QED
    BY <2>2, <2>4
<1> QED
  BY <1>1, <1>2

LEMMA SpawnKeeps ==
  ASSUME HostTypes, StoreSound, NEW a \in Agents, NEW ok \in BOOLEAN, NEW continued \in BOOLEAN,
         Spawned(a, ok, continued)
  PROVE  HostTypes' /\ StoreSound'
<1>1. /\ opening' = [opening EXCEPT ![a] = "no"] /\ output' = output
      /\ opening' \in [Agents -> {"no", "view", "left_view", "respawn"}] /\ opening'[a] = "no"
      /\ \A b \in Agents : b # a => opening'[b] = opening[b]
      /\ opening[a] \in {"view", "left_view", "respawn"} /\ born \in Nat
  BY DEF Spawned, HostTypes
<1>2. CASE ok
  <2> DEFINE s == Session(born + 1, continued, opening[a])
  <2>1. born' = born + 1 /\ store' = [store EXCEPT ![a] = s] /\ news' \subseteq Agents
    BY <1>2 DEF Spawned, HostTypes
  <2>2. s \in Sessions /\ s.sid = born + 1 /\ s.made = 0 /\ s.low = 0 /\ ~s.exited
    BY <1>1, SessionNew
  <2> HIDE DEF s
  <2>3. /\ store'[a] = s /\ \A b \in Agents : b # a => store'[b] = store[b]
        /\ store' \in [Agents -> Sessions \cup {None}]
    BY <2>1, <2>2 DEF HostTypes
  <2>4. HostTypes'
    BY <1>1, <2>1, <2>3 DEF HostTypes
  <2>5. ASSUME NEW b \in Agents, store'[b] # None
        PROVE  /\ store'[b].sid \in 1 .. born' /\ store'[b].low <= store'[b].made
               /\ store'[b].made > 0 => store'[b].low < store'[b].made
               /\ ~store'[b].exited => opening'[b] = "no"
    <3>1. CASE b = a
      BY <1>1, <2>1, <2>2, <2>3, <3>1
    <3>2. CASE b # a
      <4>1. store[b].sid \in 1 .. born
        BY <2>3, <2>5, <3>2 DEF StoreSound
      <4>2. store[b].sid \in 1 .. born'
        BY <1>1, <2>1, <4>1
      <4> QED
        BY <1>1, <2>3, <2>5, <3>2, <4>2 DEF StoreSound
    <3> QED
      BY <3>1, <3>2
  <2>6. ASSUME NEW b \in Agents, NEW c \in Agents, store'[b] # None, store'[c] # None,
               store'[b].sid = store'[c].sid
        PROVE  b = c
    <3>1. \A d \in Agents : d # a /\ store[d] # None => store[d].sid # born + 1
      BY <1>1 DEF StoreSound
    <3>2. CASE b # a /\ c # a
      BY <2>3, <2>6, <3>2 DEF StoreSound
    <3>3. CASE b = a \/ c = a
      BY <2>2, <2>3, <2>6, <3>1, <3>3
    <3> QED
      BY <3>2, <3>3
  <2> QED
    BY <2>4, <2>5, <2>6 DEF StoreSound
<1>3. CASE ~ok
  <2>1. /\ born' = born /\ news' = news
        /\ store' = store \/ store' = [store EXCEPT ![a] = None]
    BY <1>3 DEF Spawned
  <2>2. /\ \A b \in Agents : store'[b] # None => store'[b] = store[b]
        /\ store' \in [Agents -> Sessions \cup {None}]
    BY <2>1 DEF HostTypes
  <2>3. HostTypes'
    BY <1>1, <2>1, <2>2 DEF HostTypes
  <2>4. \A b \in Agents : opening[b] = "no" => opening'[b] = "no"
    BY <1>1
  <2>5. StoreSound'
    <3> SUFFICES /\ \A b \in Agents : store'[b] # None =>
                      /\ store'[b].sid \in 1 .. born /\ store'[b].low <= store'[b].made
                      /\ store'[b].made > 0 => store'[b].low < store'[b].made
                      /\ ~store'[b].exited => opening'[b] = "no"
                 /\ \A b, c \in Agents :
                      store'[b] # None /\ store'[c] # None /\ store'[b].sid = store'[c].sid => b = c
      BY <2>1 DEF StoreSound
    <3> QED
      BY <2>2, <2>4 DEF StoreSound
  <2> QED
    BY <2>3, <2>5
<1> QED
  BY <1>2, <1>3

(* A session of the store becomes another state of itself. *)
LEMMA SessionMoves ==
  ASSUME HostTypes, StoreSound, NEW a \in Agents, store[a] # None, NEW s \in Sessions,
         s.sid = store[a].sid, s.low <= s.made, s.made > 0 => s.low < s.made,
         store' = [store EXCEPT ![a] = s],
         opening' \in [Agents -> {"no", "view", "left_view", "respawn"}],
         ~s.exited => opening'[a] = "no",
         \A b \in Agents : b # a => opening'[b] = opening[b],
         UNCHANGED <<news, born>>, output' \in Nat
  PROVE  HostTypes' /\ StoreSound'
<1>1. /\ store'[a] = s /\ \A b \in Agents : b # a => store'[b] = store[b]
      /\ store' \in [Agents -> Sessions \cup {None}]
  BY DEF HostTypes
<1>2. \A b \in Agents : (store'[b] # None <=> store[b] # None)
        /\ (store[b] # None => store'[b].sid = store[b].sid)
  <2>1. s # None
    BY ViewAssumption
  <2> QED
    BY <1>1, <2>1
<1>3. HostTypes'
  BY <1>1 DEF HostTypes
<1>4. ASSUME NEW b \in Agents, store'[b] # None
      PROVE  /\ store'[b].sid \in 1 .. born /\ store'[b].low <= store'[b].made
             /\ store'[b].made > 0 => store'[b].low < store'[b].made
             /\ ~store'[b].exited => opening'[b] = "no"
  <2>1. store[b] # None /\ store[b].sid \in 1 .. born
    BY <1>2, <1>4 DEF StoreSound
  <2>2. store'[b].sid \in 1 .. born
    BY <1>2, <2>1
  <2>3. CASE b = a
    BY <1>1, <2>2, <2>3
  <2>4. CASE b # a
    BY <1>1, <2>1, <2>2, <2>4 DEF StoreSound
  <2> QED
    BY <2>3, <2>4
<1>5. \A b, c \in Agents :
        store'[b] # None /\ store'[c] # None /\ store'[b].sid = store'[c].sid => b = c
  BY <1>2 DEF StoreSound
<1> QED
  BY <1>3, <1>4, <1>5 DEF StoreSound

LEMMA ProduceKeeps ==
  ASSUME HostTypes, StoreSound, NEW a \in Agents, Produce(a)
  PROVE  HostTypes' /\ StoreSound'
<1> DEFINE s == appendOutput(store[a])
<1>1. /\ store[a] \in Sessions /\ store[a] # None /\ ~store[a].exited /\ opening[a] = "no"
      /\ store[a].low <= store[a].made
  BY LiveIs DEF Produce, StoreSound
<1>2. /\ s \in Sessions /\ s.sid = store[a].sid /\ s.low < s.made /\ s.low <= s.made
      /\ s.exited = store[a].exited
  <2>1. /\ s \in Sessions /\ s.sid = store[a].sid /\ s.low < s.made
        /\ s.exited = store[a].exited
    BY <1>1, AppendIs
  <2> QED
    BY <2>1, SessionIs
<1>3. /\ store' = [store EXCEPT ![a] = s] /\ UNCHANGED <<opening, news, born>>
      /\ output' = output + 1
  BY DEF Produce
<1>4. /\ opening' \in [Agents -> {"no", "view", "left_view", "respawn"}] /\ output' \in Nat
      /\ opening'[a] = "no" /\ \A b \in Agents : b # a => opening'[b] = opening[b]
  BY <1>1, <1>3 DEF HostTypes
<1> HIDE DEF s
<1> QED
  BY <1>1, <1>2, <1>3, <1>4, SessionMoves

LEMMA ExitKeeps ==
  ASSUME HostTypes, StoreSound, NEW a \in Agents, NEW young \in BOOLEAN, Exit(a, young)
  PROVE  HostTypes' /\ StoreSound'
<1> DEFINE s == [store[a] EXCEPT !.exited = TRUE]
<1>1. /\ store[a] \in Sessions /\ store[a] # None /\ opening[a] = "no"
      /\ store[a].low <= store[a].made /\ (store[a].made > 0 => store[a].low < store[a].made)
  BY LiveIs DEF Exit, StoreSound
<1>2. /\ s \in Sessions /\ s.sid = store[a].sid /\ s.low = store[a].low /\ s.made = store[a].made
      /\ s.exited
  BY <1>1, ExitIs
<1>3. store' = [store EXCEPT ![a] = s] /\ UNCHANGED <<news, born, output>>
  BY DEF Exit
<1>4. opening' = opening \/ opening' = [opening EXCEPT ![a] = "respawn"]
  BY DEF Exit
<1>5. /\ opening' \in [Agents -> {"no", "view", "left_view", "respawn"}]
      /\ \A b \in Agents : b # a => opening'[b] = opening[b]
  BY <1>4 DEF HostTypes
<1>6. s.low <= s.made /\ (s.made > 0 => s.low < s.made)
  BY <1>1, <1>2
<1> HIDE DEF s
<1> QED
  BY <1>1, <1>2, <1>3, <1>5, <1>6, SessionMoves DEF HostTypes

LEMMA DropKeeps ==
  ASSUME HostTypes, StoreSound, NEW hostDied \in BOOLEAN, Drop(hostDied)
  PROVE  HostTypes' /\ StoreSound'
<1>1. CASE hostDied
  <2>1. /\ store' = [a \in Agents |-> None] /\ opening' = [a \in Agents |-> "no"] /\ news' = {}
        /\ born' = born /\ output' = output
    BY <1>1 DEF Drop
  <2> QED
    BY <2>1 DEF HostTypes, StoreSound
<1>2. CASE ~hostDied
  BY <1>2, HostStays DEF Drop, HostTypes
<1> QED
  BY <1>1, <1>2

(* What an action does to the host, in sum. *)
LEMMA HostKept ==
  ASSUME Based, [Next]_vars
  PROVE  HostTypes' /\ StoreSound'
<1>1. HostTypes /\ StoreSound
  BY DEF Based
<1>2. CASE UNCHANGED <<store, opening, born, output>> /\ news' \subseteq news
  BY <1>1, <1>2, HostStays DEF HostTypes
<1>3. ASSUME NEW a \in Agents, NEW ok \in BOOLEAN, NEW continued \in BOOLEAN,
             Spawned(a, ok, continued)
      PROVE  HostTypes' /\ StoreSound'
  BY <1>1, <1>3, SpawnKeeps
<1>4. ASSUME NEW a \in Agents, Produce(a) PROVE HostTypes' /\ StoreSound'
  BY <1>1, <1>4, ProduceKeeps
<1>5. ASSUME NEW a \in Agents, NEW young \in BOOLEAN, Exit(a, young)
      PROVE  HostTypes' /\ StoreSound'
  BY <1>1, <1>5, ExitKeeps
<1>6. ASSUME NEW hostDied \in BOOLEAN, Drop(hostDied) PROVE HostTypes' /\ StoreSound'
  BY <1>1, <1>6, DropKeeps
<1>7. ASSUME NEW held \in BOOLEAN, HostAnswers(held) PROVE HostTypes' /\ StoreSound'
  <2>1. shown \in Agents /\ intent \in Intents
    BY <1>7 DEF HostAnswers, Based, ViewSound, ViewTypes, PhaseSound
  <2> QED
    BY <1>1, <1>7, <2>1, LaunchKeeps DEF HostAnswers
<1>8. ASSUME NEW call \in stale, NEW held \in BOOLEAN, ServesStale(call, held)
      PROVE  HostTypes' /\ StoreSound'
  <2>1. call.agent \in Agents /\ call.intent \in Intents
    BY DEF Based, ViewSound, ViewTypes
  <2> QED
    BY <1>1, <1>8, <2>1, LaunchKeeps DEF ServesStale
<1>9. CASE \/ resume \/ detach \/ RetryFires \/ openSocket \/ Receive \/ Flush
           \/ (\E a \in Agents : attach(a) \/ reconnect(a)) \/ UNCHANGED vars
  <2>1. UNCHANGED <<store, opening, born, output>> /\ news' \subseteq news
    BY <1>9 DEF resume, detach, RetryFires, openSocket, Receive, Flush, attach, reconnect,
                vars, hostVars
  <2> QED
    BY <1>2, <2>1
<1> QED
  BY <1>3, <1>4, <1>5, <1>6, <1>7, <1>8, <1>9 DEF Next

-----------------------------------------------------------------------------
(* A frame is taken from the wire.                                           *)

Shifted(k, m) == [j \in 0 .. (Len(k.wire) + 1) |-> IF j = 0 THEN m[0] ELSE m[j + 1]]

LEMMA TailIs ==
  ASSUME NEW k \in Sockets, k.wire # <<>>
  PROVE  LET e == [k EXCEPT !.wire = Tail(@)]
         IN  /\ e \in Sockets /\ e.sid = k.sid /\ e.pending = k.pending /\ e.open = k.open
             /\ Len(e.wire) + 1 = Len(k.wire) /\ Head(k.wire) = k.wire[1]
             /\ k.wire[1] \in Frames
             /\ \A i \in 1 .. Len(e.wire) : e.wire[i] = k.wire[i + 1]
<1> DEFINE w == Tail(k.wire)
<1>1. /\ k.wire \in Seq(Frames) /\ Len(k.wire) \in Nat /\ Len(k.wire) >= 1
  BY SocketIs
<1>2. /\ w \in Seq(Frames) /\ Len(w) = Len(k.wire) - 1 /\ Head(k.wire) = k.wire[1]
      /\ k.wire[1] \in Frames /\ \A i \in 1 .. Len(w) : w[i] = k.wire[i + 1]
  BY <1>1
<1>3. [k EXCEPT !.wire = Tail(@)] =
        [sid |-> k.sid, pending |-> k.pending, wire |-> w, open |-> k.open]
  BY Rewritten
<1> HIDE DEF w
<1>4. [sid |-> k.sid, pending |-> k.pending, wire |-> w, open |-> k.open] \in Sockets
  BY <1>2 DEF Sockets
<1> QED
  BY <1>1, <1>2, <1>3, <1>4

LEMMA Takes ==
  ASSUME NEW k \in Sockets, NEW e \in Sockets, NEW told \in Seq(Items), NEW m, k.wire # <<>>,
         Threaded(k, told, m), e.sid = k.sid, e.pending = k.pending,
         Len(e.wire) + 1 = Len(k.wire), \A i \in 1 .. Len(e.wire) : e.wire[i] = k.wire[i + 1]
  PROVE  LET n == Shifted(k, m)
         IN  /\ Threaded(e, told \o Data(k.wire[1]), n) /\ n[0] = m[0]
             /\ n[Len(e.wire) + 2] = m[Len(k.wire) + 2]
<1> DEFINE n == Shifted(k, m)
           W == Len(k.wire)
<1>1. W \in Nat /\ W >= 1 /\ Len(e.wire) = W - 1 /\ k.wire[1] \in Frames
  BY SocketIs
<1>2. m \in [0 .. (W + 2) -> Nat] /\ \A j \in 0 .. (W + 2) : m[j] \in Nat
  BY DEF Threaded
<1>3. /\ n \in [0 .. (W + 1) -> Nat] /\ n[0] = m[0]
      /\ \A j \in 1 .. (W + 1) : n[j] = m[j + 1]
  BY <1>1, <1>2 DEF Shifted
<1> HIDE DEF n
<1>4. Run(told \o Data(k.wire[1]), e.sid, n[0], n[1])
  <2>1. 1 \in 1 .. W /\ 0 \in 0 .. (W + 2) /\ 1 \in 0 .. (W + 2) /\ 2 \in 0 .. (W + 2)
    BY <1>1
  <2>2. Run(told, k.sid, m[0], m[1]) /\ Run(Data(k.wire[1]), k.sid, m[1], m[2])
    BY <2>1 DEF Threaded
  <2>3. Data(k.wire[1]) \in Seq(Items) /\ m[0] \in Nat /\ m[1] \in Nat /\ m[2] \in Nat
    BY <1>1, <1>2, <2>1, FrameIs
  <2>4. Run(told \o Data(k.wire[1]), k.sid, m[0], m[2])
    BY <2>2, <2>3, RunJoins
  <2>5. n[0] = m[0] /\ n[1] = m[2]
    BY <1>1, <1>3
  <2> QED
    BY <2>4, <2>5
<1>5. ASSUME NEW i \in 1 .. Len(e.wire)
      PROVE  Run(Data(e.wire[i]), e.sid, n[i], n[i + 1])
  <2>1. i + 1 \in 1 .. W /\ i \in 1 .. (W + 1) /\ i + 1 \in 1 .. (W + 1)
    BY <1>1
  <2>2. n[i] = m[i + 1] /\ n[i + 1] = m[i + 1 + 1] /\ e.wire[i] = k.wire[i + 1]
    BY <1>3, <2>1
  <2>3. Run(Data(k.wire[i + 1]), k.sid, m[i + 1], m[i + 1 + 1])
    BY <2>1 DEF Threaded
  <2> QED
    BY <2>2, <2>3
<1>6. /\ n[Len(e.wire) + 1] = m[W + 1] /\ n[Len(e.wire) + 2] = m[W + 2]
  <2>1. /\ Len(e.wire) + 1 = W /\ Len(e.wire) + 2 = W + 1 /\ W \in 1 .. (W + 1)
        /\ W + 1 \in 1 .. (W + 1) /\ W + 1 + 1 = W + 2
    BY <1>1
  <2> QED
    BY <1>3, <2>1
<1>7. Run(e.pending, e.sid, n[Len(e.wire) + 1], n[Len(e.wire) + 2])
  BY <1>6 DEF Threaded
<1>8. n \in [0 .. (Len(e.wire) + 2) -> Nat]
  <2>1. Len(e.wire) + 2 = W + 1
    BY <1>1
  <2> QED
    BY <1>3, <2>1
<1>9. Threaded(e, told \o Data(k.wire[1]), n)
  BY <1>4, <1>5, <1>7, <1>8 DEF Threaded
<1> QED
  BY <1>3, <1>6, <1>9 DEF n

LEMMA WireShrinks ==
  ASSUME NEW k \in Sockets, NEW e \in Sockets, WireShaped(k), k.wire # <<>>,
         k.wire[1].t # "close", e.pending = k.pending, e.open = k.open,
         Len(e.wire) + 1 = Len(k.wire), \A i \in 1 .. Len(e.wire) : e.wire[i] = k.wire[i + 1]
  PROVE  /\ WireShaped(e) /\ ~Greets(e) /\ (Exiting(e) => Exiting(k))
         /\ Exiting(k) => Exiting(e) \/ k.wire[1].t = "exit"
         /\ \A c : ClosedBy(e, c) => ClosedBy(k, c)
         /\ k.wire[1].t = "exit" => e.wire = <<Close("exited")>> /\ ~k.open
<1> DEFINE W == Len(k.wire)
<1>1. W \in Nat /\ W >= 1 /\ Len(e.wire) = W - 1
  BY SocketIs
<1>2. \A i \in 1 .. Len(e.wire) : i + 1 \in 1 .. W /\ i + 1 # 1
  BY <1>1
<1>3. \A i \in 1 .. Len(e.wire) :
        /\ e.wire[i].t # "hello"
        /\ e.wire[i].t = "exit" => i = Len(e.wire) - 1 /\ e.wire[i + 1] = Close("exited")
        /\ e.wire[i].t = "close" => i = Len(e.wire) /\ ~e.open
  <2> SUFFICES ASSUME NEW i \in 1 .. Len(e.wire)
               PROVE  /\ e.wire[i].t # "hello"
                      /\ e.wire[i].t = "exit" =>
                           i = Len(e.wire) - 1 /\ e.wire[i + 1] = Close("exited")
                      /\ e.wire[i].t = "close" => i = Len(e.wire) /\ ~e.open
    OBVIOUS
  <2>1. i + 1 \in 1 .. W /\ i + 1 # 1 /\ e.wire[i] = k.wire[i + 1]
    BY <1>2
  <2>2. ASSUME e.wire[i].t = "exit"
        PROVE  i = Len(e.wire) - 1 /\ e.wire[i + 1] = Close("exited")
    <3>1. i + 1 = W - 1 /\ k.wire[i + 1 + 1] = Close("exited")
      BY <2>1, <2>2 DEF WireShaped
    <3>2. i = Len(e.wire) - 1 /\ i + 1 \in 1 .. Len(e.wire)
      BY <1>1, <3>1
    <3> QED
      BY <3>1, <3>2
  <2>3. ASSUME e.wire[i].t = "close" PROVE i = Len(e.wire) /\ ~e.open
    <3>1. i + 1 = W /\ ~k.open
      BY <2>1, <2>3 DEF WireShaped
    <3> QED
      BY <1>1, <3>1
  <2> QED
    BY <2>1, <2>2, <2>3 DEF WireShaped
<1>4. ASSUME ~k.open
      PROVE  e.wire # <<>> /\ e.wire[Len(e.wire)] = k.wire[W] /\ k.wire[W].t = "close"
             /\ e.pending = <<>>
  <2>1. k.wire[W].t = "close" /\ k.pending = <<>>
    BY <1>4 DEF WireShaped
  <2>2. W >= 2
    BY <1>1, <2>1
  <2>3. Len(e.wire) \in 1 .. Len(e.wire) /\ Len(e.wire) + 1 = W
    BY <1>1, <2>2
  <2> QED
    BY <2>1, <2>3
<1>5. WireShaped(e)
  BY <1>3, <1>4 DEF WireShaped
<1>6. ~Greets(e)
  <2>1. e.wire # <<>> => 1 \in 1 .. Len(e.wire)
    BY <1>1, SocketIs
  <2> QED
    BY <1>3, <2>1 DEF Greets
<1>7. Exiting(e) => Exiting(k)
  BY <1>2 DEF Exiting
<1>8. Exiting(k) => Exiting(e) \/ k.wire[1].t = "exit"
  <2> SUFFICES ASSUME NEW i \in 1 .. W, k.wire[i].t = "exit", k.wire[1].t # "exit"
               PROVE  Exiting(e)
    BY DEF Exiting
  <2>1. i # 1
    OBVIOUS
  <2>2. i - 1 \in 1 .. Len(e.wire) /\ i - 1 + 1 = i
    BY <1>1, <2>1
  <2> QED
    BY <2>2 DEF Exiting
<1>9. \A c : ClosedBy(e, c) => ClosedBy(k, c)
  <2> SUFFICES ASSUME NEW c, ClosedBy(e, c) PROVE ClosedBy(k, c)
    OBVIOUS
  <2>1. Len(e.wire) \in 1 .. Len(e.wire) /\ Len(e.wire) + 1 = W
    BY <1>1, SocketIs DEF ClosedBy
  <2>2. k.wire[W] = e.wire[Len(e.wire)]
    BY <2>1
  <2> QED
    BY <2>2 DEF ClosedBy
<1>10. k.wire[1].t = "exit" => e.wire = <<Close("exited")>> /\ ~k.open
  <2> SUFFICES ASSUME k.wire[1].t = "exit" PROVE e.wire = <<Close("exited")>> /\ ~k.open
    OBVIOUS
  <2>1. 1 \in 1 .. W
    BY <1>1
  <2>2. 1 = W - 1 /\ k.wire[2] = Close("exited")
    <3>1. 1 = W - 1 /\ k.wire[1 + 1] = Close("exited")
      BY <2>1 DEF WireShaped
    <3> QED
      BY <3>1
  <2>3. Len(e.wire) = 1 /\ e.wire[1] = Close("exited") /\ e.wire \in Seq(Frames)
    BY <1>1, <2>2, SocketIs
  <2>4. e.wire = <<Close("exited")>>
    BY <2>3
  <2>5. 2 \in 1 .. W /\ k.wire[2].t = "close"
    BY <1>1, <2>2, FrameIs
  <2> QED
    BY <2>4, <2>5 DEF WireShaped
<1> QED
  BY <1>5, <1>6, <1>7, <1>8, <1>9, <1>10

-----------------------------------------------------------------------------
(* The view: types and phases.                                               *)

LEMMA Schedules ==
  ASSUME ViewTypes, scheduleReconnect
  PROVE  /\ attempts' \in 0 .. MaxAttempts /\ phase' \in {"over", "waiting"}
         /\ liveness' \in {"connecting", "live", "dead"}
         /\ phase' = "over" => liveness' = "dead" /\ attempts' = MaxAttempts
<1>1. attempts \in 0 .. MaxAttempts /\ MaxAttempts \in Nat
  BY ViewAssumption DEF ViewTypes
<1>2. CASE attempts >= MaxAttempts
  BY <1>1, <1>2 DEF scheduleReconnect
<1>3. CASE ~(attempts >= MaxAttempts)
  BY <1>1, <1>3 DEF scheduleReconnect
<1> QED
  BY <1>2, <1>3

LEMMA AskedBy ==
  ASSUME ViewTypes, PhaseSound
  PROVE  /\ phase # "idle" => shown \in Agents
         /\ Abandoned \subseteq [agent : Agents, intent : Intents]
<1>1. phase # "idle" => shown \in Agents
  BY DEF ViewTypes, PhaseSound
<1>2. phase = "asking" => [agent |-> shown, intent |-> intent] \in [agent : Agents, intent : Intents]
  BY <1>1 DEF ViewTypes
<1> QED
  BY <1>1, <1>2 DEF Abandoned, ViewTypes

LEMMA StartKeeps ==
  ASSUME ViewTypes, PhaseSound, NEW a \in Agents, NEW i \in Intents, startSession(a, i),
         clicks' \in Nat, lost' = lost
  PROVE  ViewSound'
<1>1. stale' \subseteq [agent : Agents, intent : Intents]
  BY AskedBy DEF startSession
<1>2. a # None
  BY ViewAssumption
<1>3. /\ shown' = a /\ intent' = i /\ attempts' = 0 /\ phase' = "asking" /\ socket' = None
      /\ screen' = <<>> /\ liveness' = "connecting"
  BY DEF startSession
<1>4. 0 \in 0 .. MaxAttempts /\ <<>> \in Seq(Seq(Items))
  BY ViewAssumption
<1>5. ViewTypes'
  BY <1>1, <1>3, <1>4 DEF ViewTypes, Phases
<1>6. SocketType' /\ PhaseSound'
  BY <1>2, <1>3 DEF SocketType, PhaseSound
<1> QED
  BY <1>5, <1>6 DEF ViewSound

(* A step of the phase alone, or with the banner or a new piece. *)
LEMMA PhaseMoves ==
  ASSUME ViewTypes, PhaseSound, UNCHANGED <<shown, intent, clicks>>,
         stale' \subseteq stale, attempts' \in 0 .. MaxAttempts, lost' \in Nat,
         liveness' \in {"connecting", "live", "dead"}, screen' \in Seq(Seq(Items)),
         phase' \in Phases, phase' = "idle" <=> phase = "idle",
         phase' = "socket" <=> socket' # None, socket' \in Sockets \cup {None},
         socket' # None => screen' # <<>>
  PROVE  ViewSound'
<1>1. ViewTypes'
  BY DEF ViewTypes
<1>2. SocketType' /\ PhaseSound'
  BY DEF SocketType, PhaseSound
<1> QED
  BY <1>1, <1>2 DEF ViewSound

LEMMA ScreenIs ==
  ASSUME NEW sc \in Seq(Seq(Items)), NEW p \in Seq(Items)
  PROVE  /\ Append(sc, p) \in Seq(Seq(Items)) /\ Append(sc, p) # <<>>
         /\ Last(Append(sc, p)) = p /\ Len(Append(sc, p)) = Len(sc) + 1
         /\ \A i \in 1 .. Len(sc) : Append(sc, p)[i] = sc[i]
         /\ sc # <<>> => Last(sc) \in Seq(Items) /\ Last(sc) = sc[Len(sc)] /\ Len(sc) \in 1 .. Len(sc)
<1>1. /\ Append(sc, p) \in Seq(Seq(Items)) /\ Append(sc, p) # <<>>
      /\ Len(Append(sc, p)) = Len(sc) + 1 /\ Append(sc, p)[Len(sc) + 1] = p
      /\ \A i \in 1 .. Len(sc) : Append(sc, p)[i] = sc[i]
  BY Appended
<1>2. sc # <<>> => Len(sc) \in 1 .. Len(sc) /\ sc[Len(sc)] \in Seq(Items)
  OBVIOUS
<1> QED
  BY <1>1, <1>2 DEF Last

LEMMA SequenceOf ==
  ASSUME NEW S, NEW N \in Nat, NEW f \in [1 .. N -> S]
  PROVE  f \in Seq(S) /\ Len(f) = N
  OBVIOUS

LEMMA Writes ==
  ASSUME NEW items \in Seq(Items), screen \in Seq(Seq(Items)), screen # <<>>, Write(items)
  PROVE  /\ screen' \in Seq(Seq(Items)) /\ screen' # <<>> /\ Len(screen') = Len(screen)
         /\ Last(screen') = Last(screen) \o items /\ Last(screen) \in Seq(Items)
         /\ \A i \in 1 .. Len(screen) : i # Len(screen) => screen'[i] = screen[i]
<1> DEFINE N == Len(screen)
<1>1. N \in Nat /\ N \in 1 .. N /\ screen \in [1 .. N -> Seq(Items)] /\ screen[N] \in Seq(Items)
  OBVIOUS
<1>2. screen' = [screen EXCEPT ![N] = screen[N] \o items]
  BY DEF Write
<1>3. screen[N] \o items \in Seq(Items)
  BY <1>1
<1>4. /\ screen' \in [1 .. N -> Seq(Items)] /\ screen'[N] = screen[N] \o items
      /\ \A i \in 1 .. N : i # N => screen'[i] = screen[i]
  BY <1>1, <1>2, <1>3
<1>5. screen' \in Seq(Seq(Items)) /\ Len(screen') = N
  BY <1>1, <1>4, SequenceOf
<1>6. screen' # <<>>
  BY <1>1, <1>5
<1> QED
  BY <1>1, <1>4, <1>5, <1>6 DEF Last

-----------------------------------------------------------------------------
(* What any step may do to a session of the store.                           *)

HostMoves ==
  /\ born' \in Nat /\ born <= born'
  /\ \A b \in Agents : store'[b] # None /\ store'[b].sid <= born =>
       /\ store[b] # None /\ store'[b].sid = store[b].sid /\ store[b].low <= store'[b].low
       /\ store[b].exited => store'[b].exited /\ store'[b].made = store[b].made

LEMMA StoreStays ==
  ASSUME HostTypes, UNCHANGED <<store, born>>
  PROVE  HostMoves
<1>1. \A b \in Agents : store[b] # None => store[b].low <= store[b].low
  BY Stored, SessionIs
<1> QED
  BY <1>1 DEF HostMoves, HostTypes

LEMMA HostOnlyMoves ==
  ASSUME Based, [Next]_vars
  PROVE  HostMoves
<1>1. /\ HostTypes /\ StoreSound /\ born \in Nat
      /\ \A b \in Agents : store[b] # None => store[b].low <= store[b].low /\ store[b].sid \in 1 .. born
  BY Stored, SessionIs DEF Based, HostTypes, StoreSound
<1>2. ASSUME NEW a \in Agents, NEW ok \in BOOLEAN, NEW continued \in BOOLEAN,
             Spawned(a, ok, continued)
      PROVE  HostMoves
  <2>1. CASE ok
    <3> DEFINE s == Session(born + 1, continued, opening[a])
    <3>1. born' = born + 1 /\ store' = [store EXCEPT ![a] = s]
      BY <1>2, <2>1 DEF Spawned
    <3>2. s.sid = born + 1
      BY DEF Session
    <3> HIDE DEF s
    <3>3. store'[a] = s /\ \A b \in Agents : b # a => store'[b] = store[b]
      BY <1>1, <3>1 DEF HostTypes
    <3>4. ~(store'[a].sid <= born)
      BY <1>1, <3>2, <3>3
    <3>5. born' \in Nat /\ born <= born'
      BY <1>1, <3>1
    <3> QED
      BY <1>1, <3>3, <3>4, <3>5 DEF HostMoves
  <2>2. CASE ~ok
    <3>1. born' = born /\ (store' = store \/ store' = [store EXCEPT ![a] = None])
      BY <1>2, <2>2 DEF Spawned
    <3>2. \A b \in Agents : store'[b] # None => store'[b] = store[b]
      BY <1>1, <3>1 DEF HostTypes
    <3>3. born' \in Nat /\ born <= born'
      BY <1>1, <3>1
    <3> QED
      BY <1>1, <3>2, <3>3 DEF HostMoves
  <2> QED
    BY <2>1, <2>2
<1>3. ASSUME NEW a \in Agents, Produce(a) PROVE HostMoves
  <2> DEFINE s == appendOutput(store[a])
  <2>1. store[a] \in Sessions /\ ~store[a].exited /\ store[a] # None /\ store[a].low <= store[a].made
    BY <1>1, <1>3, LiveIs DEF Produce, StoreSound
  <2>2. s.sid = store[a].sid /\ store[a].low <= s.low
    BY <2>1, AppendIs
  <2>3. store' = [store EXCEPT ![a] = s] /\ born' = born
    BY <1>3 DEF Produce
  <2> HIDE DEF s
  <2>4. store'[a] = s /\ \A b \in Agents : b # a => store'[b] = store[b]
    BY <1>1, <2>3 DEF HostTypes
  <2>5. born' \in Nat /\ born <= born'
    BY <1>1, <2>3
  <2> QED
    BY <1>1, <2>1, <2>2, <2>4, <2>5 DEF HostMoves
<1>4. ASSUME NEW a \in Agents, NEW young \in BOOLEAN, Exit(a, young) PROVE HostMoves
  <2> DEFINE s == [store[a] EXCEPT !.exited = TRUE]
  <2>1. store[a] \in Sessions /\ store[a] # None
    BY <1>1, <1>4, LiveIs DEF Exit
  <2>2. s.sid = store[a].sid /\ s.low = store[a].low /\ s.exited /\ s.made = store[a].made
    BY <2>1, ExitIs
  <2>3. store' = [store EXCEPT ![a] = s] /\ born' = born
    BY <1>4 DEF Exit
  <2> HIDE DEF s
  <2>4. store'[a] = s /\ \A b \in Agents : b # a => store'[b] = store[b]
    BY <1>1, <2>3 DEF HostTypes
  <2>5. born' \in Nat /\ born <= born'
    BY <1>1, <2>3
  <2> QED
    BY <1>1, <2>1, <2>2, <2>4, <2>5 DEF HostMoves
<1>5. ASSUME NEW hostDied \in BOOLEAN, Drop(hostDied) PROVE HostMoves
  <2>1. CASE hostDied
    <3>1. \A b \in Agents : store'[b] = None
      BY <1>5, <2>1 DEF Drop
    <3>2. born' \in Nat /\ born <= born'
      BY <1>1, <1>5 DEF Drop
    <3> QED
      BY <3>1, <3>2 DEF HostMoves
  <2>2. CASE ~hostDied
    BY <1>1, <1>5, <2>2, StoreStays DEF Drop
  <2> QED
    BY <2>1, <2>2
<1>6. CASE \/ resume \/ detach \/ RetryFires \/ openSocket \/ Receive \/ Flush
           \/ (\E a \in Agents : attach(a) \/ reconnect(a))
           \/ (\E held \in BOOLEAN :
                 HostAnswers(held) \/ \E call \in stale : ServesStale(call, held))
           \/ UNCHANGED vars
  <2>1. UNCHANGED <<store, born>>
    BY <1>6 DEF resume, detach, RetryFires, HostAnswers, openSocket, Receive, Flush, attach,
                reconnect, ServesStale, vars, hostVars
  <2> QED
    BY <1>1, <2>1, StoreStays
<1> QED
  BY <1>2, <1>3, <1>4, <1>5, <1>6 DEF Next

(* A session the pane knows is an old one. *)
LEMMA AttachedIs ==
  ASSUME Based, SocketSound, HostMoves, socket # None, socket' # None, socket'.sid = socket.sid,
         NEW b \in Agents, Attached(b)', HostTypes'
  PROVE  /\ Attached(b) /\ store'[b].sid = store[b].sid /\ store[b].low <= store'[b].low
         /\ store[b].exited => store'[b].exited /\ store'[b].made = store[b].made
<1>1. store'[b] # None /\ store'[b].sid = socket.sid
  BY DEF Attached
<1>2. socket.sid # None
  <2>1. store'[b].sid \in Nat
    BY <1>1, SessionIs DEF HostTypes
  <2> QED
    BY <1>1, <2>1, ViewAssumption
<1>3. socket.sid <= born
  BY <1>2 DEF SocketSound
<1>4. /\ store[b] # None /\ store'[b].sid = store[b].sid /\ store[b].low <= store'[b].low
      /\ store[b].exited => store'[b].exited /\ store'[b].made = store[b].made
  BY <1>1, <1>3 DEF HostMoves
<1> QED
  BY <1>1, <1>4 DEF Attached

LEMMA ScreenStays ==
  ASSUME Based, ScreenSound, HostMoves, HostTypes', screen' = screen, shown' \in {shown, None}
  PROVE  ScreenSound'
<1> SUFFICES ASSUME shown' # None, screen # <<>>, Told(Last(screen)) # <<>>
             PROVE  LET last == Last(Told(Last(screen)))
                    IN  /\ last.sid # None => last.sid <= born'
                        /\ Ended(Last(screen)) /\ store'[shown] # None /\ store'[shown].sid = last.sid =>
                             store'[shown].exited /\ store'[shown].made = last.n
  BY DEF ScreenSound
<1> DEFINE last == Last(Told(Last(screen)))
<1>1. /\ shown # None /\ (last.sid # None => last.sid <= born)
      /\ Ended(Last(screen)) /\ store[shown] # None /\ store[shown].sid = last.sid =>
           store[shown].exited /\ store[shown].made = last.n
  BY DEF ScreenSound
<1>2. last \in Items
  <2>1. Last(screen) \in Seq(Items)
    BY ScreenIs DEF Based, ViewSound, ViewTypes
  <2>2. Told(Last(screen)) \in Seq(Items)
    BY <2>1, ToldIs
  <2> QED
    BY <2>2 DEF Last
<1>3. last.sid # None => last.sid <= born'
  <2> SUFFICES ASSUME last.sid # None PROVE last.sid <= born'
    OBVIOUS
  <2>1. last.sid \in Nat /\ born \in Nat /\ born' \in Nat /\ born <= born' /\ last.sid <= born
    BY <1>1, <1>2 DEF Items, Based, HostTypes, HostMoves
  <2> QED
    BY <2>1
<1>4. ASSUME Ended(Last(screen)), store'[shown] # None, store'[shown].sid = last.sid
      PROVE  store'[shown].exited /\ store'[shown].made = last.n
  <2>1. shown \in Agents
    BY <1>1 DEF Based, ViewSound, ViewTypes
  <2>2. last.sid # None
    <3>1. store'[shown].sid \in Nat
      BY <1>4, <2>1, SessionIs DEF HostTypes
    <3> QED
      BY <1>4, <3>1, ViewAssumption
  <2>3. last.sid <= born
    BY <1>1, <2>2
  <2> QED
    BY <1>1, <1>4, <2>1, <2>3 DEF HostMoves
<1> QED
  BY <1>3, <1>4

LEMMA NoSocket ==
  ASSUME socket' = None
  PROVE  SocketSound' /\ Marked'
  BY DEF SocketSound, Marked

(* A step that leaves the socket alone. *)
LEMMA SocketStays ==
  ASSUME Based, Seen, HostMoves, HostTypes', UNCHANGED <<socket, shown, screen, liveness>>,
         socket # None /\ socket.open => store'[shown] = store[shown]
  PROVE  Seen'
<1>1. ScreenSound'
  BY ScreenStays DEF Seen
<1>2. CASE socket = None
  BY <1>1, <1>2, NoSocket DEF Seen
<1>3. CASE socket # None
  <2>1. SocketSound /\ Marked /\ shown \in Agents
    BY <1>3 DEF Seen, Based, ViewSound, ViewTypes, PhaseSound
  <2>2. \A b \in Agents : Attached(b)' =>
          /\ Attached(b) /\ store'[b].sid = store[b].sid /\ store[b].low <= store'[b].low
          /\ store[b].exited => store'[b].exited /\ store'[b].made = store[b].made
    BY <1>3, <2>1, AttachedIs
  <2>3. socket.open => Attached(shown)' /\ store'[shown] = store[shown]
    BY <1>3, <2>1 DEF SocketSound, Attached
  <2>4. socket.sid # None => socket.sid <= born'
    <3> SUFFICES ASSUME socket.sid # None PROVE socket.sid <= born'
      OBVIOUS
    <3>1. socket.sid \in Nat /\ born \in Nat /\ socket.sid <= born
      BY <1>3, <2>1, SocketIs DEF SocketSound, Based, ViewSound, SocketType, HostTypes
    <3> QED
      BY <3>1 DEF HostMoves
  <2>5. SocketSound'
    <3>1. \A b \in Agents : Attached(b)' => b = shown
      BY <1>3, <2>1, <2>2 DEF SocketSound
    <3>2. socket.open => Attached(shown)' /\ ~store'[shown].exited
      BY <1>3, <2>1, <2>3 DEF SocketSound
    <3>3. Exiting(socket) /\ Attached(shown)' => store'[shown].exited
      BY <1>3, <2>1, <2>2 DEF SocketSound
    <3>4. /\ WireShaped(socket) /\ (Greets(socket) => Last(screen) = <<>>)
          /\ Ended(Last(screen)) => socket.wire = <<Close("exited")>>
          /\ socket.open /\ ~Greets(socket) => liveness = "live"
          /\ ClosedBy(socket, "exited") =>
               Exiting(socket) \/ (liveness = "dead" /\ ~Greets(socket))
      BY <1>3, <2>1 DEF SocketSound
    <3> QED
      BY <2>4, <3>1, <3>2, <3>3, <3>4 DEF SocketSound
  <2>6. Marked'
    <3>1. PICK m : Threaded(socket, Told(Last(screen)), m) /\ Spans(socket, m)
      BY <1>3, <2>1 DEF Marked
    <3>2. Spans(socket, m)'
      <4> SUFFICES ASSUME Attached(shown)'
                   PROVE  /\ m[0] <= store'[shown].low
                          /\ socket.open \/ Exiting(socket) => m[Len(socket.wire) + 2] = store'[shown].made
        BY DEF Spans
      <4>1. /\ Attached(shown) /\ store[shown].low <= store'[shown].low
            /\ store[shown].exited => store'[shown].made = store[shown].made
        BY <2>1, <2>2
      <4>2. m[0] <= store[shown].low
        BY <3>1, <4>1 DEF Spans
      <4>3. m[0] \in Nat /\ store[shown].low \in Nat /\ store'[shown].low \in Nat
        <5>1. m[0] \in Nat
          BY <1>3, <3>1, MarksAre DEF Based, ViewSound, SocketType
        <5>2. store[shown] \in Sessions /\ store'[shown] \in Sessions
          BY <2>1, <4>1 DEF Attached, Based, HostTypes
        <5> QED
          BY <5>1, <5>2, SessionIs
      <4>4. m[0] <= store'[shown].low
        BY <4>1, <4>2, <4>3
      <4>5. CASE socket.open
        BY <2>3, <3>1, <4>1, <4>4, <4>5 DEF Spans
      <4>6. CASE Exiting(socket)
        <5>1. store[shown].exited
          BY <1>3, <2>1, <4>1, <4>6 DEF SocketSound
        <5> QED
          BY <3>1, <4>1, <4>4, <4>6, <5>1 DEF Spans
      <4> QED
        BY <4>4, <4>5, <4>6
    <3> QED
      BY <3>1, <3>2 DEF Marked
  <2> QED
    BY <1>1, <2>5, <2>6 DEF Seen
<1> QED
  BY <1>2, <1>3

-----------------------------------------------------------------------------
(* The steps of the controller.                                              *)

LEMMA Restarts ==
  ASSUME ViewSound, NEW a \in Agents, NEW i \in Intents, startSession(a, i),
         clicks' \in Nat, lost' = lost
  PROVE  ViewSound' /\ Seen'
<1>1. ViewSound'
  BY StartKeeps DEF ViewSound
<1>2. socket' = None /\ screen' = <<>>
  BY DEF startSession
<1>3. ScreenSound'
  BY <1>2 DEF ScreenSound
<1> QED
  BY <1>1, <1>2, <1>3, NoSocket DEF Seen

LEMMA DetachKeeps ==
  ASSUME Based, Seen, HostMoves, HostTypes', detach
  PROVE  ViewSound' /\ Seen'
<1>1. ViewTypes /\ PhaseSound
  BY DEF Based, ViewSound
<1>2. /\ shown' = None /\ phase' = "idle" /\ socket' = None /\ clicks' = clicks + 1
      /\ stale' \subseteq [agent : Agents, intent : Intents]
      /\ UNCHANGED <<intent, attempts, screen, liveness, lost>>
  BY <1>1, AskedBy DEF detach
<1>3. ViewTypes'
  BY <1>1, <1>2 DEF ViewTypes, Phases
<1>4. SocketType' /\ PhaseSound'
  BY <1>2 DEF SocketType, PhaseSound
<1>5. ScreenSound'
  BY <1>2, ScreenStays DEF Seen
<1> QED
  BY <1>2, <1>3, <1>4, <1>5, NoSocket DEF Seen, ViewSound

LEMMA RetryKeeps ==
  ASSUME Based, Seen, HostMoves, HostTypes', RetryFires
  PROVE  ViewSound' /\ Seen'
<1>1. ViewTypes /\ PhaseSound /\ SocketType
  BY DEF Based, ViewSound
<1>2. /\ phase = "waiting" /\ phase' = "asking" /\ socket = None /\ socket' = None
      /\ UNCHANGED <<shown, intent, stale, attempts, screen, liveness, clicks, lost>>
  BY <1>1 DEF RetryFires, PhaseSound
<1>3. ViewSound'
  BY <1>1, <1>2 DEF ViewTypes, SocketType, PhaseSound, Phases, ViewSound
<1>4. ScreenSound'
  BY <1>2, ScreenStays DEF Seen
<1> QED
  BY <1>2, <1>3, <1>4, NoSocket DEF Seen

LEMMA ScreenAppends ==
  ASSUME Based, ScreenSound, NEW p \in Seq(Items), Told(p) = <<>>, screen' = Append(screen, p)
  PROVE  ScreenSound' /\ screen' \in Seq(Seq(Items)) /\ screen' # <<>>
<1>1. screen \in Seq(Seq(Items))
  BY DEF Based, ViewSound, ViewTypes
<1>2. /\ screen' \in Seq(Seq(Items)) /\ screen' # <<>> /\ Last(screen') = p
      /\ Len(screen') = Len(screen) + 1 /\ \A i \in 1 .. Len(screen) : screen'[i] = screen[i]
  BY <1>1, ScreenIs
<1>3. screen'[Len(screen')] = p
  BY <1>2 DEF Last
<1>4. \A i \in 1 .. Len(screen') : Contiguous(Told(screen'[i]))
  <2> SUFFICES ASSUME NEW i \in 1 .. Len(screen') PROVE Contiguous(Told(screen'[i]))
    OBVIOUS
  <2>1. CASE i = Len(screen')
    <3>1. Contiguous(<<>>)
      BY DEF Contiguous
    <3> QED
      BY <1>3, <2>1, <3>1
  <2>2. CASE i # Len(screen')
    <3>1. i \in 1 .. Len(screen)
      BY <1>1, <1>2, <2>2
    <3> QED
      BY <1>2, <3>1 DEF ScreenSound
  <2> QED
    BY <2>1, <2>2
<1> QED
  BY <1>2, <1>4 DEF ScreenSound

LEMMA AnswerKeeps ==
  ASSUME Based, Seen, HostMoves, HostTypes', NEW held \in BOOLEAN, HostAnswers(held)
  PROVE  ViewSound' /\ Seen'
<1>1. /\ ViewTypes /\ PhaseSound /\ SocketType /\ screen \in Seq(Seq(Items))
      /\ attempts \in 0 .. MaxAttempts /\ lost \in Nat
      /\ liveness \in {"connecting", "live", "dead"}
  BY DEF Based, ViewSound, ViewTypes
<1>2. /\ phase = "asking" /\ socket = None /\ socket' = None
      /\ UNCHANGED <<shown, intent, stale, attempts, clicks, lost>>
  BY <1>1 DEF HostAnswers, PhaseSound
<1>3. CASE openOrAttach(shown, intent, held) = "gone"
  <2>1. phase' = "over" /\ liveness' = "dead" /\ screen' = Append(screen, <<Banner>>)
    BY <1>3 DEF HostAnswers, Served
  <2>2. <<Banner>> \in Seq(Items) /\ Told(<<Banner>>) = <<>>
    BY ToldNothing
  <2>3. ScreenSound' /\ screen' \in Seq(Seq(Items))
    BY <2>1, <2>2, ScreenAppends DEF Seen
  <2>4. ViewSound'
    BY <1>1, <1>2, <2>1, <2>3, PhaseMoves DEF Phases
  <2> QED
    BY <1>2, <2>3, <2>4, NoSocket DEF Seen
<1>4. CASE openOrAttach(shown, intent, held) # "gone"
  <2>1. phase' \in {"endpoint", "opening"} /\ UNCHANGED <<liveness, screen>>
    BY <1>4 DEF HostAnswers, Served, openOrAttach
  <2>2. ScreenSound'
    BY <1>2, <2>1, ScreenStays DEF Seen
  <2>3. ViewSound'
    BY <1>1, <1>2, <2>1, PhaseMoves DEF Phases
  <2> QED
    BY <1>2, <2>2, <2>3, NoSocket DEF Seen
<1> QED
  BY <1>3, <1>4

LEMMA StaleKeeps ==
  ASSUME Based, Seen, HostMoves, HostTypes', NEW call \in stale, NEW held \in BOOLEAN,
         ServesStale(call, held)
  PROVE  ViewSound' /\ Seen'
<1>1. ViewTypes /\ PhaseSound /\ SocketType
  BY DEF Based, ViewSound
<1>2. /\ stale' \subseteq stale /\ store' = store
      /\ UNCHANGED <<shown, phase, intent, attempts, screen, liveness, clicks, socket, lost>>
  BY DEF ServesStale
<1>3. ViewSound'
  BY <1>1, <1>2 DEF ViewTypes, SocketType, PhaseSound, ViewSound
<1> QED
  BY <1>2, <1>3, SocketStays

LEMMA OpenKeeps ==
  ASSUME Based, Seen, HostMoves, HostTypes', openSocket
  PROVE  ViewSound' /\ Seen'
<1>1. /\ ViewTypes /\ PhaseSound /\ SocketType /\ screen \in Seq(Seq(Items))
      /\ attempts \in 0 .. MaxAttempts /\ lost \in Nat /\ HostTypes /\ StoreSound
      /\ liveness \in {"connecting", "live", "dead"}
  BY DEF Based, ViewSound, ViewTypes
<1>2. /\ phase = "endpoint" /\ phase' = "socket" /\ screen' = Append(screen, <<>>)
      /\ socket' = IF store[shown] = None THEN notFound ELSE onConnection(store[shown])
      /\ UNCHANGED <<store, born, shown, intent, stale, attempts, liveness, clicks, lost>>
  BY DEF openSocket, hostVars
<1>3. shown \in Agents
  BY <1>1, <1>2, AskedBy
<1>4. ScreenSound' /\ screen' \in Seq(Seq(Items)) /\ screen' # <<>> /\ Last(screen') = <<>>
  <2>1. <<>> \in Seq(Items) /\ Told(<<>>) = <<>>
    BY ToldNothing
  <2> QED
    BY <1>1, <1>2, <2>1, ScreenAppends, ScreenIs DEF Seen
<1>5. ~Ended(Last(screen')) /\ Told(Last(screen')) = <<>>
  BY <1>4, ToldNothing
<1>6. CASE store[shown] = None
  <2>1. socket' = notFound
    BY <1>2, <1>6
  <2>2. /\ socket' \in Sockets /\ WireShaped(socket') /\ socket'.sid = None /\ ~socket'.open
        /\ ~Greets(socket') /\ ~Exiting(socket') /\ ~ClosedBy(socket', "exited")
        /\ socket' # None
    BY <2>1, NotFoundIs, ViewAssumption
  <2>3. \A b \in Agents : ~Attached(b)'
    <3> SUFFICES ASSUME NEW b \in Agents, store[b] # None, store[b].sid = None PROVE FALSE
      BY <1>2, <2>2 DEF Attached
    <3>1. store[b].sid \in Nat
      BY <1>1, Stored, SessionIs
    <3> QED
      BY <3>1, ViewAssumption
  <2>4. PICK n : Threaded(socket', <<>>, n)
    BY <2>1, NotFoundIs
  <2>5. Spans(socket, n)'
    BY <1>2, <1>3, <2>3 DEF Spans
  <2>6. Marked'
    BY <1>5, <2>4, <2>5 DEF Marked
  <2>7. SocketSound'
    BY <1>3, <1>4, <1>5, <2>2, <2>3 DEF SocketSound
  <2>8. ViewSound'
    BY <1>1, <1>2, <1>4, <2>2, PhaseMoves DEF Phases
  <2> QED
    BY <1>4, <2>6, <2>7, <2>8 DEF Seen
<1>7. CASE store[shown] # None
  <2> DEFINE s == store[shown]
             e == onConnection(s)
  <2>1. s \in Sessions /\ s.low <= s.made /\ s.sid \in 1 .. born /\ s.made \in Nat /\ s.low \in Nat
        /\ s.exited \in BOOLEAN
    BY <1>1, <1>3, <1>7, Stored, SessionIs DEF StoreSound
  <2>2. /\ e \in Sockets /\ WireShaped(e) /\ e.sid = s.sid /\ (e.open <=> ~s.exited)
        /\ Greets(e) /\ (Exiting(e) => s.exited)
        /\ (ClosedBy(e, "exited") => Exiting(e))
    BY <2>1, Connects
  <2>3. PICK n : /\ Threaded(e, <<>>, n) /\ n[0] = s.low
                 /\ e.open \/ Exiting(e) => n[Len(e.wire) + 2] = s.made
    BY <2>1, Connects
  <2>4. socket' = e /\ e # None
    BY <1>2, <1>7, <2>2, ViewAssumption
  <2> HIDE DEF e
  <2>5. \A b \in Agents : Attached(b)' <=> b = shown
    <3>1. \A b \in Agents : Attached(b)' <=> store[b] # None /\ e.sid = store[b].sid
      BY <1>2, <2>4 DEF Attached
    <3> QED
      BY <1>1, <1>3, <1>7, <2>2, <3>1 DEF StoreSound
  <2>6. Marked'
    <3>1. s.low <= s.low
      BY <2>1
    <3>2. Spans(socket, n)'
      BY <1>2, <2>3, <2>4, <3>1 DEF Spans
    <3> QED
      BY <1>5, <2>3, <2>4, <3>2 DEF Marked
  <2>7. SocketSound'
    <3>1. store'[shown'] = s /\ shown' \in Agents /\ born' = born
      BY <1>2, <1>3
    <3>2. e.sid # None => e.sid <= born'
      BY <2>1, <2>2, <3>1
    <3>3. e.open => Attached(shown)' /\ ~s.exited
      BY <1>7, <2>2, <2>4, <3>1 DEF Attached
    <3> QED
      BY <1>2, <1>4, <1>5, <2>2, <2>4, <2>5, <3>1, <3>2, <3>3 DEF SocketSound
  <2>8. ViewSound'
    BY <1>1, <1>2, <1>4, <2>2, <2>4, PhaseMoves DEF Phases
  <2> QED
    BY <1>4, <2>6, <2>7, <2>8 DEF Seen
<1> QED
  BY <1>6, <1>7

-----------------------------------------------------------------------------
(* A frame comes in.                                                         *)

LEMMA ReceiveClose ==
  ASSUME Based, Seen, HostMoves, HostTypes', Receive, socket.wire[1].t = "close"
  PROVE  ViewSound' /\ Seen'
<1>1. /\ ViewTypes /\ PhaseSound /\ SocketType /\ screen \in Seq(Seq(Items))
      /\ attempts \in 0 .. MaxAttempts /\ lost \in Nat
      /\ liveness \in {"connecting", "live", "dead"}
  BY DEF Based, ViewSound, ViewTypes
<1>2. /\ socket \in Sockets /\ socket # None /\ socket.wire # <<>>
      /\ Head(socket.wire) = socket.wire[1] /\ phase = "socket"
  BY <1>1 DEF Receive, SocketType, PhaseSound, Sockets
<1>3. /\ socket' = None /\ screen' = screen /\ handleClose(socket.wire[1].code)
      /\ lost' \in Nat /\ UNCHANGED <<store, born, shown, intent, stale, clicks>>
  BY <1>1, <1>2 DEF Receive, hostVars
<1>4. /\ phase' \in {"over", "waiting"} /\ attempts' \in 0 .. MaxAttempts
      /\ liveness' \in {"connecting", "live", "dead"}
  BY <1>1, <1>3, Schedules DEF handleClose
<1>5. ViewSound'
  BY <1>1, <1>2, <1>3, <1>4, PhaseMoves DEF Phases
<1>6. ScreenSound'
  BY <1>3, ScreenStays DEF Seen
<1> QED
  BY <1>3, <1>5, <1>6, NoSocket DEF Seen

(* What the frame adds to the screen. *)
LEMMA Reads ==
  ASSUME Based, Seen, Receive, socket.wire[1].t # "close", NEW m,
         Threaded(socket, Told(Last(screen)), m)
  PROVE  LET e == [socket EXCEPT !.wire = Tail(@)]
             n == Shifted(socket, m)
             f == socket.wire[1]
         IN  /\ socket' = e /\ e \in Sockets /\ e.sid = socket.sid /\ e.pending = socket.pending
             /\ e.open = socket.open /\ Len(e.wire) + 1 = Len(socket.wire)
             /\ \A i \in 1 .. Len(e.wire) : e.wire[i] = socket.wire[i + 1]
             /\ Threaded(e, Told(Last(screen')), n) /\ n[0] = m[0]
             /\ n[Len(e.wire) + 2] = m[Len(socket.wire) + 2]
             /\ screen' \in Seq(Seq(Items)) /\ screen' # <<>> /\ Len(screen') = Len(screen)
             /\ Ended(Last(screen')) <=> f.t = "exit"
             /\ \A i \in 1 .. Len(screen) : i # Len(screen) => screen'[i] = screen[i]
             /\ f \in Frames /\ socket.wire # <<>>
<1> DEFINE k == socket
           e == [k EXCEPT !.wire = Tail(@)]
           n == Shifted(k, m)
           f == k.wire[1]
           told == Told(Last(screen))
<1>1. /\ k \in Sockets /\ k # None /\ k.wire # <<>> /\ screen \in Seq(Seq(Items)) /\ screen # <<>>
      /\ WireShaped(k) /\ (Ended(Last(screen)) => k.wire = <<Close("exited")>>)
  BY DEF Based, ViewSound, SocketType, PhaseSound, ViewTypes, Receive, Seen, SocketSound
<1>2. /\ e \in Sockets /\ e.sid = k.sid /\ e.pending = k.pending /\ e.open = k.open
      /\ Len(e.wire) + 1 = Len(k.wire) /\ Head(k.wire) = f /\ f \in Frames
      /\ \A i \in 1 .. Len(e.wire) : e.wire[i] = k.wire[i + 1]
  BY <1>1, TailIs
<1>3. socket' = e
  BY <1>2 DEF Receive
<1>4. ~Ended(Last(screen))
  BY <1>1, FrameIs
<1>5. Last(screen) \in Seq(Items) /\ told = Last(screen)
  BY <1>1, <1>4, ScreenIs, ToldIs
<1> HIDE DEF e
<1>6. Threaded(e, told \o Data(f), n) /\ n[0] = m[0] /\ n[Len(e.wire) + 2] = m[Len(k.wire) + 2]
  BY <1>1, <1>2, <1>5, Takes
<1>7. /\ \/ f.t = "hello" /\ screen' = screen
         \/ f.t = "output" /\ Write(f.data)
         \/ f.t = "exit" /\ Write(<<Banner>>)
      /\ UNCHANGED <<store, born, shown, intent, stale, clicks>>
  BY <1>2 DEF Receive, hostVars
<1>8. /\ Told(Last(screen')) = told \o Data(f) /\ (Ended(Last(screen')) <=> f.t = "exit")
      /\ screen' \in Seq(Seq(Items)) /\ screen' # <<>> /\ Len(screen') = Len(screen)
      /\ \A i \in 1 .. Len(screen) : i # Len(screen) => screen'[i] = screen[i]
  <2>1. CASE f.t = "hello"
    <3>1. screen' = screen
      BY <1>7, <2>1
    <3>2. Data(f) = <<>> /\ told \o Data(f) = told
      BY <1>5, <2>1 DEF Data
    <3> QED
      BY <1>1, <1>4, <2>1, <3>1, <3>2
  <2>2. CASE f.t = "output"
    <3>1. Data(f) = f.data /\ Data(f) \in Seq(Items)
      BY <1>2, <2>2, FrameIs DEF Data
    <3>2. /\ screen' \in Seq(Seq(Items)) /\ screen' # <<>> /\ Len(screen') = Len(screen)
          /\ Last(screen') = told \o Data(f)
          /\ \A i \in 1 .. Len(screen) : i # Len(screen) => screen'[i] = screen[i]
      BY <1>1, <1>5, <1>7, <2>2, <3>1, Writes
    <3>3. Run(told \o Data(f), e.sid, n[0], n[1]) /\ n[0] \in Nat /\ n[1] \in Nat
      BY <1>2, <1>6, MarksAre DEF Threaded
    <3>4. told \o Data(f) \in Seq(Items)
      BY <1>5, <3>1
    <3>5. ~Ended(told \o Data(f)) /\ Told(told \o Data(f)) = told \o Data(f)
      BY <3>3, <3>4, RunPlain
    <3> QED
      BY <2>2, <3>2, <3>5
  <2>3. CASE f.t = "exit"
    <3>1. Data(f) = <<>> /\ told \o Data(f) = told
      BY <1>5, <2>3 DEF Data
    <3>2. /\ screen' \in Seq(Seq(Items)) /\ screen' # <<>> /\ Len(screen') = Len(screen)
          /\ Last(screen') = told \o <<Banner>>
          /\ \A i \in 1 .. Len(screen) : i # Len(screen) => screen'[i] = screen[i]
      BY <1>1, <1>5, <1>7, <2>3, ToldNothing, Writes
    <3>3. Ended(told \o <<Banner>>) /\ Told(told \o <<Banner>>) = told
      BY <1>5, ToldIs
    <3> QED
      BY <2>3, <3>1, <3>2, <3>3
  <2> QED
    BY <1>7, <2>1, <2>2, <2>3
<1> QED
  BY <1>1, <1>2, <1>3, <1>6, <1>8 DEF e

LEMMA ReceiveFrame ==
  ASSUME Based, Seen, HostMoves, HostTypes', Receive, socket.wire[1].t # "close"
  PROVE  ViewSound' /\ Seen'
<1> DEFINE k == socket
           f == k.wire[1]
           told == Told(Last(screen'))
<1>1. /\ ViewTypes /\ PhaseSound /\ SocketType /\ screen \in Seq(Seq(Items)) /\ HostTypes
      /\ attempts \in 0 .. MaxAttempts /\ lost \in Nat /\ SocketSound
      /\ liveness \in {"connecting", "live", "dead"}
      /\ k \in Sockets /\ k # None /\ k.wire # <<>> /\ phase = "socket" /\ shown \in Agents
  BY DEF Based, ViewSound, ViewTypes, SocketType, PhaseSound, Seen, Receive
<1>2. PICK m : Threaded(k, Told(Last(screen)), m) /\ Spans(k, m)
  BY <1>1 DEF Seen, Marked
<1>3. PICK e, n :
         /\ socket' = e /\ e \in Sockets /\ e.sid = k.sid /\ e.pending = k.pending
         /\ e.open = k.open /\ Len(e.wire) + 1 = Len(k.wire)
         /\ \A i \in 1 .. Len(e.wire) : e.wire[i] = k.wire[i + 1]
         /\ Threaded(e, told, n) /\ n[0] = m[0] /\ n[Len(e.wire) + 2] = m[Len(k.wire) + 2]
         /\ screen' \in Seq(Seq(Items)) /\ screen' # <<>> /\ Len(screen') = Len(screen)
         /\ Ended(Last(screen')) <=> f.t = "exit"
         /\ \A i \in 1 .. Len(screen) : i # Len(screen) => screen'[i] = screen[i]
         /\ f \in Frames
  <2> DEFINE e0 == [socket EXCEPT !.wire = Tail(@)]
             n0 == Shifted(socket, m)
  <2>1. /\ socket' = e0 /\ e0 \in Sockets /\ e0.sid = k.sid /\ e0.pending = k.pending
        /\ e0.open = k.open /\ Len(e0.wire) + 1 = Len(k.wire)
        /\ \A i \in 1 .. Len(e0.wire) : e0.wire[i] = k.wire[i + 1]
        /\ Threaded(e0, told, n0) /\ n0[0] = m[0] /\ n0[Len(e0.wire) + 2] = m[Len(k.wire) + 2]
        /\ screen' \in Seq(Seq(Items)) /\ screen' # <<>> /\ Len(screen') = Len(screen)
        /\ Ended(Last(screen')) <=> f.t = "exit"
        /\ \A i \in 1 .. Len(screen) : i # Len(screen) => screen'[i] = screen[i]
        /\ f \in Frames
    BY <1>2, Reads, ZenonT(30)
  <2> HIDE DEF e0, n0
  <2> QED
    BY <2>1
<1>4. /\ UNCHANGED <<store, born, shown, intent, stale, clicks, phase, lost>>
      /\ \/ f.t = "hello" /\ liveness' = "live" /\ attempts' = 0 /\ screen' = screen
         \/ f.t = "output" /\ UNCHANGED <<attempts, liveness>>
         \/ f.t = "exit" /\ liveness' = "dead" /\ UNCHANGED attempts
  <2>1. Head(k.wire) = f
    BY <1>1, TailIs
  <2> QED
    BY <2>1 DEF Receive, hostVars
<1>5. e # None
  BY <1>3, ViewAssumption
<1>6. ViewSound'
  <2>1. attempts' \in 0 .. MaxAttempts /\ liveness' \in {"connecting", "live", "dead"}
    BY <1>1, <1>4, ViewAssumption
  <2> QED
    BY <1>1, <1>3, <1>4, <1>5, <2>1, PhaseMoves DEF Phases
<1>7. \A b \in Agents : Attached(b)' <=> Attached(b)
  BY <1>1, <1>3, <1>4, <1>5 DEF Attached
<1>8. WireShaped(k)
  BY <1>1 DEF SocketSound
<1>9. /\ WireShaped(e) /\ ~Greets(e) /\ (Exiting(e) => Exiting(k))
      /\ Exiting(k) => Exiting(e) \/ f.t = "exit"
      /\ \A c : ClosedBy(e, c) => ClosedBy(k, c)
      /\ f.t = "exit" => e.wire = <<Close("exited")>> /\ ~k.open
  BY <1>1, <1>3, <1>8, WireShrinks
<1>10. Greets(k) <=> f.t = "hello"
  BY <1>1 DEF Greets
<1>11. SocketSound'
  <2>1. \A b \in Agents : Attached(b)' => b = shown
    BY <1>1, <1>7 DEF SocketSound
  <2>2. e.sid # None => e.sid <= born
    BY <1>1, <1>3 DEF SocketSound
  <2>3. e.open => Attached(shown) /\ ~store[shown].exited
    BY <1>1, <1>3 DEF SocketSound
  <2>4. Exiting(e) /\ Attached(shown) => store[shown].exited
    BY <1>1, <1>9 DEF SocketSound
  <2>5. Ended(Last(screen')) => e.wire = <<Close("exited")>>
    BY <1>3, <1>9
  <2>6. e.open => liveness' = "live"
    BY <1>1, <1>3, <1>4, <1>9, <1>10 DEF SocketSound
  <2>7. ClosedBy(e, "exited") => Exiting(e) \/ liveness' = "dead"
    <3> SUFFICES ASSUME ClosedBy(e, "exited"), ~Exiting(e) PROVE liveness' = "dead"
      OBVIOUS
    <3>1. Exiting(k) \/ (liveness = "dead" /\ ~Greets(k))
      BY <1>1, <1>9 DEF SocketSound
    <3>2. f.t = "exit" \/ (liveness = "dead" /\ f.t # "hello")
      BY <1>9, <1>10, <3>1
    <3> QED
      BY <1>4, <3>2
  <2>8. (Attached(shown) <=> Attached(shown)') /\ store'[shown'] = store[shown]
    BY <1>1, <1>4, <1>7
  <2> QED
    BY <1>3, <1>4, <1>9, <2>1, <2>2, <2>3, <2>4, <2>5, <2>6, <2>7, <2>8 DEF SocketSound
<1>12. Marked'
  <2>1. Spans(socket, n)'
    <3> SUFFICES ASSUME Attached(shown)
                 PROVE  /\ n[0] <= store[shown].low
                        /\ e.open \/ Exiting(e) => n[Len(e.wire) + 2] = store[shown].made
      BY <1>1, <1>3, <1>4, <1>7 DEF Spans
    <3> QED
      BY <1>2, <1>3, <1>9 DEF Spans
  <2> QED
    BY <1>3, <2>1 DEF Marked
<1>13. told \in Seq(Items) /\ Last(screen') \in Seq(Items) /\ screen'[Len(screen')] = Last(screen')
  <2>1. Last(screen') \in Seq(Items) /\ screen'[Len(screen')] = Last(screen')
    BY <1>3, ScreenIs
  <2> QED
    BY <2>1, ToldIs
<1>14. Run(told, k.sid, n[0], n[1]) /\ n[0] \in Nat /\ n[1] \in Nat
  BY <1>3, MarksAre DEF Threaded
<1>15. /\ Contiguous(told)
       /\ told # <<>> => Last(told).sid = k.sid /\ Last(told).n = n[1]
  BY <1>13, <1>14, RunPlain
<1>16. ASSUME f.t = "exit", Attached(shown)
       PROVE  store[shown].exited /\ store[shown].made = n[1]
  <2>1. Exiting(k)
    <3>1. 1 \in 1 .. Len(k.wire)
      BY <1>1, SocketIs
    <3> QED
      BY <1>16, <3>1 DEF Exiting
  <2>2. store[shown].exited /\ m[Len(k.wire) + 2] = store[shown].made
    BY <1>1, <1>2, <1>16, <2>1 DEF SocketSound, Spans
  <2>3. e.wire = <<Close("exited")>> /\ e.pending = <<>> /\ Len(e.wire) = 1
    BY <1>3, <1>8, <1>9, <1>16 DEF WireShaped
  <2>4. Data(e.wire[1]) = <<>>
    BY <2>3, FrameIs
  <2>5. Run(<<>>, e.sid, n[1], n[2]) /\ Run(<<>>, e.sid, n[2], n[3])
    <3>1. 1 \in 1 .. Len(e.wire) /\ Len(e.wire) + 1 = 2 /\ Len(e.wire) + 2 = 3
      BY <2>3
    <3>2. Run(Data(e.wire[1]), e.sid, n[1], n[1 + 1])
      BY <1>3, <3>1 DEF Threaded
    <3>3. Run(e.pending, e.sid, n[Len(e.wire) + 1], n[Len(e.wire) + 2])
      BY <1>3 DEF Threaded
    <3> QED
      BY <2>3, <2>4, <3>1, <3>2, <3>3
  <2>6. n[1] \in Nat /\ n[2] \in Nat /\ n[3] \in Nat
    <3>1. Len(e.wire) + 2 = 3
      BY <2>3
    <3>2. n \in [0 .. 3 -> Nat]
      BY <1>3, <3>1 DEF Threaded
    <3> QED
      BY <3>2
  <2>7. n[1] = n[3]
    BY <2>5, <2>6 DEF Run
  <2> QED
    BY <1>3, <2>2, <2>3, <2>7
<1>17. ScreenSound'
  <2>1. ASSUME NEW i \in 1 .. Len(screen') PROVE Contiguous(Told(screen'[i]))
    <3>1. CASE i = Len(screen')
      BY <1>13, <1>15, <3>1
    <3>2. CASE i # Len(screen')
      BY <1>3, <3>2 DEF Seen, ScreenSound
    <3> QED
      BY <3>1, <3>2
  <2>2. ASSUME told # <<>>
        PROVE  /\ Last(told).sid # None => Last(told).sid <= born
               /\ Ended(Last(screen')) /\ store[shown] # None /\ store[shown].sid = Last(told).sid =>
                    store[shown].exited /\ store[shown].made = Last(told).n
    <3>1. Last(told).sid = k.sid /\ Last(told).n = n[1]
      BY <1>15, <2>2
    <3>2. k.sid # None => k.sid <= born
      BY <1>1 DEF SocketSound
    <3>3. store[shown] # None /\ store[shown].sid = k.sid => Attached(shown)
      BY <1>1 DEF Attached
    <3> QED
      BY <1>3, <1>16, <3>1, <3>2, <3>3
  <2> QED
    BY <1>4, <2>1, <2>2 DEF ScreenSound
<1> QED
  BY <1>6, <1>11, <1>12, <1>17 DEF Seen

-----------------------------------------------------------------------------
(* The steps of the host, as the pane sees them.                             *)

LEMMA OpenIs ==
  ASSUME Based, Seen, socket # None
  PROVE  /\ socket \in Sockets /\ SocketSound /\ Marked /\ shown \in Agents /\ phase = "socket"
         /\ socket.open => /\ Attached(shown) /\ IsLive(shown) /\ opening[shown] = "no"
                           /\ ~Ended(Last(screen)) /\ ~Exiting(socket)
                           /\ \A c : ~ClosedBy(socket, c)
<1>1. /\ socket \in Sockets /\ SocketSound /\ Marked /\ shown \in Agents /\ phase = "socket"
      /\ HostTypes /\ StoreSound
  BY DEF Based, Seen, ViewSound, ViewTypes, SocketType, PhaseSound
<1>2. ASSUME socket.open
      PROVE  /\ Attached(shown) /\ IsLive(shown) /\ opening[shown] = "no"
             /\ ~Ended(Last(screen)) /\ ~Exiting(socket) /\ \A c : ~ClosedBy(socket, c)
  <2>1. Attached(shown) /\ IsLive(shown) /\ WireShaped(socket)
    BY <1>1, <1>2 DEF SocketSound, IsLive, Attached
  <2>2. \A i \in 1 .. Len(socket.wire) : socket.wire[i].t \notin {"exit", "close"}
    BY <1>1, <1>2, <2>1, OpenWire
  <2>3. ~Exiting(socket)
    BY <2>2 DEF Exiting
  <2>4. \A c : ~ClosedBy(socket, c)
    <3> SUFFICES ASSUME NEW c, ClosedBy(socket, c) PROVE FALSE
      OBVIOUS
    <3>1. Len(socket.wire) \in 1 .. Len(socket.wire) /\ socket.wire[Len(socket.wire)] = Close(c)
      BY <1>1, SocketIs DEF ClosedBy
    <3>2. Close(c).t = "close"
      BY DEF Close
    <3> QED
      BY <2>2, <3>1, <3>2
  <2>5. ~Ended(Last(screen))
    <3>1. socket.wire # <<Close("exited")>>
      <4> SUFFICES ASSUME socket.wire = <<Close("exited")>> PROVE FALSE
        OBVIOUS
      <4>1. socket.wire # <<>> /\ socket.wire[Len(socket.wire)] = Close("exited")
        OBVIOUS
      <4> QED
        BY <2>4, <4>1 DEF ClosedBy
    <3> QED
      BY <1>1, <3>1 DEF SocketSound
  <2> QED
    BY <1>1, <2>1, <2>3, <2>4, <2>5, LiveIs
<1> QED
  BY <1>1, <1>2

LEMMA SpawnSeen ==
  ASSUME Based, Seen, HostMoves, HostTypes', NEW a \in Agents, NEW ok \in BOOLEAN,
         NEW continued \in BOOLEAN, Spawned(a, ok, continued)
  PROVE  ViewSound' /\ Seen'
<1>1. /\ ViewTypes /\ PhaseSound /\ SocketType /\ screen \in Seq(Seq(Items)) /\ HostTypes
      /\ attempts \in 0 .. MaxAttempts /\ lost \in Nat
      /\ liveness \in {"connecting", "live", "dead"}
  BY DEF Based, ViewSound, ViewTypes
<1>2. UNCHANGED <<output, shown, intent, stale, screen, clicks, socket, lost>> /\ opening[a] # "no"
  BY DEF Spawned
<1>3. CASE shown = a /\ phase = "opening"
  <2>1. socket = None
    BY <1>1, <1>3 DEF PhaseSound
  <2>2. /\ phase' \in {"endpoint", "over", "waiting"} /\ attempts' \in 0 .. MaxAttempts
        /\ liveness' \in {"connecting", "live", "dead"}
    BY <1>1, <1>3, Schedules DEF Spawned
  <2>3. ViewSound'
    BY <1>1, <1>2, <1>3, <2>1, <2>2, PhaseMoves DEF Phases
  <2>4. ScreenSound'
    BY <1>2, ScreenStays DEF Seen
  <2> QED
    BY <1>2, <2>1, <2>3, <2>4, NoSocket DEF Seen
<1>4. CASE ~(shown = a /\ phase = "opening")
  <2>1. UNCHANGED <<phase, attempts, liveness>>
    BY <1>4 DEF Spawned
  <2>2. ViewSound'
    BY <1>1, <1>2, <2>1 DEF ViewSound, ViewTypes, SocketType, PhaseSound
  <2>3. socket # None /\ socket.open => shown \in Agents /\ shown # a
    BY <1>2, OpenIs
  <2>4. \A b \in Agents : b # a => store'[b] = store[b]
    <3>1. store' = store \/ \E s : store' = [store EXCEPT ![a] = s]
      BY DEF Spawned
    <3> QED
      BY <1>1, <3>1 DEF HostTypes
  <2> QED
    BY <1>2, <2>1, <2>2, <2>3, <2>4, SocketStays
<1> QED
  BY <1>3, <1>4

(* The batch becomes another. *)
LEMMA Batches ==
  ASSUME NEW k \in Sockets, NEW e \in Sockets, NEW told, NEW m, Threaded(k, told, m),
         e.wire = k.wire, e.sid = k.sid, NEW y \in Nat,
         Run(e.pending, k.sid, m[Len(k.wire) + 1], y)
  PROVE  \E n : Threaded(e, told, n) /\ n[0] = m[0] /\ n[Len(e.wire) + 2] = y
<1> DEFINE W == Len(k.wire)
           n == [m EXCEPT ![W + 2] = y]
<1>1. W \in Nat /\ m \in [0 .. (W + 2) -> Nat]
  BY SocketIs DEF Threaded
<1>2. /\ n \in [0 .. (W + 2) -> Nat] /\ n[W + 2] = y
      /\ \A j \in 0 .. (W + 1) : n[j] = m[j]
  <2>1. \A j \in 0 .. (W + 1) : j \in 0 .. (W + 2) /\ j # W + 2
    BY <1>1
  <2>2. W + 2 \in 0 .. (W + 2)
    BY <1>1
  <2> QED
    BY <1>1, <2>1, <2>2
<1> HIDE DEF n
<1>3. n[0] = m[0] /\ n[1] = m[1] /\ n[W + 1] = m[W + 1]
  BY <1>1, <1>2
<1>4. Run(told, e.sid, n[0], n[1])
  BY <1>3 DEF Threaded
<1>5. \A i \in 1 .. W : Run(Data(e.wire[i]), e.sid, n[i], n[i + 1])
  <2> SUFFICES ASSUME NEW i \in 1 .. W PROVE Run(Data(e.wire[i]), e.sid, n[i], n[i + 1])
    OBVIOUS
  <2>1. i \in 0 .. (W + 1) /\ i + 1 \in 0 .. (W + 1)
    BY <1>1
  <2>2. n[i] = m[i] /\ n[i + 1] = m[i + 1]
    BY <1>2, <2>1
  <2>3. Run(Data(k.wire[i]), k.sid, m[i], m[i + 1])
    BY DEF Threaded
  <2> QED
    BY <2>2, <2>3
<1>6. Threaded(e, told, n)
  BY <1>2, <1>3, <1>4, <1>5 DEF Threaded
<1> QED
  BY <1>2, <1>3, <1>6

LEMMA ProduceSeen ==
  ASSUME Based, Seen, HostMoves, HostTypes', NEW a \in Agents, Produce(a)
  PROVE  ViewSound' /\ Seen'
<1>1. /\ ViewTypes /\ PhaseSound /\ SocketType /\ HostTypes /\ StoreSound /\ screen \in Seq(Seq(Items))
  BY DEF Based, ViewSound, ViewTypes
<1>2. /\ IsLive(a) /\ store' = [store EXCEPT ![a] = appendOutput(store[a])]
      /\ UNCHANGED <<born, shown, phase, intent, stale, attempts, screen, liveness, clicks, lost>>
  BY DEF Produce, viewVars
<1>3. \A b \in Agents : b # a => store'[b] = store[b]
  BY <1>1, <1>2 DEF HostTypes
<1>4. CASE ~(Attached(a) /\ socket.open)
  <2>1. socket' = socket
    BY <1>4 DEF Produce
  <2>2. ViewSound'
    BY <1>1, <1>2, <2>1 DEF ViewSound, ViewTypes, SocketType, PhaseSound
  <2>3. socket # None /\ socket.open => shown \in Agents /\ shown # a
    BY <1>4, OpenIs
  <2> QED
    BY <1>2, <1>3, <2>1, <2>2, <2>3, SocketStays
<1>5. CASE Attached(a) /\ socket.open
  <2> DEFINE k == socket
             item == [sid |-> store[a].sid, n |-> store[a].made + 1]
             e == [k EXCEPT !.pending = Append(@, item)]
             W == Len(k.wire)
  <2>1. /\ k # None /\ k \in Sockets /\ SocketSound /\ Marked /\ shown \in Agents /\ phase = "socket"
        /\ ~Exiting(k) /\ a = shown /\ k.sid = store[a].sid /\ store[a] # None
    BY <1>5, OpenIs DEF Attached, SocketSound
  <2>2. /\ store[a] \in Sessions /\ store[a].sid \in Nat /\ store[a].made \in Nat
        /\ store[a].low \in Nat /\ ~store[a].exited /\ store[a].low <= store[a].made
    BY <1>1, <1>2, LiveIs, SessionIs DEF StoreSound
  <2>3. item \in Items /\ item.n = store[a].made + 1 /\ item.sid = store[a].sid
    BY <2>2 DEF Items
  <2>4. socket' = e
    BY <1>5 DEF Produce
  <2> HIDE DEF item
  <2>5. Append(k.pending, item) \in Seq(Items) /\ Append(k.pending, item) = k.pending \o <<item>>
    BY <2>1, <2>3, SocketIs
  <2>6. /\ e \in Sockets /\ e.sid = k.sid /\ e.wire = k.wire /\ e.open
        /\ e.pending = k.pending \o <<item>>
    <3>1. e = [sid |-> k.sid, pending |-> Append(k.pending, item), wire |-> k.wire, open |-> k.open]
      BY <2>1, Rewritten
    <3> HIDE DEF e
    <3> QED
      BY <1>5, <2>1, <2>5, <3>1 DEF Sockets
  <2> HIDE DEF e
  <2>7. PICK m : Threaded(k, Told(Last(screen)), m) /\ Spans(k, m)
    BY <2>1 DEF Marked
  <2>8. m[0] <= store[a].low /\ m[W + 2] = store[a].made
    BY <1>5, <2>1, <2>7 DEF Spans
  <2>9. m[W + 1] \in Nat /\ m[W + 2] \in Nat /\ m[0] \in Nat
    BY <2>1, <2>7, MarksAre
  <2>10. Run(<<item>>, k.sid, m[W + 2], m[W + 2] + 1)
    <3>1. item = [sid |-> k.sid, n |-> m[W + 2] + 1]
      BY <2>1, <2>8 DEF item
    <3> QED
      BY <2>8, <2>9, <3>1 DEF Run
  <2>11. Run(e.pending, k.sid, m[W + 1], m[W + 2] + 1)
    <3>1. Run(k.pending, k.sid, m[W + 1], m[W + 2])
      BY <2>7 DEF Threaded
    <3>2. k.pending \in Seq(Items) /\ <<item>> \in Seq(Items) /\ m[W + 2] + 1 \in Nat
      BY <2>1, <2>3, <2>9, SocketIs
    <3>3. Run(k.pending \o <<item>>, k.sid, m[W + 1], m[W + 2] + 1)
      BY <2>9, <2>10, <3>1, <3>2, RunJoins, Zenon
    <3> QED
      BY <2>6, <3>3
  <2>12. PICK n : /\ Threaded(e, Told(Last(screen)), n) /\ n[0] = m[0]
                  /\ n[Len(e.wire) + 2] = m[W + 2] + 1
    <3> DEFINE y == m[W + 2] + 1
    <3>1. y \in Nat /\ Run(e.pending, k.sid, m[W + 1], y)
      BY <2>9, <2>11
    <3> HIDE DEF y
    <3>2. \E n : /\ Threaded(e, Told(Last(screen)), n) /\ n[0] = m[0] /\ n[Len(e.wire) + 2] = y
      <4> DEFINE told == Told(Last(screen))
      <4>1. /\ k \in Sockets /\ e \in Sockets /\ Threaded(k, told, m) /\ e.wire = k.wire
            /\ e.sid = k.sid /\ y \in Nat /\ Run(e.pending, k.sid, m[Len(k.wire) + 1], y)
        BY <2>1, <2>6, <2>7, <3>1
      <4> HIDE DEF told, k
      <4> QED
        BY <4>1, Batches DEF told
    <3> QED
      BY <3>2 DEF y
  <2>13. /\ store'[a].sid = store[a].sid /\ store'[a].made = store[a].made + 1 /\ store'[a] # None
         /\ store[a].low <= store'[a].low /\ ~store'[a].exited /\ store'[a].low \in Nat
    <3> DEFINE s == appendOutput(store[a])
    <3>1. /\ s \in Sessions /\ s.sid = store[a].sid /\ s.made = store[a].made + 1
          /\ store[a].low <= s.low /\ s.exited = store[a].exited
      BY <2>2, AppendIs
    <3>2. store' = [store EXCEPT ![a] = s]
      BY <1>2
    <3> HIDE DEF s
    <3>3. store'[a] = s
      BY <1>1, <3>2 DEF HostTypes
    <3> QED
      BY <2>2, <3>1, <3>3, SessionIs, ViewAssumption
  <2>14. e # None
    BY <2>6, ViewAssumption
  <2>15. /\ Attached(a)' /\ \A b \in Agents : Attached(b)' => b = a
    <3>1. Attached(a)'
      BY <2>1, <2>4, <2>6, <2>13, <2>14 DEF Attached
    <3>2. \A b \in Agents : b # a /\ Attached(b)' => Attached(b)
      BY <1>3, <2>1, <2>4, <2>6 DEF Attached
    <3> QED
      BY <2>1, <3>1, <3>2 DEF SocketSound
  <2>16. Marked'
    <3>1. m[0] <= store'[a].low
      BY <2>2, <2>8, <2>9, <2>13
    <3>2. Spans(socket, n)'
      BY <1>2, <2>1, <2>4, <2>8, <2>12, <2>13, <3>1 DEF Spans
    <3> QED
      BY <1>2, <2>4, <2>12, <3>2 DEF Marked
  <2>17. SocketSound'
    <3>1. WireShaped(e)
      <4>1. \A i \in 1 .. Len(k.wire) :
              /\ k.wire[i].t = "hello" => i = 1
              /\ k.wire[i].t \notin {"exit", "close"}
        BY <1>5, <2>1, OpenWire DEF SocketSound, WireShaped
      <4>2. \A i \in 1 .. Len(e.wire) :
              /\ e.wire[i].t = "hello" => i = 1
              /\ e.wire[i].t \notin {"exit", "close"}
        BY <2>6, <4>1
      <4> QED
        BY <2>6, <4>2 DEF WireShaped
    <3>2. /\ Greets(e) <=> Greets(k)
          /\ ~Exiting(e) /\ (ClosedBy(e, "exited") <=> ClosedBy(k, "exited"))
      BY <2>1, <2>6 DEF Greets, Exiting, ClosedBy
    <3>3. /\ Greets(k) => Last(screen) = <<>>
          /\ ~Ended(Last(screen)) /\ ~ClosedBy(k, "exited")
          /\ ~Greets(k) => liveness = "live"
          /\ k.sid # None => k.sid <= born
      BY <1>5, <2>1, OpenIs DEF SocketSound
    <3> QED
      BY <1>2, <2>1, <2>4, <2>6, <2>13, <2>15, <3>1, <3>2, <3>3 DEF SocketSound
  <2>18. ViewSound'
    <3>1. ViewTypes'
      BY <1>1, <1>2 DEF ViewTypes
    <3>2. SocketType' /\ PhaseSound'
      BY <1>1, <1>2, <2>1, <2>4, <2>6, <2>14 DEF SocketType, PhaseSound
    <3> QED
      BY <3>1, <3>2 DEF ViewSound
  <2>19. ScreenSound'
    BY <1>2, ScreenStays DEF Seen
  <2> QED
    BY <2>16, <2>17, <2>18, <2>19 DEF Seen
<1> QED
  BY <1>4, <1>5

LEMMA FlushSeen ==
  ASSUME Based, Seen, HostMoves, HostTypes', Flush
  PROVE  ViewSound' /\ Seen'
<1> DEFINE k == socket
           e == flush(k)
<1>1. /\ ViewTypes /\ PhaseSound /\ SocketType
      /\ UNCHANGED <<store, born, shown, phase, intent, stale, attempts, screen, liveness, clicks, lost>>
      /\ k # None /\ k.open /\ socket' = e
  BY DEF Based, ViewSound, Flush, hostVars, viewVars
<1>2. /\ k \in Sockets /\ SocketSound /\ Marked /\ shown \in Agents /\ phase = "socket"
      /\ Attached(shown) /\ IsLive(shown) /\ ~Ended(Last(screen)) /\ WireShaped(k)
      /\ \A c : ~ClosedBy(k, c)
  BY <1>1, OpenIs DEF SocketSound
<1>3. PICK m : Threaded(k, Told(Last(screen)), m) /\ Spans(k, m)
  BY <1>1, <1>2 DEF Marked
<1>4. /\ e \in Sockets /\ WireShaped(e) /\ ~Exiting(e) /\ e.sid = k.sid
      /\ Greets(e) <=> Greets(k)
      /\ e.pending = <<>> /\ (~e.open => ClosedBy(e, "slow_consumer"))
  BY <1>1, <1>2, <1>3, Flushes
<1>5. PICK n : /\ Threaded(e, Told(Last(screen)), n) /\ n[0] = m[0]
               /\ e.open => n[Len(e.wire) + 2] = m[Len(k.wire) + 2]
  BY <1>1, <1>2, <1>3, Flushes
<1> HIDE DEF e
<1>6. e # None
  BY <1>4, ViewAssumption
<1>7. \A b \in Agents : Attached(b)' <=> Attached(b)
  BY <1>1, <1>4, <1>6 DEF Attached
<1>8. ~ClosedBy(e, "exited")
  <2>1. CASE e.open
    <3> SUFFICES ASSUME ClosedBy(e, "exited") PROVE FALSE
      OBVIOUS
    <3>1. Len(e.wire) \in 1 .. Len(e.wire) /\ e.wire[Len(e.wire)].t = "close"
      BY <1>4, SocketIs, FrameIs DEF ClosedBy
    <3> QED
      BY <1>4, <2>1, <3>1 DEF WireShaped
  <2>2. CASE ~e.open
    BY <1>4, <2>2, FrameIs DEF ClosedBy
  <2> QED
    BY <2>1, <2>2
<1>9. SocketSound'
  <2>1. \A b \in Agents : Attached(b)' => b = shown
    BY <1>1, <1>2, <1>7 DEF SocketSound
  <2>2. /\ e.sid # None => e.sid <= born
        /\ Greets(e) => Last(screen) = <<>>
        /\ ~Greets(e) => liveness = "live"
        /\ ~store[shown].exited
    BY <1>1, <1>2, <1>4 DEF SocketSound
  <2>3. Attached(shown)' /\ store'[shown'] = store[shown]
    BY <1>1, <1>2, <1>4, <1>6 DEF Attached
  <2> QED
    BY <1>1, <1>2, <1>4, <1>8, <2>1, <2>2, <2>3 DEF SocketSound
<1>10. Marked'
  <2>1. Spans(socket, n)'
    BY <1>1, <1>2, <1>3, <1>4, <1>5 DEF Spans
  <2> QED
    BY <1>1, <1>5, <2>1 DEF Marked
<1>11. ViewSound'
  <2>1. ViewTypes'
    BY <1>1 DEF ViewTypes
  <2>2. SocketType' /\ PhaseSound'
    BY <1>1, <1>2, <1>4, <1>6 DEF SocketType, PhaseSound
  <2> QED
    BY <2>1, <2>2 DEF ViewSound
<1>12. ScreenSound'
  BY <1>1, ScreenStays DEF Seen
<1> QED
  BY <1>9, <1>10, <1>11, <1>12 DEF Seen

LEMMA ExitSeen ==
  ASSUME Based, Seen, HostMoves, HostTypes', NEW a \in Agents, NEW young \in BOOLEAN, Exit(a, young)
  PROVE  ViewSound' /\ Seen'
<1>1. /\ ViewTypes /\ PhaseSound /\ SocketType /\ HostTypes /\ StoreSound
  BY DEF Based, ViewSound
<1>2. /\ IsLive(a) /\ store' = [store EXCEPT ![a] = [store[a] EXCEPT !.exited = TRUE]]
      /\ UNCHANGED <<born, shown, phase, intent, stale, attempts, screen, liveness, clicks, lost>>
  BY DEF Exit, viewVars
<1>3. \A b \in Agents : b # a => store'[b] = store[b]
  BY <1>1, <1>2 DEF HostTypes
<1>4. CASE ~(Attached(a) /\ socket.open)
  <2>1. socket' = socket
    BY <1>4 DEF Exit
  <2>2. ViewSound'
    BY <1>1, <1>2, <2>1 DEF ViewSound, ViewTypes, SocketType, PhaseSound
  <2>3. socket # None /\ socket.open => shown \in Agents /\ shown # a
    BY <1>4, OpenIs
  <2> QED
    BY <1>2, <1>3, <2>1, <2>2, <2>3, SocketStays
<1>5. CASE Attached(a) /\ socket.open
  <2> DEFINE k == socket
             e == sinkExit(k)
  <2>1. /\ k # None /\ k \in Sockets /\ SocketSound /\ Marked /\ shown \in Agents /\ phase = "socket"
        /\ a = shown /\ k.sid = store[a].sid /\ store[a] # None /\ WireShaped(k)
        /\ ~Ended(Last(screen)) /\ k.open
    BY <1>5, OpenIs DEF Attached, SocketSound
  <2>2. store[a] \in Sessions
    BY <1>1, <1>2, LiveIs
  <2>3. PICK m : Threaded(k, Told(Last(screen)), m) /\ Spans(k, m)
    BY <2>1 DEF Marked
  <2>4. /\ e \in Sockets /\ WireShaped(e) /\ ~e.open /\ e.sid = k.sid
        /\ Greets(e) <=> Greets(k)
        /\ (ClosedBy(e, "exited") => Exiting(e))
    BY <2>1, <2>3, SinkExits
  <2>5. PICK n : /\ Threaded(e, Told(Last(screen)), n) /\ n[0] = m[0]
                 /\ Exiting(e) => n[Len(e.wire) + 2] = m[Len(k.wire) + 2]
    BY <2>1, <2>3, SinkExits
  <2>6. socket' = e
    BY <1>5 DEF Exit
  <2> HIDE DEF e
  <2>7. e # None
    BY <2>4, ViewAssumption
  <2>8. /\ store'[a].sid = store[a].sid /\ store'[a].made = store[a].made
        /\ store[a].low = store'[a].low /\ store'[a].exited
    <3> DEFINE s == [store[a] EXCEPT !.exited = TRUE]
    <3>1. s.sid = store[a].sid /\ s.made = store[a].made /\ s.low = store[a].low /\ s.exited
      BY <2>2, ExitIs
    <3>2. store' = [store EXCEPT ![a] = s]
      BY <1>2
    <3> HIDE DEF s
    <3>3. store'[a] = s
      BY <1>1, <3>2 DEF HostTypes
    <3> QED
      BY <3>1, <3>3
  <2>9. \A b \in Agents : Attached(b)' => b = a
    <3>1. \A b \in Agents : b # a /\ Attached(b)' => Attached(b)
      BY <1>3, <2>1, <2>4, <2>6 DEF Attached
    <3> QED
      BY <2>1, <3>1 DEF SocketSound
  <2>10. Marked'
    <3>1. Spans(socket, n)'
      BY <1>2, <1>5, <2>1, <2>3, <2>4, <2>5, <2>6, <2>8 DEF Spans
    <3> QED
      BY <1>2, <2>5, <2>6, <3>1 DEF Marked
  <2>11. SocketSound'
    <3>1. /\ k.sid # None => k.sid <= born
          /\ Greets(k) => Last(screen) = <<>>
      BY <2>1 DEF SocketSound
    <3> QED
      BY <1>2, <2>1, <2>4, <2>6, <2>8, <2>9, <3>1 DEF SocketSound
  <2>12. ViewSound'
    <3>1. ViewTypes'
      BY <1>1, <1>2 DEF ViewTypes
    <3>2. SocketType' /\ PhaseSound'
      BY <1>1, <1>2, <2>1, <2>4, <2>6, <2>7 DEF SocketType, PhaseSound
    <3> QED
      BY <3>1, <3>2 DEF ViewSound
  <2>13. ScreenSound'
    BY <1>2, ScreenStays DEF Seen
  <2> QED
    BY <2>10, <2>11, <2>12, <2>13 DEF Seen
<1> QED
  BY <1>4, <1>5

LEMMA DropSeen ==
  ASSUME Based, Seen, HostMoves, HostTypes', NEW hostDied \in BOOLEAN, Drop(hostDied)
  PROVE  ViewSound' /\ Seen'
<1>1. /\ ViewTypes /\ PhaseSound /\ SocketType /\ screen \in Seq(Seq(Items))
      /\ attempts \in 0 .. MaxAttempts /\ lost \in Nat /\ phase \in Phases
      /\ liveness \in {"connecting", "live", "dead"}
  BY DEF Based, ViewSound, ViewTypes
<1>2. /\ lost' = lost + 1 /\ socket' = None /\ stale' \subseteq stale
      /\ UNCHANGED <<born, shown, intent, screen, clicks>>
  BY DEF Drop
<1>3. CASE socket # None \/ phase \in {"asking", "opening", "endpoint"}
  <2>1. scheduleReconnect /\ phase # "idle"
    BY <1>1, <1>3 DEF Drop, PhaseSound
  <2>2. /\ phase' \in {"over", "waiting"} /\ attempts' \in 0 .. MaxAttempts
        /\ liveness' \in {"connecting", "live", "dead"}
    BY <1>1, <2>1, Schedules
  <2>3. lost' \in Nat
    BY <1>1, <1>2
  <2>4. ViewSound'
    BY <1>1, <1>2, <2>1, <2>2, <2>3, PhaseMoves DEF Phases
  <2>5. ScreenSound'
    BY <1>2, ScreenStays DEF Seen
  <2> QED
    BY <1>2, <2>4, <2>5, NoSocket DEF Seen
<1>4. CASE ~(socket # None \/ phase \in {"asking", "opening", "endpoint"})
  <2>1. UNCHANGED <<phase, attempts, liveness>> /\ socket = None /\ lost' \in Nat
    BY <1>1, <1>2, <1>4 DEF Drop
  <2>2. ViewSound'
    BY <1>1, <1>2, <2>1, PhaseMoves DEF PhaseSound
  <2>3. ScreenSound'
    BY <1>2, ScreenStays DEF Seen
  <2> QED
    BY <1>2, <2>2, <2>3, NoSocket DEF Seen
<1> QED
  BY <1>3, <1>4

-----------------------------------------------------------------------------
(* What is seen stays sound.                                                 *)

LEMMA SeenStarts == Init => Based /\ Seen /\ Settled
<1> SUFFICES ASSUME Init PROVE Based /\ Seen /\ Settled
  OBVIOUS
<1>1. HostTypes
  BY DEF Init, HostTypes
<1>2. StoreSound
  BY DEF Init, StoreSound
<1>3. ViewTypes
  <2>1. 0 \in 0 .. MaxAttempts /\ <<>> \in Seq(Seq(Items))
    BY ViewAssumption
  <2> QED
    BY <2>1 DEF Init, ViewTypes, Phases, Intents
<1>4. SocketType /\ PhaseSound
  BY DEF Init, SocketType, PhaseSound
<1>5. Seen
  BY DEF Init, Seen, SocketSound, Marked, ScreenSound
<1>6. Settled
  BY DEF Init, Settled
<1> QED
  BY <1>1, <1>2, <1>3, <1>4, <1>5, <1>6 DEF Based, ViewSound

LEMMA SeenKept ==
  ASSUME Based, Seen, [Next]_vars
  PROVE  Based' /\ Seen' /\ HostMoves
<1>1. HostTypes' /\ StoreSound' /\ HostMoves
  BY HostKept, HostOnlyMoves
<1> SUFFICES ViewSound' /\ Seen'
  BY <1>1 DEF Based
<1>2. clicks \in Nat /\ lost \in Nat /\ ViewSound /\ (shown # None => shown \in Agents)
  BY DEF Based, ViewSound, ViewTypes
<1>3. ASSUME NEW a \in Agents, attach(a) PROVE ViewSound' /\ Seen'
  <2>1. startSession(a, "auto") /\ clicks' \in Nat /\ lost' = lost
    BY <1>2, <1>3 DEF attach
  <2> QED
    BY <1>2, <2>1, Restarts DEF Intents
<1>4. CASE resume
  <2>1. startSession(shown, "resume") /\ clicks' \in Nat /\ lost' = lost /\ shown \in Agents
    BY <1>2, <1>4 DEF resume
  <2>2. "resume" \in Intents
    BY DEF Intents
  <2>3. ViewSound
    BY <1>2
  <2> QED
    BY <2>1, <2>2, <2>3, Restarts
<1>5. ASSUME NEW a \in Agents, reconnect(a) PROVE ViewSound' /\ Seen'
  <2>1. CASE shown = a
    <3>1. startSession(a, "attach") /\ clicks' = clicks /\ lost' = lost
      BY <1>5, <2>1 DEF reconnect
    <3> QED
      BY <1>2, <3>1, Restarts DEF Intents
  <2>2. CASE shown # a
    <3>1. /\ UNCHANGED <<shown, phase, intent, stale, attempts, screen, liveness, socket, clicks, lost>>
          /\ store' = store
      BY <1>5, <2>2 DEF reconnect
    <3>2. ViewSound'
      BY <1>2, <3>1 DEF ViewSound, ViewTypes, SocketType, PhaseSound
    <3> QED
      BY <1>1, <3>1, <3>2, SocketStays
  <2> QED
    BY <2>1, <2>2
<1>6. CASE UNCHANGED vars
  <2>1. /\ UNCHANGED <<shown, phase, intent, stale, attempts, screen, liveness, socket, clicks, lost>>
        /\ store' = store
    BY <1>6 DEF vars, hostVars, viewVars
  <2>2. ViewSound'
    BY <1>2, <2>1 DEF ViewSound, ViewTypes, SocketType, PhaseSound
  <2>3. Seen'
    BY <1>1, <2>1, SocketStays
  <2> QED
    BY <2>2, <2>3
<1>7. CASE Receive
  <2>1. CASE socket.wire[1].t = "close"
    BY <1>1, <1>7, <2>1, ReceiveClose
  <2>2. CASE socket.wire[1].t # "close"
    BY <1>1, <1>7, <2>2, ReceiveFrame
  <2> QED
    BY <2>1, <2>2
<1>8. CASE detach \/ RetryFires \/ (\E held \in BOOLEAN : HostAnswers(held)) \/ openSocket
           \/ Flush
  <2>1. CASE detach
    BY <1>1, <2>1, DetachKeeps
  <2>2. CASE RetryFires
    BY <1>1, <2>2, RetryKeeps
  <2>3. CASE \E held \in BOOLEAN : HostAnswers(held)
    BY <1>1, <2>3, AnswerKeeps
  <2>4. CASE openSocket
    BY <1>1, <2>4, OpenKeeps
  <2>5. CASE Flush
    BY <1>1, <2>5, FlushSeen
  <2> QED
    BY <1>8, <2>1, <2>2, <2>3, <2>4, <2>5
<1>9. ASSUME NEW a \in Agents, NEW ok \in BOOLEAN, NEW continued \in BOOLEAN,
             Spawned(a, ok, continued)
      PROVE  ViewSound' /\ Seen'
  BY <1>1, <1>9, SpawnSeen
<1>10. ASSUME NEW a \in Agents, Produce(a) PROVE ViewSound' /\ Seen'
  BY <1>1, <1>10, ProduceSeen
<1>11. ASSUME NEW a \in Agents, NEW young \in BOOLEAN, Exit(a, young) PROVE ViewSound' /\ Seen'
  BY <1>1, <1>11, ExitSeen
<1>12. ASSUME NEW call \in stale, NEW held \in BOOLEAN, ServesStale(call, held)
       PROVE  ViewSound' /\ Seen'
  BY <1>1, <1>12, StaleKeeps
<1>13. ASSUME NEW hostDied \in BOOLEAN, Drop(hostDied) PROVE ViewSound' /\ Seen'
  BY <1>1, <1>13, DropSeen
<1> QED
  BY <1>3, <1>4, <1>5, <1>6, <1>7, <1>8, <1>9, <1>10, <1>11, <1>12, <1>13 DEF Next

-----------------------------------------------------------------------------
(* How a view comes to rest.                                                 *)

(* A step that leaves the phase alone. *)
LEMMA SettledStays ==
  ASSUME Based, Settled, UNCHANGED <<shown, phase, intent>>,
         phase = "over" => UNCHANGED <<attempts, liveness>>,
         shown # None /\ phase \in {"endpoint", "socket", "over"} /\ opening'[shown] = "view" =>
           opening[shown] = "view",
         shown # None /\ phase \in {"socket", "over"} /\ IsLive(shown)' =>
           Unasked' \/ (IsLive(shown) /\ (Unasked => Unasked')),
         phase = "socket" =>
           /\ ClosedBy(socket', "exited") => ClosedBy(socket, "exited")
           /\ ClosedBy(socket', "not_found") => ClosedBy(socket, "not_found")
  PROVE  Settled'
<1>1. phase \in {"socket", "over"} => shown # None
  BY DEF Based, ViewSound, PhaseSound
<1>2. shown' # None /\ phase' \in {"endpoint", "socket", "over"} /\ opening'[shown'] = "view" =>
        phase' = "over" /\ intent' = "attach"
  BY DEF Settled
<1>3. phase' = "over" => /\ liveness' = "dead"
                         /\ IsLive(shown)' => attempts' = MaxAttempts \/ Unasked'
  BY <1>1 DEF Settled
<1>4. /\ phase' = "socket" /\ IsLive(shown)'
      /\ ClosedBy(socket', "exited") \/ ClosedBy(socket', "not_found")
      => Unasked'
  BY <1>1 DEF Settled
<1> QED
  BY <1>2, <1>3, <1>4 DEF Settled

(* A step after which nothing is settled, or the retries ran out. *)
LEMMA SettledTries ==
  ASSUME \/ phase' \notin {"endpoint", "socket", "over"}
         \/ /\ phase' = "over" /\ liveness' = "dead"
            /\ IsLive(shown)' => attempts' = MaxAttempts \/ Unasked'
            /\ shown' # None /\ opening'[shown'] = "view" => intent' = "attach"
         \/ phase' = "endpoint" /\ opening'[shown'] # "view"
  PROVE  Settled'
  BY DEF Settled

LEMMA SettledKept ==
  ASSUME Based, Seen, Settled, [Next]_vars
  PROVE  Settled'
<1>1. /\ HostTypes /\ StoreSound /\ ViewTypes /\ PhaseSound /\ SocketType
      /\ (shown # None => shown \in Agents)
  BY DEF Based, ViewSound, ViewTypes
<1>2. CASE resume \/ detach \/ RetryFires \/ \E a \in Agents : attach(a)
  <2>1. phase' \in {"asking", "idle"}
    BY <1>2 DEF resume, detach, RetryFires, attach, startSession
  <2> QED
    BY <2>1, SettledTries
<1>3. CASE UNCHANGED vars
  BY <1>3, SettledStays DEF vars, hostVars, viewVars, IsLive, Unasked
<1>4. ASSUME NEW a \in Agents, reconnect(a) PROVE Settled'
  <2>1. CASE shown = a
    BY <1>4, <2>1, SettledTries DEF reconnect, startSession
  <2>2. CASE shown # a
    <3>1. /\ UNCHANGED <<store, opening, shown, phase, intent, attempts, liveness, socket>>
          /\ news' = news \ {a}
      BY <1>4, <2>2 DEF reconnect
    <3> QED
      BY <2>2, <3>1, SettledStays DEF IsLive, Unasked
  <2> QED
    BY <2>1, <2>2
<1>5. ASSUME NEW a \in Agents, NEW i \in Intents, NEW held,
             NEW by \in {"view", "left_view"}, Launched(a, i, held, by), store' = store
      PROVE  /\ \A b \in Agents : opening'[b] # opening[b] => b = a /\ opening'[b] = by
             /\ IsLive(a) => opening' = opening
             /\ i = "attach" => opening' = opening
  BY <1>1, <1>5 DEF Launched, HostTypes, openOrAttach
<1>6. ASSUME NEW held \in BOOLEAN, HostAnswers(held) PROVE Settled'
  <2>1. /\ shown \in Agents /\ intent \in Intents /\ phase = "asking" /\ store' = store
        /\ Launched(shown, intent, held, "view") /\ UNCHANGED <<shown, intent, attempts>>
    BY <1>1, <1>6, AskedBy DEF HostAnswers, ViewTypes
  <2>2. CASE IsLive(shown)
    <3>1. phase' = "endpoint" /\ opening' = opening /\ opening[shown] = "no"
      BY <1>1, <1>5, <1>6, <2>1, <2>2, LiveIs DEF HostAnswers, Served, openOrAttach
    <3> QED
      BY <2>1, <3>1, SettledTries
  <2>3. CASE ~IsLive(shown) /\ intent = "attach"
    <3>1. phase' = "over" /\ liveness' = "dead" /\ intent' = "attach"
      BY <1>6, <2>1, <2>3 DEF HostAnswers, Served, openOrAttach
    <3>2. ~IsLive(shown)'
      BY <2>1, <2>3 DEF IsLive
    <3> QED
      BY <3>1, <3>2, SettledTries
  <2>4. CASE ~IsLive(shown) /\ intent # "attach" /\ ~held
    <3>1. phase' = "opening"
      BY <1>6, <2>4 DEF HostAnswers, Served, openOrAttach
    <3> QED
      BY <3>1, SettledTries
  <2>5. CASE ~IsLive(shown) /\ intent # "attach" /\ held
    <3>1. phase' = "endpoint" /\ opening' = opening /\ opening[shown] = "no"
      BY <1>1, <1>6, <2>1, <2>5
      DEF HostAnswers, Served, openOrAttach, Launched, MayRefuse
    <3> QED
      BY <2>1, <3>1, SettledTries
  <2> QED
    BY <2>2, <2>3, <2>4, <2>5
<1>7. ASSUME NEW call \in stale, NEW held \in BOOLEAN, ServesStale(call, held) PROVE Settled'
  <2>1. call.agent \in Agents /\ call.intent \in Intents
    BY <1>1 DEF ViewTypes
  <2>2. /\ UNCHANGED <<store, news, shown, phase, intent, attempts, liveness, socket>>
        /\ Launched(call.agent, call.intent, held, "left_view")
    BY <1>7 DEF ServesStale
  <2>3. \A b \in Agents : opening'[b] = "view" => opening[b] = "view"
    BY <1>5, <2>1, <2>2
  <2> QED
    BY <1>1, <2>2, <2>3, SettledStays DEF IsLive, Unasked
<1>8. CASE openSocket
  <2>1. /\ phase = "endpoint" /\ phase' = "socket" /\ shown \in Agents
        /\ UNCHANGED <<store, opening, news, shown, intent, attempts, liveness>>
        /\ socket' = IF store[shown] = None THEN notFound ELSE onConnection(store[shown])
    BY <1>1, <1>8, AskedBy DEF openSocket, hostVars
  <2>2. opening[shown] # "view"
    BY <2>1, ViewAssumption DEF Settled
  <2>3. ASSUME IsLive(shown) PROVE \A c : ~ClosedBy(socket', c)
    <3>1. store[shown] \in Sessions /\ ~store[shown].exited /\ store[shown] # None
          /\ store[shown].low <= store[shown].made
      BY <1>1, <2>1, <2>3, LiveIs DEF StoreSound
    <3>2. /\ socket' \in Sockets /\ socket'.open /\ WireShaped(socket')
      BY <2>1, <3>1, Connects
    <3> SUFFICES ASSUME NEW c, ClosedBy(socket', c) PROVE FALSE
      OBVIOUS
    <3>3. Len(socket'.wire) \in 1 .. Len(socket'.wire) /\ socket'.wire[Len(socket'.wire)] = Close(c)
      BY <3>2, SocketIs DEF ClosedBy
    <3>4. Close(c).t = "close"
      BY DEF Close
    <3> QED
      BY <3>2, <3>3, <3>4 DEF WireShaped
  <2>4. IsLive(shown)' <=> IsLive(shown)
    BY <2>1 DEF IsLive
  <2> QED
    BY <2>1, <2>2, <2>3, <2>4 DEF Settled
<1>9. CASE Receive
  <2>1. /\ socket # None /\ phase = "socket" /\ socket \in Sockets /\ socket.wire # <<>>
        /\ shown \in Agents /\ SocketSound
        /\ UNCHANGED <<store, opening, news, shown, intent>>
    BY <1>1, <1>9 DEF Receive, PhaseSound, hostVars, SocketType, Seen
  <2>2. opening[shown] # "view" /\ WireShaped(socket) /\ Head(socket.wire) = socket.wire[1]
        /\ socket.wire[1] \in Frames
    BY <2>1, TailIs, ViewAssumption DEF Settled, SocketSound
  <2>3. (IsLive(shown)' <=> IsLive(shown)) /\ (Unasked' <=> Unasked)
    BY <2>1 DEF IsLive, Unasked
  <2>4. CASE socket.wire[1].t # "close"
    <3>1. /\ phase' = phase /\ socket' = [socket EXCEPT !.wire = Tail(@)]
      BY <1>9, <2>2, <2>4 DEF Receive
    <3> DEFINE e == [socket EXCEPT !.wire = Tail(@)]
    <3>2. /\ e \in Sockets /\ e.pending = socket.pending /\ e.open = socket.open
          /\ Len(e.wire) + 1 = Len(socket.wire)
          /\ \A i \in 1 .. Len(e.wire) : e.wire[i] = socket.wire[i + 1]
      BY <2>1, TailIs
    <3> HIDE DEF e
    <3>3. \A c : ClosedBy(e, c) => ClosedBy(socket, c)
      BY <2>1, <2>2, <2>4, <3>2, WireShrinks
    <3>4. socket' = e
      BY <3>1 DEF e
    <3> QED
      BY <2>1, <2>3, <3>1, <3>3, <3>4, SettledStays
  <2>5. CASE socket.wire[1].t = "close"
    <3> DEFINE c == socket.wire[1].code
    <3>1. /\ 1 = Len(socket.wire) /\ ~socket.open /\ c \in {"exited", "not_found", "slow_consumer"}
          /\ socket.wire[1] = Close(c)
      <4>1. 1 \in 1 .. Len(socket.wire)
        BY <2>1, SocketIs
      <4>2. socket.wire[1] \in [t : {"close"}, code : {"exited", "not_found", "slow_consumer"}]
        BY <2>2, <2>5 DEF Frames
      <4>3. socket.wire[1] = Close(c) /\ c \in {"exited", "not_found", "slow_consumer"}
        BY <4>2 DEF Close
      <4> QED
        BY <2>2, <2>5, <4>1, <4>3 DEF WireShaped
    <3>2. ClosedBy(socket, c) /\ ~Exiting(socket)
      <4>1. \A i \in 1 .. Len(socket.wire) : i = 1
        <5> DEFINE L == Len(socket.wire)
        <5>1. L = 1
          BY <3>1
        <5> HIDE DEF L
        <5>2. \A i \in 1 .. L : i = 1
          BY <5>1
        <5> QED
          BY <5>2 DEF L
      <4> QED
        BY <2>1, <2>5, <3>1, <4>1 DEF ClosedBy, Exiting
    <3> HIDE DEF c
    <3>3. handleClose(c)
      BY <1>9, <2>2, <2>5 DEF Receive, c
    <3>4. CASE c \in {"exited", "not_found"}
      <4>1. phase' = "over" /\ liveness' = "dead"
        <5>1. CASE c = "exited"
          BY <2>1, <3>2, <3>3, <5>1 DEF handleClose, SocketSound
        <5>2. CASE c = "not_found"
          BY <3>3, <5>2 DEF handleClose
        <5> QED
          BY <3>4, <5>1, <5>2
      <4>2. IsLive(shown) => Unasked
        BY <2>1, <3>2, <3>4 DEF Settled
      <4> QED
        BY <2>1, <2>2, <2>3, <4>1, <4>2, SettledTries
    <3>5. CASE c = "slow_consumer"
      <4>1. scheduleReconnect
        BY <3>3, <3>5 DEF handleClose
      <4>2. /\ phase' \in {"over", "waiting"}
            /\ phase' = "over" => liveness' = "dead" /\ attempts' = MaxAttempts
        BY <1>1, <4>1, Schedules
      <4> QED
        BY <2>1, <2>2, <4>2, SettledTries
    <3> QED
      BY <3>1, <3>4, <3>5
  <2> QED
    BY <2>4, <2>5
<1>10. ASSUME NEW a \in Agents, NEW ok \in BOOLEAN, NEW continued \in BOOLEAN,
              Spawned(a, ok, continued)
       PROVE  Settled'
  <2>1. /\ UNCHANGED <<shown, intent, socket>> /\ opening[a] # "no"
        /\ opening' = [opening EXCEPT ![a] = "no"]
    BY <1>10 DEF Spawned
  <2>2. opening'[a] = "no" /\ \A b \in Agents : b # a => opening'[b] = opening[b]
    BY <1>1, <2>1 DEF HostTypes
  <2>3. CASE shown = a /\ phase = "opening"
    <3>1. CASE ok \/ opening[a] = "respawn"
      <4>1. phase' = "endpoint"
        BY <1>10, <2>3, <3>1 DEF Spawned
      <4> QED
        BY <2>1, <2>2, <2>3, <4>1, SettledTries
    <3>2. CASE ~(ok \/ opening[a] = "respawn")
      <4>1. scheduleReconnect
        BY <1>10, <2>3, <3>2 DEF Spawned
      <4>2. /\ phase' \in {"over", "waiting"}
            /\ phase' = "over" => liveness' = "dead" /\ attempts' = MaxAttempts
        BY <1>1, <4>1, Schedules
      <4> QED
        BY <2>1, <2>2, <2>3, <4>2, SettledTries
    <3> QED
      BY <3>1, <3>2
  <2>4. CASE ~(shown = a /\ phase = "opening")
    <3>1. UNCHANGED <<phase, attempts, liveness>>
      BY <1>10, <2>4 DEF Spawned
    <3>2. shown # None => (opening'[shown] = "view" => opening[shown] = "view")
      BY <1>1, <2>2
    <3>3. ASSUME shown # None, phase \in {"socket", "over"}, IsLive(shown)'
          PROVE  Unasked' \/ (IsLive(shown) /\ (Unasked => Unasked'))
      <4>1. CASE shown # a
        <5>1. store'[shown] = store[shown] /\ news \subseteq news'
          <6>1. store' = store \/ \E s : store' = [store EXCEPT ![a] = s]
            BY <1>10 DEF Spawned
          <6> QED
            BY <1>1, <1>10, <3>3, <4>1, <6>1 DEF HostTypes, Spawned
        <5> QED
          BY <2>1, <3>3, <5>1 DEF IsLive, Unasked
      <4>2. CASE shown = a
        <5>1. ~IsLive(a)
          BY <1>1, <2>1, LiveIs
        <5>2. ok
          <6> SUFFICES ASSUME ~ok PROVE FALSE
            OBVIOUS
          <6>1. store' = store \/ store' = [store EXCEPT ![a] = None]
            BY <1>10 DEF Spawned
          <6>2. store'[a] = store[a] \/ store'[a] = None
            BY <1>1, <6>1 DEF HostTypes
          <6> QED
            BY <2>1, <3>3, <4>2, <5>1, <6>2 DEF IsLive
        <5>3. /\ store' = [store EXCEPT ![a] = Session(born + 1, continued, opening[a])]
              /\ opening[a] = "respawn" => a \in news'
          BY <1>10, <5>2 DEF Spawned
        <5>4. store'[a].by = opening[a]
          <6>1. store'[a] = Session(born + 1, continued, opening[a])
            BY <1>1, <5>3 DEF HostTypes
          <6> QED
            BY <6>1 DEF Session
        <5>5. opening[a] \in {"view", "left_view", "respawn"}
          BY <1>1, <2>1 DEF HostTypes
        <5>6. opening[a] = "view" => intent = "attach"
          BY <3>3, <4>2 DEF Settled
        <5> QED
          BY <2>1, <4>2, <5>3, <5>4, <5>5, <5>6 DEF Unasked
      <4> QED
        BY <4>1, <4>2
    <3> QED
      BY <2>1, <3>1, <3>2, <3>3, SettledStays
  <2> QED
    BY <2>3, <2>4
<1>11. ASSUME NEW a \in Agents, Produce(a) PROVE Settled'
  <2>1. /\ UNCHANGED <<opening, news, shown, phase, intent, attempts, liveness>>
        /\ store' = [store EXCEPT ![a] = appendOutput(store[a])]
        /\ socket # None => socket'.wire = socket.wire
    <3>1. /\ UNCHANGED <<opening, news, shown, phase, intent, attempts, liveness>>
          /\ store' = [store EXCEPT ![a] = appendOutput(store[a])]
      BY <1>11 DEF Produce, viewVars
    <3>2. ASSUME socket # None PROVE socket'.wire = socket.wire
      <4>1. socket \in Sockets
        BY <1>1, <3>2 DEF SocketType
      <4>2. socket' = socket \/ \E p : socket' = [socket EXCEPT !.pending = p]
        BY <1>11 DEF Produce
      <4> QED
        BY <4>1, <4>2 DEF Sockets
    <3> QED
      BY <3>1, <3>2
  <2>2. \A b \in Agents : (store'[b] # None /\ ~store'[b].exited => IsLive(b) /\ store'[b].by = store[b].by)
    <3> DEFINE s == appendOutput(store[a])
    <3>1. store[a] \in Sessions /\ store[a].low <= store[a].made /\ IsLive(a)
      BY <1>1, <1>11, LiveIs DEF Produce, StoreSound
    <3>2. s.by = store[a].by
      BY <3>1, AppendIs
    <3>3. store' = [store EXCEPT ![a] = s]
      BY <2>1
    <3> HIDE DEF s
    <3>4. store'[a] = s /\ \A b \in Agents : b # a => store'[b] = store[b]
      BY <1>1, <3>3 DEF HostTypes
    <3> QED
      BY <3>1, <3>2, <3>4 DEF IsLive
  <2>3. phase = "socket" => \A c : ClosedBy(socket', c) => ClosedBy(socket, c)
    BY <1>1, <2>1 DEF ClosedBy, PhaseSound
  <2> QED
    BY <1>1, <2>1, <2>2, <2>3, SettledStays DEF IsLive, Unasked
<1>12. CASE Flush
  <2>1. /\ socket # None /\ socket.open /\ socket' = flush(socket)
        /\ UNCHANGED <<store, opening, news, shown, phase, intent, attempts, liveness>>
    BY <1>12 DEF Flush, hostVars, viewVars
  <2>2. /\ SocketSound /\ Marked /\ socket \in Sockets /\ WireShaped(socket)
    BY <2>1, OpenIs DEF SocketSound
  <2>3. PICK m : Threaded(socket, Told(Last(screen)), m)
    BY <2>1, <2>2 DEF Marked
  <2> DEFINE e == flush(socket)
  <2>4. e \in Sockets /\ WireShaped(e) /\ (~e.open => ClosedBy(e, "slow_consumer"))
    BY <2>1, <2>2, <2>3, Flushes
  <2> HIDE DEF e
  <2>5. ~ClosedBy(e, "exited") /\ ~ClosedBy(e, "not_found")
    <3>1. CASE e.open
      <4>1. e.wire # <<>> => Len(e.wire) \in 1 .. Len(e.wire)
        BY <2>4, SocketIs
      <4> QED
        BY <2>4, <3>1, <4>1, FrameIs DEF ClosedBy, WireShaped
    <3>2. CASE ~e.open
      BY <2>4, <3>2, FrameIs DEF ClosedBy
    <3> QED
      BY <3>1, <3>2
  <2>6. socket' = e
    BY <2>1 DEF e
  <2> QED
    BY <2>1, <2>5, <2>6, SettledStays DEF IsLive, Unasked
<1>13. ASSUME NEW a \in Agents, NEW young \in BOOLEAN, Exit(a, young) PROVE Settled'
  <2>1. /\ UNCHANGED <<news, shown, phase, intent, attempts, liveness>>
        /\ store' = [store EXCEPT ![a] = [store[a] EXCEPT !.exited = TRUE]]
        /\ opening' = opening \/ opening' = [opening EXCEPT ![a] = "respawn"]
        /\ Attached(a) \/ socket' = socket
    BY <1>13 DEF Exit, viewVars
  <2>2. store'[a].exited /\ \A b \in Agents : b # a => store'[b] = store[b]
    <3> DEFINE s == [store[a] EXCEPT !.exited = TRUE]
    <3>1. s.exited
      BY <1>1, <1>13, LiveIs, ExitIs DEF Exit
    <3>2. store' = [store EXCEPT ![a] = s]
      BY <2>1
    <3> HIDE DEF s
    <3> QED
      BY <1>1, <3>1, <3>2 DEF HostTypes
  <2>3. shown # None => (opening'[shown] = "view" => opening[shown] = "view")
    BY <1>1, <2>1 DEF HostTypes
  <2>4. CASE shown = a
    <3>1. ~IsLive(shown)'
      BY <2>1, <2>2, <2>4 DEF IsLive
    <3> QED
      BY <2>1, <2>3, <3>1 DEF Settled
  <2>5. CASE shown # a
    <3>1. socket' = socket
      BY <2>1, <2>5 DEF Seen, SocketSound, Attached
    <3>2. shown # None => store'[shown] = store[shown]
      BY <1>1, <2>2, <2>5
    <3> QED
      BY <2>1, <2>3, <3>1, <3>2, SettledStays DEF IsLive, Unasked
  <2> QED
    BY <2>4, <2>5
<1>14. ASSUME NEW hostDied \in BOOLEAN, Drop(hostDied) PROVE Settled'
  <2>1. /\ UNCHANGED <<shown, intent>> /\ socket' = None
        /\ hostDied => store' = [b \in Agents |-> None] /\ opening' = [b \in Agents |-> "no"]
        /\ ~hostDied => UNCHANGED <<store, opening, news>>
    BY <1>14 DEF Drop
  <2>2. hostDied \/ socket # None
    BY <1>14 DEF Drop
  <2>3. CASE socket # None \/ phase \in {"asking", "opening", "endpoint"}
    <3>1. scheduleReconnect
      BY <1>14, <2>3 DEF Drop
    <3>2. /\ phase' \in {"over", "waiting"}
          /\ phase' = "over" => liveness' = "dead" /\ attempts' = MaxAttempts
      BY <1>1, <3>1, Schedules
    <3>3. shown # None => opening'[shown] # "view"
      <4>1. CASE hostDied
        BY <1>1, <2>1, <4>1
      <4>2. CASE ~hostDied
        BY <1>1, <2>1, <2>2, <4>2 DEF Settled, PhaseSound
      <4> QED
        BY <4>1, <4>2
    <3> QED
      BY <2>1, <3>2, <3>3, SettledTries
  <2>4. CASE ~(socket # None \/ phase \in {"asking", "opening", "endpoint"})
    <3>1. UNCHANGED <<phase, attempts, liveness>> /\ hostDied /\ phase # "socket"
      BY <1>1, <1>14, <2>2, <2>4 DEF Drop, PhaseSound
    <3>2. shown # None => store'[shown] = None /\ opening'[shown] = "no"
      BY <1>1, <2>1, <3>1
    <3> QED
      BY <2>1, <3>1, <3>2, SettledStays DEF IsLive
  <2> QED
    BY <2>3, <2>4
<1> QED
  BY <1>2, <1>3, <1>4, <1>6, <1>7, <1>8, <1>9, <1>10, <1>11, <1>12, <1>13, <1>14 DEF Next

-----------------------------------------------------------------------------
(* What may be launched is paid for.                                         *)

LEMMA SizeMoves ==
  ASSUME NEW S, IsFiniteSet(S), NEW T, NEW x
  PROVE  /\ Cardinality(S) \in Nat
         /\ T \subseteq S =>
              IsFiniteSet(T) /\ Cardinality(T) \in Nat /\ Cardinality(T) <= Cardinality(S)
         /\ T \subseteq S \cup {x} =>
              IsFiniteSet(T) /\ Cardinality(T) \in Nat /\ Cardinality(T) <= Cardinality(S) + 1
         /\ x \in S /\ T \subseteq S \ {x} =>
              IsFiniteSet(T) /\ Cardinality(T) \in Nat /\ Cardinality(T) + 1 <= Cardinality(S)
<1>1. Cardinality(S) \in Nat
  BY FS_CardinalityType
<1>2. ASSUME T \subseteq S
      PROVE  IsFiniteSet(T) /\ Cardinality(T) \in Nat /\ Cardinality(T) <= Cardinality(S)
  BY <1>2, FS_Subset, FS_CardinalityType
<1>3. ASSUME T \subseteq S \cup {x}
      PROVE  IsFiniteSet(T) /\ Cardinality(T) \in Nat /\ Cardinality(T) <= Cardinality(S) + 1
  <2> DEFINE U == S \cup {x}
  <2>1. IsFiniteSet(U) /\ (Cardinality(U) = Cardinality(S) \/ Cardinality(U) = Cardinality(S) + 1)
    BY FS_AddElement
  <2>2. T \subseteq U
    BY <1>3
  <2> HIDE DEF U
  <2>3. IsFiniteSet(T) /\ Cardinality(T) \in Nat /\ Cardinality(T) <= Cardinality(U)
    BY <2>1, <2>2, FS_Subset, FS_CardinalityType
  <2> QED
    BY <1>1, <2>1, <2>3
<1>4. ASSUME x \in S, T \subseteq S \ {x}
      PROVE  IsFiniteSet(T) /\ Cardinality(T) \in Nat /\ Cardinality(T) + 1 <= Cardinality(S)
  <2> DEFINE U == S \ {x}
  <2>1. IsFiniteSet(U) /\ Cardinality(U) = Cardinality(S) - 1
    BY <1>4, FS_RemoveElement
  <2>2. T \subseteq U
    BY <1>4
  <2> HIDE DEF U
  <2>3. IsFiniteSet(T) /\ Cardinality(T) \in Nat /\ Cardinality(T) <= Cardinality(U)
    BY <2>1, <2>2, FS_Subset, FS_CardinalityType
  <2> QED
    BY <1>1, <2>1, <2>3
<1> QED
  BY <1>1, <1>2, <1>3, <1>4

LEMMA CountsAre ==
  ASSUME IsFiniteSet(stale)
  PROVE  /\ IsFiniteSet(Launching) /\ Cardinality(Launching) \in Nat
         /\ IsFiniteSet(Respawning) /\ Cardinality(Respawning) \in Nat
         /\ IsFiniteSet(Replaceable) /\ Cardinality(Replaceable) \in Nat
         /\ IsFiniteSet(Calls) /\ Cardinality(Calls) \in Nat
         /\ Owed \in {0, 2}
<1>1. /\ Launching \subseteq Agents /\ Respawning \subseteq Agents /\ Replaceable \subseteq Agents
      /\ Calls \subseteq stale
  BY DEF Launching, Respawning, Replaceable, Calls
<1>2. IsFiniteSet(Agents)
  BY ViewAssumption
<1>3. Owed \in {0, 2}
  BY DEF Owed
<1> QED
  BY <1>1, <1>2, <1>3, SizeMoves

LEMMA Balances ==
  ASSUME Budgeted, IsFiniteSet(stale'), born \in Nat, clicks \in Nat, lost \in Nat,
         NEW paid \in Nat, clicks' + lost' = clicks + lost + paid, Spending' \in Nat,
         Spending' <= Spending + 2 * paid
  PROVE  Budgeted'
<1>1. Spending \in Nat
  BY CountsAre DEF Budgeted, Spending
<1>2. Spending <= 2 * (clicks + lost)
  BY DEF Budgeted, Spending
<1>3. clicks + lost \in Nat
  OBVIOUS
<1>4. Spending' <= 2 * (clicks + lost + paid)
  BY <1>1, <1>2, <1>3
<1>5. Spending' <= 2 * (clicks' + lost')
  BY <1>4
<1> QED
  BY <1>5 DEF Budgeted, Spending

(* A view that is left leaves its call behind. *)
LEMMA LeavesCall ==
  ASSUME IsFiniteSet(stale), stale' = Abandoned
  PROVE  /\ IsFiniteSet(stale') /\ Cardinality(Calls') \in Nat
         /\ 2 * Cardinality(Calls') <= 2 * Cardinality(Calls) + Owed
<1> DEFINE x == [agent |-> shown, intent |-> intent]
<1>1. stale' \subseteq stale \cup {x}
  BY DEF Abandoned
<1>2. IsFiniteSet(stale')
  BY <1>1, SizeMoves
<1>3. IsFiniteSet(Calls) /\ Cardinality(Calls) \in Nat /\ Owed \in {0, 2}
  BY CountsAre
<1>4. CASE phase = "asking" /\ intent # "attach"
  <2>1. Calls' \subseteq Calls \cup {x}
    BY <1>1 DEF Calls
  <2>2. Owed = 2
    BY <1>4 DEF Owed
  <2>3. Cardinality(Calls') \in Nat /\ Cardinality(Calls') <= Cardinality(Calls) + 1
    BY <1>3, <2>1, SizeMoves
  <2> QED
    BY <1>2, <1>3, <2>2, <2>3
<1>5. CASE ~(phase = "asking" /\ intent # "attach")
  <2>1. Calls' \subseteq Calls
    BY <1>5 DEF Abandoned, Calls
  <2>2. Cardinality(Calls') \in Nat /\ Cardinality(Calls') <= Cardinality(Calls)
    BY <1>3, <2>1, SizeMoves
  <2> QED
    BY <1>2, <1>3, <2>2
<1> QED
  BY <1>4, <1>5


LEMMA BudgetStarts == Init => Budgeted
<1> SUFFICES ASSUME Init PROVE Budgeted
  OBVIOUS
<1>1. /\ Launching = {} /\ Respawning = {} /\ Replaceable = {} /\ Calls = {} /\ Owed = 0
      /\ stale = {} /\ born = 0 /\ clicks = 0 /\ lost = 0
  BY DEF Init, Launching, Respawning, Replaceable, IsLive, Calls, Owed
<1>2. Cardinality({}) = 0 /\ IsFiniteSet({})
  BY FS_EmptySet
<1> QED
  BY <1>1, <1>2 DEF Budgeted, Spending

(* A step the host takes no part in. *)
LEMMA HostIdle ==
  ASSUME IsFiniteSet(stale), UNCHANGED <<store, opening>>
  PROVE  /\ Cardinality(Launching') \in Nat /\ Cardinality(Launching') <= Cardinality(Launching)
         /\ Cardinality(Respawning') \in Nat
         /\ Cardinality(Respawning') <= Cardinality(Respawning)
         /\ Cardinality(Replaceable') \in Nat
         /\ Cardinality(Replaceable') <= Cardinality(Replaceable)
<1>1. Launching' = Launching /\ Respawning' = Respawning /\ Replaceable' = Replaceable
  BY DEF Launching, Respawning, Replaceable, IsLive
<1> QED
  BY <1>1, CountsAre

(* A step that leaves the calls and the sessions as they are. *)
LEMMA OwedMoves ==
  ASSUME Budgeted, UNCHANGED <<store, opening, stale, born>>, born \in Nat, clicks \in Nat,
         lost \in Nat, NEW paid \in Nat, clicks' + lost' = clicks + lost + paid,
         Owed' <= Owed + 2 * paid
  PROVE  Budgeted'
<1>1. IsFiniteSet(stale) /\ IsFiniteSet(stale')
  BY DEF Budgeted
<1>2. Cardinality(Calls') \in Nat /\ 2 * Cardinality(Calls') <= 2 * Cardinality(Calls)
  <2>1. Calls' = Calls
    BY DEF Calls
  <2> QED
    BY <1>1, <2>1, CountsAre
<1>3. Owed' \in {0, 2}
  BY DEF Owed
<1>4. Spending' \in Nat /\ Spending' <= Spending + 2 * paid
  BY <1>1, <1>2, <1>3, HostIdle, CountsAre DEF Spending
<1> QED
  BY <1>1, <1>4, Balances

(* A new view owes what its intent may launch, and a selection pays for it. *)
LEMMA StartBudgeted ==
  ASSUME Budgeted, UNCHANGED <<store, opening, born>>, stale' = Abandoned,
         born \in Nat, clicks \in Nat, lost \in Nat,
         NEW paid \in Nat, clicks' + lost' = clicks + lost + paid, Owed' <= 2 * paid
  PROVE  Budgeted'
<1>1. IsFiniteSet(stale) /\ Owed \in {0, 2} /\ Owed' \in {0, 2}
  BY DEF Budgeted, Owed
<1>2. /\ IsFiniteSet(stale') /\ Cardinality(Calls') \in Nat
      /\ 2 * Cardinality(Calls') <= 2 * Cardinality(Calls) + Owed
  BY <1>1, LeavesCall
<1>3. Spending' \in Nat /\ Spending' <= Spending + 2 * paid
  BY <1>1, <1>2, HostIdle, CountsAre DEF Spending
<1> QED
  BY <1>2, <1>3, Balances

(* One launch more, for a call that was owed. *)
LEMMA LaunchBudgeted ==
  ASSUME Budgeted, HostTypes, NEW a \in Agents, NEW i, NEW held, NEW by \in {"view", "left_view"},
         Launched(a, i, held, by), store' = store
  PROVE  /\ Cardinality(Launching') \in Nat /\ Cardinality(Respawning') \in Nat
         /\ Cardinality(Replaceable') \in Nat
         /\ Cardinality(Respawning') <= Cardinality(Respawning)
         /\ Cardinality(Replaceable') <= Cardinality(Replaceable)
         /\ Cardinality(Launching') <= Cardinality(Launching) + 1
         /\ i = "attach" => Cardinality(Launching') <= Cardinality(Launching)
<1>1. IsFiniteSet(stale)
  BY DEF Budgeted
<1>2. CASE openOrAttach(a, i, held) = "opening" /\ opening[a] = "no"
  <2>1. opening' = [opening EXCEPT ![a] = by] /\ i # "attach"
    BY <1>2 DEF Launched, openOrAttach
  <2>2. opening'[a] = by /\ \A b \in Agents : b # a => opening'[b] = opening[b]
    BY <2>1 DEF HostTypes
  <2>3. Launching' \subseteq Launching \cup {a}
    BY <2>2 DEF Launching
  <2>4. Respawning' \subseteq Respawning
    BY <2>2 DEF Respawning
  <2>5. Replaceable' = Replaceable
    BY DEF Replaceable, IsLive
  <2> QED
    <3>1. Cardinality(Launching') \in Nat /\ Cardinality(Launching') <= Cardinality(Launching) + 1
      BY <1>1, <2>3, CountsAre, SizeMoves
    <3>2. Cardinality(Respawning') \in Nat /\ Cardinality(Respawning') <= Cardinality(Respawning)
      BY <1>1, <2>4, CountsAre, SizeMoves
    <3>3. Cardinality(Replaceable') \in Nat /\ Cardinality(Replaceable') <= Cardinality(Replaceable)
      BY <1>1, <2>5, CountsAre
    <3> QED
      BY <2>1, <3>1, <3>2, <3>3
<1>3. CASE ~(openOrAttach(a, i, held) = "opening" /\ opening[a] = "no")
  <2>1. opening' = opening
    BY <1>3 DEF Launched
  <2>2. /\ Cardinality(Launching) \in Nat
        /\ Cardinality(Launching') \in Nat /\ Cardinality(Launching') <= Cardinality(Launching)
    BY <1>1, <2>1, HostIdle, CountsAre
  <2>3. Cardinality(Launching') <= Cardinality(Launching) + 1
    BY <2>2
  <2> QED
    BY <1>1, <2>1, <2>2, <2>3, HostIdle
<1> QED
  BY <1>2, <1>3

LEMMA AnswerBudgeted ==
  ASSUME Based, Budgeted, NEW held \in BOOLEAN, HostAnswers(held)
  PROVE  Budgeted'
<1>1. /\ HostTypes /\ ViewTypes /\ PhaseSound /\ born \in Nat /\ clicks \in Nat /\ lost \in Nat
      /\ IsFiniteSet(stale)
  BY DEF Based, ViewSound, ViewTypes, HostTypes, Budgeted
<1>2. /\ shown \in Agents /\ phase = "asking" /\ Launched(shown, intent, held, "view")
      /\ store' = store
      /\ stale' = stale /\ born' = born /\ clicks' + lost' = clicks + lost
  BY <1>1, AskedBy DEF HostAnswers
<1>3. phase' \in {"endpoint", "over", "opening"}
  BY DEF HostAnswers, Served, openOrAttach
<1>4. Owed' = 0 /\ Owed = IF intent = "attach" THEN 0 ELSE 2
  BY <1>2, <1>3 DEF Owed
<1>5. Cardinality(Calls') \in Nat /\ 2 * Cardinality(Calls') <= 2 * Cardinality(Calls)
  <2>1. Calls' = Calls
    BY <1>2 DEF Calls
  <2> QED
    BY <1>1, <2>1, CountsAre
<1>6. /\ Cardinality(Launching') \in Nat /\ Cardinality(Respawning') \in Nat
      /\ Cardinality(Replaceable') \in Nat
      /\ Cardinality(Respawning') <= Cardinality(Respawning)
      /\ Cardinality(Replaceable') <= Cardinality(Replaceable)
      /\ Cardinality(Launching') <= Cardinality(Launching) + 1
      /\ intent = "attach" => Cardinality(Launching') <= Cardinality(Launching)
  BY <1>1, <1>2, LaunchBudgeted
<1>7. Spending' \in Nat /\ Spending' <= Spending + 2 * 0
  BY <1>1, <1>2, <1>4, <1>5, <1>6, CountsAre DEF Spending
<1> QED
  BY <1>1, <1>2, <1>7, Balances

LEMMA StaleBudgeted ==
  ASSUME Based, Budgeted, NEW call \in stale, NEW held \in BOOLEAN, ServesStale(call, held)
  PROVE  Budgeted'
<1>1. /\ HostTypes /\ born \in Nat /\ clicks \in Nat /\ lost \in Nat
      /\ IsFiniteSet(stale) /\ call.agent \in Agents
  BY DEF Based, ViewSound, ViewTypes, HostTypes, Budgeted
<1>2. /\ Launched(call.agent, call.intent, held, "left_view") /\ store' = store
      /\ stale' = stale \ {call} /\ born' = born /\ clicks' + lost' = clicks + lost
      /\ UNCHANGED <<phase, intent>>
  BY <1>1 DEF ServesStale
<1>3. Owed' <= Owed /\ Owed' \in {0, 2}
  BY <1>2 DEF Owed
<1>4. IsFiniteSet(stale') /\ IsFiniteSet(Calls) /\ Cardinality(Calls) \in Nat
  BY <1>1, <1>2, CountsAre, SizeMoves
<1>5. /\ Cardinality(Launching') \in Nat /\ Cardinality(Respawning') \in Nat
      /\ Cardinality(Replaceable') \in Nat
      /\ Cardinality(Respawning') <= Cardinality(Respawning)
      /\ Cardinality(Replaceable') <= Cardinality(Replaceable)
      /\ Cardinality(Launching') <= Cardinality(Launching) + 1
      /\ call.intent = "attach" => Cardinality(Launching') <= Cardinality(Launching)
  BY <1>1, <1>2, LaunchBudgeted
<1> SUFFICES Spending' \in Nat /\ Spending' <= Spending + 2 * 0
  BY <1>1, <1>2, <1>4, Balances
<1>6. CASE call.intent = "attach"
  <2>1. Calls' \subseteq Calls
    BY <1>2 DEF Calls
  <2>2. /\ Cardinality(Calls') \in Nat /\ Cardinality(Calls') <= Cardinality(Calls)
    BY <1>4, <2>1, SizeMoves
  <2> QED
    BY <1>1, <1>2, <1>3, <1>5, <1>6, <2>2, CountsAre DEF Spending
<1>7. CASE call.intent # "attach"
  <2>1. call \in Calls /\ Calls' \subseteq Calls \ {call}
    BY <1>2, <1>7 DEF Calls
  <2>2. /\ Cardinality(Calls') \in Nat /\ Cardinality(Calls') + 1 <= Cardinality(Calls)
    BY <1>4, <2>1, SizeMoves
  <2> QED
    BY <1>1, <1>2, <1>3, <1>5, <2>2, CountsAre DEF Spending
<1> QED
  BY <1>6, <1>7


LEMMA SpawnBudgeted ==
  ASSUME Based, Budgeted, NEW a \in Agents, NEW ok \in BOOLEAN, NEW continued \in BOOLEAN,
         Spawned(a, ok, continued)
  PROVE  Budgeted'
<1>1. /\ HostTypes /\ StoreSound /\ born \in Nat /\ clicks \in Nat /\ lost \in Nat
      /\ IsFiniteSet(stale)
  BY DEF Based, ViewSound, ViewTypes, HostTypes, Budgeted
<1>2. /\ opening[a] \in {"view", "left_view", "respawn"} /\ opening' = [opening EXCEPT ![a] = "no"]
      /\ UNCHANGED <<stale, clicks, lost, intent>>
  BY <1>1 DEF Spawned, HostTypes
<1>3. opening'[a] = "no" /\ \A b \in Agents : b # a => opening'[b] = opening[b]
  BY <1>1, <1>2 DEF HostTypes
<1>4. /\ IsFiniteSet(stale') /\ Cardinality(Calls') = Cardinality(Calls)
      /\ clicks' + lost' = clicks + lost + 0
  <2>1. Calls' = Calls
    BY <1>2 DEF Calls
  <2> QED
    BY <1>1, <1>2, <2>1
<1>5. Launching' \subseteq Launching /\ Respawning' \subseteq Respawning
  BY <1>3 DEF Launching, Respawning
<1>6. /\ Cardinality(Launching') \in Nat /\ Cardinality(Launching') <= Cardinality(Launching)
      /\ Cardinality(Respawning') \in Nat /\ Cardinality(Respawning') <= Cardinality(Respawning)
  BY <1>1, <1>5, CountsAre, SizeMoves
<1>7. opening[a] \in {"view", "left_view"} =>
        Cardinality(Launching') + 1 <= Cardinality(Launching)
  <2> SUFFICES ASSUME opening[a] \in {"view", "left_view"}
               PROVE  Cardinality(Launching') + 1 <= Cardinality(Launching)
    OBVIOUS
  <2>1. a \in Launching /\ Launching' \subseteq Launching \ {a}
    BY <1>3 DEF Launching
  <2> QED
    BY <1>1, <2>1, CountsAre, SizeMoves
<1>8. opening[a] = "respawn" => Cardinality(Respawning') + 1 <= Cardinality(Respawning)
  <2> SUFFICES ASSUME opening[a] = "respawn"
               PROVE  Cardinality(Respawning') + 1 <= Cardinality(Respawning)
    OBVIOUS
  <2>1. a \in Respawning /\ Respawning' \subseteq Respawning \ {a}
    BY <1>3 DEF Respawning
  <2> QED
    BY <1>1, <2>1, CountsAre, SizeMoves
<1> SUFFICES Spending' \in Nat /\ Spending' <= Spending + 2 * 0
  BY <1>1, <1>4, Balances
<1>9. CASE ok
  <2>1. /\ born' = born + 1 /\ store' = [store EXCEPT ![a] = Session(born + 1, continued, opening[a])]
        /\ opening[a] = "respawn" => ~continued
    BY <1>9 DEF Spawned
  <2>2. /\ store'[a] = Session(born + 1, continued, opening[a])
        /\ \A b \in Agents : b # a => store'[b] = store[b]
    BY <1>1, <2>1 DEF HostTypes
  <2>3. Owed' <= Owed
    <3>1. phase' = phase \/ phase' = "endpoint"
      BY <1>9 DEF Spawned
    <3> QED
      BY <1>2, <3>1 DEF Owed
  <2>4. CASE opening[a] = "respawn"
    <3>1. ~store'[a].continued
      BY <2>1, <2>2, <2>4 DEF Session
    <3>2. Replaceable' \subseteq Replaceable
      BY <2>2, <3>1 DEF Replaceable, IsLive
    <3>3. /\ Cardinality(Replaceable') \in Nat
          /\ Cardinality(Replaceable') <= Cardinality(Replaceable)
      BY <1>1, <3>2, CountsAre, SizeMoves
    <3> QED
      BY <1>1, <1>4, <1>6, <1>8, <2>1, <2>3, <2>4, <3>3, CountsAre DEF Spending, Owed
  <2>5. CASE opening[a] # "respawn"
    <3>1. Replaceable' \subseteq Replaceable \cup {a}
      BY <2>2 DEF Replaceable, IsLive
    <3>2. /\ Cardinality(Replaceable') \in Nat
          /\ Cardinality(Replaceable') <= Cardinality(Replaceable) + 1
      BY <1>1, <3>1, CountsAre, SizeMoves
    <3>3. Cardinality(Launching') + 1 <= Cardinality(Launching)
      BY <1>2, <1>7, <2>5
    <3>4. Owed' \in {0, 2}
      BY DEF Owed
    <3> QED
      BY <1>1, <1>4, <1>6, <2>1, <2>3, <3>2, <3>3, <3>4, CountsAre DEF Spending
  <2> QED
    BY <2>4, <2>5
<1>10. CASE ~ok
  <2>1. born' = born /\ (store' = store \/ store' = [store EXCEPT ![a] = None])
    BY <1>10 DEF Spawned
  <2>2. \A b \in Agents : store'[b] = store[b] \/ store'[b] = None
    BY <1>1, <2>1 DEF HostTypes
  <2>3. Replaceable' \subseteq Replaceable
    BY <2>2 DEF Replaceable, IsLive
  <2>4. /\ Cardinality(Replaceable') \in Nat
        /\ Cardinality(Replaceable') <= Cardinality(Replaceable)
    BY <1>1, <2>3, CountsAre, SizeMoves
  <2>5. Owed' \in {0, 2}
    BY DEF Owed
  <2>6. opening[a] = "respawn" => Owed' <= Owed
    <3>1. opening[a] = "respawn" => phase' = phase \/ phase' = "endpoint"
      BY <1>10 DEF Spawned
    <3> QED
      BY <1>2, <3>1 DEF Owed
  <2>7. CASE opening[a] = "respawn"
    BY <1>1, <1>4, <1>6, <2>1, <2>4, <2>5, <2>6, <2>7, CountsAre DEF Spending
  <2>8. CASE opening[a] # "respawn"
    <3>1. Cardinality(Launching') + 1 <= Cardinality(Launching)
      BY <1>2, <1>7, <2>8
    <3> QED
      BY <1>1, <1>4, <1>6, <2>1, <2>4, <2>5, <3>1, CountsAre DEF Spending
  <2> QED
    BY <2>7, <2>8
<1> QED
  BY <1>9, <1>10

LEMMA ExitBudgeted ==
  ASSUME Based, Budgeted, NEW a \in Agents, NEW young \in BOOLEAN, Exit(a, young)
  PROVE  Budgeted'
<1>1. /\ HostTypes /\ StoreSound /\ born \in Nat /\ clicks \in Nat /\ lost \in Nat
      /\ IsFiniteSet(stale) /\ IsLive(a) /\ opening[a] = "no"
  BY LiveIs DEF Based, ViewSound, ViewTypes, HostTypes, Budgeted, Exit
<1>2. /\ UNCHANGED <<stale, clicks, lost, phase, intent, born>>
      /\ store' = [store EXCEPT ![a] = [store[a] EXCEPT !.exited = TRUE]]
      /\ opening' = IF young THEN [opening EXCEPT ![a] = "respawn"] ELSE opening
      /\ young => store[a].continued
  BY <1>1 DEF Exit, viewVars
<1>3. store'[a].exited /\ \A b \in Agents : b # a => store'[b] = store[b]
  <2> DEFINE s == [store[a] EXCEPT !.exited = TRUE]
  <2>1. s.exited
    BY <1>1, LiveIs, ExitIs
  <2>2. store' = [store EXCEPT ![a] = s]
    BY <1>2
  <2> HIDE DEF s
  <2> QED
    BY <1>1, <2>1, <2>2 DEF HostTypes
<1>4. Calls' = Calls /\ Owed' = Owed /\ IsFiniteSet(stale') /\ clicks' + lost' = clicks + lost + 0
  BY <1>1, <1>2 DEF Calls, Owed
<1>5. Replaceable' \subseteq Replaceable \ {a}
  BY <1>3 DEF Replaceable, IsLive
<1> SUFFICES Spending' \in Nat /\ Spending' <= Spending + 2 * 0
  BY <1>1, <1>4, Balances
<1>6. CASE young
  <2>1. opening'[a] = "respawn" /\ \A b \in Agents : b # a => opening'[b] = opening[b]
    BY <1>1, <1>2, <1>6 DEF HostTypes
  <2>2. Launching' \subseteq Launching /\ Respawning' \subseteq Respawning \cup {a}
    BY <2>1 DEF Launching, Respawning
  <2>3. a \in Replaceable
    BY <1>1, <1>2, <1>6 DEF Replaceable
  <2>4. /\ Cardinality(Launching') \in Nat /\ Cardinality(Launching') <= Cardinality(Launching)
        /\ Cardinality(Respawning') \in Nat
        /\ Cardinality(Respawning') <= Cardinality(Respawning) + 1
    BY <1>1, <2>2, CountsAre, SizeMoves
  <2>5. /\ Cardinality(Replaceable') \in Nat
        /\ Cardinality(Replaceable') + 1 <= Cardinality(Replaceable)
    BY <1>1, <1>5, <2>3, CountsAre, SizeMoves
  <2> QED
    BY <1>1, <1>2, <1>4, <2>4, <2>5, CountsAre DEF Spending
<1>7. CASE ~young
  <2>1. Launching' = Launching /\ Respawning' = Respawning /\ Replaceable' \subseteq Replaceable
    BY <1>2, <1>5, <1>7 DEF Launching, Respawning
  <2>2. /\ Cardinality(Replaceable') \in Nat
        /\ Cardinality(Replaceable') <= Cardinality(Replaceable)
    BY <1>1, <2>1, CountsAre, SizeMoves
  <2> QED
    BY <1>1, <1>2, <1>4, <2>1, <2>2, CountsAre DEF Spending
<1> QED
  BY <1>6, <1>7

LEMMA ProduceBudgeted ==
  ASSUME Based, Budgeted, NEW a \in Agents, Produce(a)
  PROVE  Budgeted'
<1>1. /\ HostTypes /\ StoreSound /\ born \in Nat /\ clicks \in Nat /\ lost \in Nat
      /\ IsFiniteSet(stale) /\ IsLive(a)
  BY DEF Based, ViewSound, ViewTypes, HostTypes, Budgeted, Produce
<1>2. /\ UNCHANGED <<stale, clicks, lost, phase, intent, born, opening>>
      /\ store' = [store EXCEPT ![a] = appendOutput(store[a])]
  BY <1>1 DEF Produce, viewVars
<1>3. Replaceable' \subseteq Replaceable
  <2> DEFINE s == appendOutput(store[a])
  <2>1. s.continued = store[a].continued
    BY <1>1, LiveIs, AppendIs DEF StoreSound
  <2>2. store' = [store EXCEPT ![a] = s]
    BY <1>2
  <2> HIDE DEF s
  <2>3. store'[a].continued = store[a].continued /\ \A b \in Agents : b # a => store'[b] = store[b]
    BY <1>1, <2>1, <2>2 DEF HostTypes
  <2> QED
    BY <1>1, <2>3 DEF Replaceable, IsLive
<1>4. /\ Calls' = Calls /\ Owed' = Owed /\ Launching' = Launching /\ Respawning' = Respawning
      /\ IsFiniteSet(stale') /\ clicks' + lost' = clicks + lost + 0
  BY <1>1, <1>2 DEF Calls, Owed, Launching, Respawning
<1>5. /\ Cardinality(Replaceable') \in Nat
      /\ Cardinality(Replaceable') <= Cardinality(Replaceable)
  BY <1>1, <1>3, CountsAre, SizeMoves
<1>6. Spending' \in Nat /\ Spending' <= Spending + 2 * 0
  BY <1>1, <1>2, <1>4, <1>5, CountsAre DEF Spending
<1> QED
  BY <1>1, <1>4, <1>6, Balances

LEMMA DropBudgeted ==
  ASSUME Based, Budgeted, NEW hostDied \in BOOLEAN, Drop(hostDied)
  PROVE  Budgeted'
<1>1. /\ HostTypes /\ born \in Nat /\ clicks \in Nat /\ lost \in Nat /\ IsFiniteSet(stale)
  BY DEF Based, ViewSound, ViewTypes, HostTypes, Budgeted
<1>2. /\ born' = born /\ clicks' + lost' = clicks + lost + 1
      /\ Owed \in {0, 2} /\ Owed' \in {0, 2} /\ Owed' <= Owed + 2 * 1
  BY <1>1 DEF Drop, Owed
<1>3. CASE ~hostDied
  <2>1. UNCHANGED <<store, opening, stale>>
    BY <1>3 DEF Drop
  <2> QED
    BY <1>1, <1>2, <2>1, OwedMoves
<1>4. CASE hostDied
  <2>1. /\ store' = [b \in Agents |-> None] /\ opening' = [b \in Agents |-> "no"] /\ stale' = {}
    BY <1>4 DEF Drop
  <2>2. Launching' = {} /\ Respawning' = {} /\ Replaceable' = {} /\ Calls' = {}
    BY <2>1 DEF Launching, Respawning, Replaceable, IsLive, Calls
  <2>3. Cardinality({}) = 0 /\ IsFiniteSet({})
    BY FS_EmptySet
  <2>4. Spending' = born + Owed' /\ Spending' \in Nat
    BY <1>1, <1>2, <2>2, <2>3 DEF Spending
  <2>5. Spending' <= Spending + 2 * 1
    BY <1>1, <1>2, <2>4, CountsAre DEF Spending
  <2> QED
    BY <1>1, <1>2, <2>1, <2>3, <2>4, <2>5, Balances
<1> QED
  BY <1>3, <1>4

LEMMA ReceiveBudgeted ==
  ASSUME Based, Budgeted, Receive
  PROVE  Budgeted'
<1>1. /\ born \in Nat /\ clicks \in Nat /\ lost \in Nat /\ phase = "socket"
  BY DEF Based, ViewSound, ViewTypes, HostTypes, PhaseSound, Receive
<1>2. UNCHANGED <<store, opening, stale, born, clicks, intent>>
  BY DEF Receive, hostVars
<1>3. Owed = 0 /\ Owed' \in {0, 2}
  BY <1>1 DEF Owed
<1>4. CASE lost' = lost + 1
  <2>1. clicks' + lost' = clicks + lost + 1 /\ Owed' <= Owed + 2 * 1
    BY <1>1, <1>2, <1>3, <1>4
  <2> QED
    BY <1>1, <1>2, <2>1, OwedMoves
<1>5. CASE lost' # lost + 1
  <2>1. lost' = lost /\ phase' \in {"socket", "over"}
    <3>1. CASE Head(socket.wire).t # "close"
      BY <1>1, <3>1 DEF Receive
    <3>2. CASE Head(socket.wire).t = "close"
      <4>1. Head(socket.wire).code # "slow_consumer" /\ lost' = lost
            /\ handleClose(Head(socket.wire).code)
        BY <1>5, <3>2 DEF Receive
      <4>2. Head(socket.wire).code \in {"exited", "not_found", "slow_consumer"}
        <5>1. socket \in Sockets /\ socket.wire # <<>>
          BY DEF Based, ViewSound, SocketType, Receive
        <5>2. Head(socket.wire) \in Frames
          BY <5>1, SocketIs
        <5> QED
          BY <3>2, <5>2 DEF Frames
      <4> QED
        BY <4>1, <4>2 DEF handleClose
    <3> QED
      BY <3>1, <3>2
  <2>2. clicks' + lost' = clicks + lost + 0 /\ Owed' <= Owed + 2 * 0
    BY <1>1, <1>2, <1>3, <2>1 DEF Owed
  <2> QED
    BY <1>1, <1>2, <2>2, OwedMoves
<1> QED
  BY <1>4, <1>5

LEMMA BudgetKept ==
  ASSUME Based, Budgeted, [Next]_vars
  PROVE  Budgeted'
<1>1. /\ born \in Nat /\ clicks \in Nat /\ lost \in Nat
  BY DEF Based, ViewSound, ViewTypes, HostTypes
<1>2. ASSUME NEW a, NEW i, startSession(a, i), UNCHANGED <<store, opening, born, lost>>,
             NEW paid \in {0, 1}, clicks' = clicks + paid, i = "attach" \/ paid = 1
      PROVE  Budgeted'
  <2>1. stale' = Abandoned /\ phase' = "asking" /\ intent' = i
    BY <1>2 DEF startSession
  <2>2. Owed' <= 2 * paid /\ paid \in Nat /\ clicks' + lost' = clicks + lost + paid
    BY <1>1, <1>2, <2>1 DEF Owed
  <2> QED
    BY <1>1, <1>2, <2>1, <2>2, StartBudgeted
<1>3. ASSUME NEW a \in Agents, attach(a) PROVE Budgeted'
  BY <1>2, <1>3 DEF attach, hostVars
<1>4. CASE resume
  BY <1>2, <1>4 DEF resume, hostVars
<1>5. ASSUME UNCHANGED <<store, opening, stale, born, clicks, lost>>, Owed' <= Owed
      PROVE  Budgeted'
  <2>1. clicks' + lost' = clicks + lost + 0 /\ Owed' <= Owed + 2 * 0
    BY <1>1, <1>5 DEF Owed
  <2> QED
    BY <1>1, <1>5, <2>1, OwedMoves
<1>6. ASSUME NEW a \in Agents, reconnect(a) PROVE Budgeted'
  <2>1. CASE shown = a
    <3>1. startSession(a, "attach") /\ UNCHANGED <<store, opening, born, lost>> /\ clicks' = clicks + 0
      BY <1>1, <1>6, <2>1 DEF reconnect
    <3> QED
      BY <1>2, <3>1
  <2>2. CASE shown # a
    <3>1. Owed' <= Owed
      BY <1>6, <2>2 DEF reconnect, Owed
    <3> QED
      BY <1>5, <1>6, <2>2, <3>1 DEF reconnect
  <2> QED
    BY <2>1, <2>2
<1>7. CASE detach
  <2>1. /\ UNCHANGED <<store, opening, born>> /\ stale' = Abandoned /\ phase' = "idle"
        /\ clicks' + lost' = clicks + lost + 1
    BY <1>1, <1>7 DEF detach, hostVars
  <2>2. Owed' <= 2 * 1
    BY <2>1 DEF Owed
  <2> QED
    BY <1>1, <2>1, <2>2, StartBudgeted
<1>8. CASE RetryFires
  <2>1. Owed' <= Owed
    BY <1>8 DEF RetryFires, Owed
  <2> QED
    BY <1>5, <1>8, <2>1 DEF RetryFires, hostVars
<1>9. CASE openSocket
  <2>1. Owed' <= Owed
    BY <1>9 DEF openSocket, Owed
  <2> QED
    BY <1>5, <1>9, <2>1 DEF openSocket, hostVars
<1>10. CASE Flush
  <2>1. Owed' <= Owed
    BY <1>10 DEF Flush, viewVars, Owed
  <2> QED
    BY <1>5, <1>10, <2>1 DEF Flush, hostVars, viewVars
<1>11. CASE UNCHANGED vars
  <2>1. Owed' <= Owed
    BY <1>11 DEF vars, viewVars, Owed
  <2> QED
    BY <1>5, <1>11, <2>1 DEF vars, hostVars, viewVars
<1> QED
  BY <1>3, <1>4, <1>6, <1>7, <1>8, <1>9, <1>10, <1>11, AnswerBudgeted, StaleBudgeted,
     SpawnBudgeted,
     ExitBudgeted, ProduceBudgeted, DropBudgeted, ReceiveBudgeted DEF Next


-----------------------------------------------------------------------------
(* From the marks to what the pane shows.                                    *)

LEMMA LessIsWellFounded ==
  \E R : IsWellFoundedOn(R, Nat) /\ \A x, y \in Nat : x < y => <<x, y>> \in R
<1>1. IsWellFoundedOn(OpToRel(<, Nat), Nat)
  BY NatLessThanWellFounded, Zenon
<1>2. \A x, y \in Nat : x < y => <<x, y>> \in OpToRel(<, Nat)
  BY DEF OpToRel
<1> QED
  BY <1>1, <1>2, Zenon

(* Every set of naturals that is not empty has a least member. *)
LEMMA LeastExists ==
  ASSUME NEW S \in SUBSET Nat, S # {}
  PROVE  \E x \in S : \A y \in S : x <= y
<1>1. PICK R : IsWellFoundedOn(R, Nat) /\ \A x, y \in Nat : x < y => <<x, y>> \in R
  BY LessIsWellFounded
<1>2. S \subseteq Nat
  OBVIOUS
<1>3. \A A, B, T : IsWellFoundedOn(A, B) /\ T \subseteq B /\ T # {} =>
        \E x \in T : \A y \in T : ~ (<<y, x>> \in A)
  BY WFMin, Zenon
<1>4. PICK x \in S : \A y \in S : ~ (<<y, x>> \in R)
  <2>1. IsWellFoundedOn(R, Nat)
    BY <1>1
  <2> QED
    BY <2>1, <1>2, <1>3, Zenon
<1>5. \A y \in S : ~(y < x)
  BY <1>1, <1>4, <1>2, Zenon
<1>6. \A y \in S : x <= y
  <2> SUFFICES ASSUME NEW y \in S PROVE x <= y
    OBVIOUS
  <2>1. ~(y < x) /\ x \in Nat /\ y \in Nat
    BY <1>5
  <2> QED
    BY <2>1
<1> QED
  BY <1>6

(* Parts strung along marks: each is the run from one mark to the next. *)
Strung(p, N, sid, m) ==
  /\ N \in Nat /\ DOMAIN p = 1 .. N /\ Len(p) = N /\ m \in [0 .. N -> Nat]
  /\ \A i \in 1 .. N : p[i] \in Seq(Items) /\ Run(p[i], sid, m[i - 1], m[i])

LEMMA StrungAt ==
  ASSUME NEW p, NEW N, NEW sid, NEW m, Strung(p, N, sid, m), NEW i \in 1 .. N
  PROVE  m[i - 1] \in Nat /\ m[i] \in Nat /\ p[i] \in Seq(Items) /\ Run(p[i], sid, m[i - 1], m[i])
<1>1. i - 1 \in 0 .. N /\ i \in 0 .. N
  BY DEF Strung
<1> QED
  BY <1>1 DEF Strung

(* Between two marks with nothing but empty parts nothing is missing. *)
LEMMA GapsLevel ==
  ASSUME NEW p, NEW N, NEW sid, NEW m, Strung(p, N, sid, m),
         NEW i \in 0 .. N, NEW j \in i .. N, \A k \in (i + 1) .. j : p[k] = <<>>
  PROVE  m[i] = m[j] /\ m[i] \in Nat
<1>1. N \in Nat /\ m \in [0 .. N -> Nat] /\ i \in Nat /\ j \in Nat /\ i <= j /\ j <= N
  BY DEF Strung
<1>2. m[i] \in Nat
  BY <1>1
<1> DEFINE S == {k \in i .. j : m[k] # m[i]}
<1> SUFFICES ASSUME m[i] # m[j] PROVE FALSE
  BY <1>2
<1>3. j \in S /\ S \in SUBSET Nat
  BY <1>1
<1>4. PICK x \in S : \A y \in S : x <= y
  <2> HIDE DEF S
  <2> QED
    BY <1>3, LeastExists
<1>5. x \in (i + 1) .. j /\ x - 1 \in i .. j /\ m[x] # m[i] /\ x \in 1 .. N /\ x \in Nat
  BY <1>1
<1>6. x - 1 \notin S
  BY <1>4, <1>5
<1>7. m[x - 1] = m[i]
  BY <1>5, <1>6
<1>8. m[x - 1] = m[x]
  <2>1. p[x] = <<>> /\ x \in 1 .. N
    BY <1>5
  <2> QED
    <3>1. /\ m[x - 1] \in Nat /\ m[x] \in Nat /\ p[x] \in Seq(Items)
          /\ Run(p[x], sid, m[x - 1], m[x])
      BY <2>1, StrungAt
    <3>2. Len(p[x]) = 0
      BY <2>1
    <3> QED
      BY <3>1, <3>2 DEF Run
<1> QED
  BY <1>5, <1>7, <1>8

(* So the parts are one unbroken run from the first mark to the last. *)
LEMMA StrungRuns ==
  ASSUME NEW p, NEW N, NEW sid \in Nat, NEW m, Strung(p, N, sid, m)
  PROVE  /\ Unbroken(p)
         /\ \A low \in Nat : m[0] <= low /\ low < m[N] =>
              StartsBy(p, low + 1) /\ EndsWith(p, [sid |-> sid, n |-> m[N]])
<1>1. N \in Nat /\ m \in [0 .. N -> Nat] /\ DOMAIN p = 1 .. N /\ Len(p) = N
  BY DEF Strung
<1>2. \A i \in DOMAIN p : Contiguous(p[i])
  <2> SUFFICES ASSUME NEW i \in 1 .. N PROVE Contiguous(p[i])
    BY <1>1
  <2>1. m[i - 1] \in Nat /\ m[i] \in Nat /\ p[i] \in Seq(Items) /\ Run(p[i], sid, m[i - 1], m[i])
    BY StrungAt
  <2> QED
    BY <2>1, RunPlain
<1>3. ASSUME NEW i \in 1 .. N, NEW j \in 1 .. N, i < j, p[i] # <<>>, p[j] # <<>>,
             \A k \in (i + 1) .. (j - 1) : p[k] = <<>>
      PROVE  p[j][1] = Following(p[i])
  <2>1. i \in 0 .. N /\ j - 1 \in i .. N
    BY <1>1, <1>3
  <2>2. m[i] = m[j - 1]
    BY <1>3, <2>1, GapsLevel
  <2>3. Last(p[i]).sid = sid /\ Last(p[i]).n = m[i]
    <3>1. m[i - 1] \in Nat /\ m[i] \in Nat /\ p[i] \in Seq(Items) /\ Run(p[i], sid, m[i - 1], m[i])
      BY StrungAt
    <3> QED
      BY <1>3, <3>1, RunPlain
  <2>4. p[j][1] = [sid |-> sid, n |-> m[j - 1] + 1]
    <3>1. p[j] \in Seq(Items) /\ Run(p[j], sid, m[j - 1], m[j])
      BY StrungAt
    <3>2. 1 \in 1 .. Len(p[j])
      BY <1>3, <3>1
    <3> QED
      BY <3>1, <3>2 DEF Run
  <2> QED
    BY <2>2, <2>3, <2>4 DEF Following
<1>4. Unbroken(p)
  BY <1>1, <1>2, <1>3 DEF Unbroken
<1>5. ASSUME NEW low \in Nat, m[0] <= low, low < m[N]
      PROVE  StartsBy(p, low + 1) /\ EndsWith(p, [sid |-> sid, n |-> m[N]])
  <2> DEFINE Full == {i \in 1 .. N : p[i] # <<>>}
  <2>1. m[0] \in Nat /\ m[N] \in Nat /\ 0 \in 0 .. N /\ N \in 0 .. N /\ 0 + 1 = 1
    BY <1>1
  <2>2. Full # {}
    <3> SUFFICES ASSUME Full = {} PROVE FALSE
      OBVIOUS
    <3>1. \A k \in 1 .. N : p[k] = <<>>
      OBVIOUS
    <3>2. m[0] = m[N]
      BY <2>1, <3>1, GapsLevel
    <3> QED
      BY <1>5, <2>1, <3>2
  <2>3. StartsBy(p, low + 1)
    <3>1. Full \in SUBSET Nat
      BY <1>1
    <3>2. PICK i \in Full : \A k \in Full : i <= k
      <4> HIDE DEF Full
      <4> QED
        BY <2>2, <3>1, LeastExists
    <3>3. i \in 1 .. N /\ p[i] # <<>> /\ i - 1 \in 0 .. N
      BY <1>1
    <3>4. \A k \in 1 .. (i - 1) : p[k] = <<>>
      <4> SUFFICES ASSUME NEW k \in 1 .. (i - 1), p[k] # <<>> PROVE FALSE
        OBVIOUS
      <4>1. k \in Full /\ ~(i <= k)
        BY <1>1, <3>3
      <4> QED
        BY <3>2, <4>1
    <3>5. m[0] = m[i - 1]
      BY <2>1, <3>3, <3>4, GapsLevel
    <3>6. p[i][1] = [sid |-> sid, n |-> m[i - 1] + 1]
      <4>1. p[i] \in Seq(Items) /\ Run(p[i], sid, m[i - 1], m[i])
        BY <3>3, StrungAt
      <4>2. 1 \in 1 .. Len(p[i])
        BY <3>3, <4>1
      <4> QED
        BY <4>1, <4>2 DEF Run
    <3>7. p[i][1].n <= low + 1
      BY <1>5, <2>1, <3>5, <3>6
    <3> QED
      BY <1>1, <3>3, <3>4, <3>7 DEF StartsBy
  <2>4. EndsWith(p, [sid |-> sid, n |-> m[N]])
    <3> DEFINE Back == {d \in 0 .. N : N - d \in Full}
    <3>1. Back \in SUBSET Nat /\ Back # {}
      <4>1. PICK i \in Full : TRUE
        BY <2>2
      <4>2. N - i \in 0 .. N /\ N - (N - i) = i
        BY <1>1
      <4>3. N - i \in Back
        BY <4>1, <4>2
      <4>4. Back \in SUBSET Nat
        BY <1>1
      <4> QED
        BY <4>3, <4>4
    <3>2. PICK d \in Back : \A e \in Back : d <= e
      <4> HIDE DEF Back
      <4> QED
        BY <3>1, LeastExists
    <3> DEFINE i == N - d
    <3>3. i \in 1 .. N /\ p[i] # <<>> /\ d = N - i /\ N \in i .. N /\ i \in 0 .. N
      BY <1>1
    <3>4. \A k \in (i + 1) .. N : p[k] = <<>>
      <4> SUFFICES ASSUME NEW k \in (i + 1) .. N, p[k] # <<>> PROVE FALSE
        OBVIOUS
      <4>1. k \in Full /\ N - k \in 0 .. N /\ N - (N - k) = k /\ ~(d <= N - k)
        BY <1>1, <3>3
      <4>2. N - k \in Back
        BY <4>1
      <4> QED
        BY <3>2, <4>1, <4>2
    <3> HIDE DEF i
    <3>5. m[i] = m[N]
      BY <3>3, <3>4, GapsLevel
    <3>6. Last(p[i]).sid = sid /\ Last(p[i]).n = m[i] /\ Last(p[i]) \in Items
      <4>1. m[i - 1] \in Nat /\ m[i] \in Nat /\ p[i] \in Seq(Items) /\ Run(p[i], sid, m[i - 1], m[i])
        BY <3>3, StrungAt
      <4>2. Len(p[i]) \in 1 .. Len(p[i])
        BY <3>3, <4>1
      <4>3. Last(p[i]) \in Items
        BY <4>1, <4>2 DEF Last
      <4> QED
        BY <3>3, <4>1, <4>3, RunPlain, SMTT(30)
    <3>7. Last(p[i]) = [sid |-> sid, n |-> m[N]]
      BY <3>5, <3>6 DEF Items
    <3> QED
      BY <1>1, <3>3, <3>4, <3>7 DEF EndsWith
  <2> QED
    BY <2>3, <2>4
<1> QED
  BY <1>4, <1>5

(* The parts of the way to the pane are strung along the socket's marks. *)
LEMMA PartsStrung ==
  ASSUME Based, Seen, socket # None, NEW m, Threaded(socket, Told(Last(screen)), m)
  PROVE  \E n : /\ Strung(Parts, Len(socket.wire) + 2, socket.sid, n)
                /\ n[0] = m[0] /\ n[Len(socket.wire) + 2] = m[Len(socket.wire) + 2]
<1> DEFINE W == Len(socket.wire)
           told == Told(Last(screen))
           d == [i \in DOMAIN socket.wire |->
                   IF socket.wire[i].t = "output" THEN socket.wire[i].data ELSE <<>>]
<1>1. socket \in Sockets /\ W \in Nat /\ DOMAIN socket.wire = 1 .. W /\ screen # <<>>
      /\ screen \in Seq(Seq(Items))
  BY OpenIs, SocketIs DEF Based, ViewSound, ViewTypes, PhaseSound
<1>2. told \in Seq(Items)
  BY <1>1, ScreenIs, ToldIs
<1>3. \A i \in 1 .. W : d[i] = Data(socket.wire[i]) /\ d[i] \in Seq(Items)
  BY <1>1, SocketIs, FrameIs DEF Data
<1>4. d \in Seq(Seq(Items)) /\ Len(d) = W
  <2>1. d \in [1 .. W -> Seq(Items)]
    BY <1>1, <1>3
  <2> HIDE DEF d
  <2> QED
    BY <1>1, <2>1, SequenceOf
<1>5. Parts = <<told>> \o d \o <<socket.pending>>
  BY DEF Parts
<1> HIDE DEF d, told
<1>6. /\ DOMAIN Parts = 1 .. (W + 2) /\ Len(Parts) = W + 2
      /\ Parts[1] = told /\ Parts[W + 2] = socket.pending
      /\ \A i \in 2 .. (W + 1) : Parts[i] = d[i - 1]
  <2>1. socket.pending \in Seq(Items)
    BY <1>1, SocketIs
  <2> DEFINE q == <<told>> \o d
  <2>2. /\ q \in Seq(Seq(Items)) /\ Len(q) = W + 1 /\ q[1] = told
        /\ \A i \in 2 .. (W + 1) : q[i] = d[i - 1]
    BY <1>1, <1>2, <1>4
  <2>3. Parts = q \o <<socket.pending>>
    BY <1>5
  <2> HIDE DEF q, W
  <2>4. W \in Nat /\ 1 \in 1 .. (W + 1)
    BY <1>1
  <2>5. /\ Parts \in Seq(Seq(Items)) /\ Len(Parts) = W + 2 /\ Parts[W + 2] = socket.pending
        /\ \A i \in 1 .. (W + 1) : Parts[i] = q[i]
    BY <2>1, <2>2, <2>3, <2>4
  <2> QED
    BY <2>2, <2>4, <2>5
<1>7. /\ m \in [0 .. (W + 2) -> Nat]
      /\ Run(told, socket.sid, m[0], m[1])
      /\ \A i \in 1 .. W : Run(Data(socket.wire[i]), socket.sid, m[i], m[i + 1])
      /\ Run(socket.pending, socket.sid, m[W + 1], m[W + 2])
  BY DEF Threaded, told
<1>8. ASSUME NEW i \in 1 .. (W + 2)
      PROVE  Parts[i] \in Seq(Items) /\ Run(Parts[i], socket.sid, m[i - 1], m[i])
  <2>1. CASE i = 1
    <3>1. i - 1 = 0
      BY <2>1
    <3> QED
      BY <1>2, <1>6, <1>7, <2>1, <3>1
  <2>2. CASE i = W + 2
    <3>1. i - 1 = W + 1
      BY <1>1, <2>2
    <3> QED
      BY <1>1, <1>6, <1>7, <2>2, <3>1, SocketIs
  <2>3. CASE i \in 2 .. (W + 1)
    <3>1. i - 1 \in 1 .. W /\ (i - 1) + 1 = i
      BY <1>1, <2>3
    <3>2. Parts[i] = Data(socket.wire[i - 1]) /\ Parts[i] \in Seq(Items)
      BY <1>3, <1>6, <2>3, <3>1
    <3>3. Run(Data(socket.wire[i - 1]), socket.sid, m[i - 1], m[(i - 1) + 1])
      BY <1>7, <3>1
    <3> QED
      BY <3>1, <3>2, <3>3
  <2> QED
    BY <1>1, <2>1, <2>2, <2>3
<1>9. Strung(Parts, W + 2, socket.sid, m)
  BY <1>1, <1>6, <1>7, <1>8 DEF Strung
<1> QED
  BY <1>9

(* The inductive invariant of the pane. *)
ViewInv == Based /\ Seen /\ Settled /\ Budgeted

LEMMA InvFaithful == ViewInv => ViewIsFaithful
<1> SUFFICES ASSUME ViewInv PROVE ViewIsFaithful
  OBVIOUS
<1>1. Based /\ Seen /\ ScreenSound
  BY DEF ViewInv, Seen
<1>2. screen \in Seq(Seq(Items))
  BY <1>1 DEF Based, ViewSound, ViewTypes
<1>3. \A i \in DOMAIN screen : Contiguous(Told(screen[i]))
  <2>1. DOMAIN screen = 1 .. Len(screen)
    BY <1>2
  <2> QED
    BY <1>1, <2>1 DEF ScreenSound
<1>4. ASSUME shown # None, Attached(shown)
      PROVE  LET s == store[shown]
             IN  /\ Unbroken(Parts)
                 /\ socket.open /\ s.made > 0 =>
                      StartsBy(Parts, s.low + 1) /\ EndsWith(Parts, [sid |-> s.sid, n |-> s.made])
  <2> DEFINE s == store[shown]
             N == Len(socket.wire) + 2
  <2>1. shown \in Agents /\ s \in Sessions /\ socket # None /\ socket.sid = s.sid
    BY <1>1, <1>4, Stored DEF Based, ViewSound, ViewTypes, Attached
  <2>2. PICK m : Threaded(socket, Told(Last(screen)), m) /\ Spans(socket, m)
    BY <1>1, <2>1 DEF Seen, Marked
  <2>3. PICK n : /\ Strung(Parts, N, socket.sid, n) /\ n[0] = m[0] /\ n[N] = m[N]
    BY <1>1, <2>1, <2>2, PartsStrung
  <2>4. s.sid \in Nat /\ s.low \in Nat /\ s.made \in Nat
    BY <2>1, SessionIs
  <2>5. /\ Unbroken(Parts)
        /\ \A low \in Nat : n[0] <= low /\ low < n[N] =>
             StartsBy(Parts, low + 1) /\ EndsWith(Parts, [sid |-> s.sid, n |-> n[N]])
    <3> HIDE DEF N, s
    <3> QED
      BY <2>1, <2>3, <2>4, StrungRuns
  <2>6. ASSUME socket.open, s.made > 0
        PROVE  StartsBy(Parts, s.low + 1) /\ EndsWith(Parts, [sid |-> s.sid, n |-> s.made])
    <3>1. n[0] <= s.low /\ n[N] = s.made
      BY <1>4, <2>2, <2>3, <2>6 DEF Spans
    <3>2. s.low < s.made
      <4>1. StoreSound /\ store[shown] # None /\ store[shown].made > 0
        BY <1>1, <1>4, <2>6 DEF Based, Attached
      <4> QED
        BY <2>1, <4>1 DEF StoreSound
    <3> HIDE DEF N, s
    <3> QED
      BY <2>4, <2>5, <3>1, <3>2
  <2> QED
    BY <2>5, <2>6
<1>5. ASSUME shown # None, screen # <<>>, Ended(Last(screen)), Told(Last(screen)) # <<>>
      PROVE  LET last == Last(Told(Last(screen)))
             IN  store[shown] # None /\ store[shown].sid = last.sid =>
                   store[shown].exited /\ store[shown].made = last.n
  BY <1>1, <1>5 DEF ScreenSound
<1> QED
  BY <1>3, <1>4, <1>5 DEF ViewIsFaithful

LEMMA InvHonest == ViewInv => PaneHonest
<1> SUFFICES ASSUME ViewInv PROVE PaneHonest
  OBVIOUS
<1>1. Based /\ Seen /\ Settled /\ Budgeted
  BY DEF ViewInv
<1>2. LaunchesAreAsked
  <2>1. born \in Nat /\ clicks \in Nat /\ lost \in Nat /\ IsFiniteSet(stale)
    BY <1>1 DEF Based, HostTypes, ViewSound, ViewTypes, Budgeted
  <2>2. born <= Spending /\ Spending \in Nat
    BY <2>1, CountsAre DEF Spending
  <2>3. Spending <= 2 * (clicks + lost)
    BY <1>1 DEF Budgeted
  <2> QED
    BY <2>1, <2>2, <2>3 DEF LaunchesAreAsked
<1>3. RestsRight
  <2> SUFFICES ASSUME AtRest
               PROVE  \/ liveness = "live" /\ socket # None /\ Attached(shown) /\ IsLive(shown)
                      \/ /\ liveness = "dead"
                         /\ IsLive(shown) => attempts = MaxAttempts \/ LaunchedForAnother
    BY DEF RestsRight
  <2>1. shown # None /\ phase \in {"socket", "over"} /\ shown \notin news
    BY DEF AtRest
  <2>2. CASE phase = "over"
    <3>1. Unasked => LaunchedForAnother
      BY <2>1 DEF Unasked, LaunchedForAnother
    <3> QED
      BY <1>1, <2>2, <3>1 DEF Settled
  <2>3. CASE phase = "socket"
    <3>1. socket # None /\ SocketSound
      BY <1>1, <2>3 DEF Based, ViewSound, PhaseSound, Seen
    <3>2. socket.wire = <<>> /\ WireShaped(socket)
      BY <3>1 DEF AtRest, SocketSound
    <3>3. socket.open /\ ~Greets(socket)
      BY <3>2 DEF WireShaped, Greets
    <3>4. liveness = "live" /\ Attached(shown) /\ ~store[shown].exited
      BY <3>1, <3>3 DEF SocketSound
    <3> QED
      BY <3>1, <3>4 DEF IsLive, Attached
  <2> QED
    BY <2>1, <2>2, <2>3
<1> QED
  BY <1>2, <1>3 DEF PaneHonest

-----------------------------------------------------------------------------
(* The conjunction of the pane's invariants is inductive: every step of the host, the
   socket and the pane keeps it, with any number of agents, chunks and reconnects. *)
THEOREM ViewInductive == Spec => []ViewInv
<1>1. Init => ViewInv
  BY SeenStarts, BudgetStarts DEF ViewInv
<1>2. ViewInv /\ [Next]_vars => ViewInv'
  <2> SUFFICES ASSUME ViewInv, [Next]_vars PROVE ViewInv'
    OBVIOUS
  <2>1. Based /\ Seen /\ Settled /\ Budgeted
    BY DEF ViewInv
  <2> QED
    BY <2>1, SeenKept, SettledKept, BudgetKept DEF ViewInv
<1> QED
  BY <1>1, <1>2, PTL DEF Spec

(* What the pane shows of a session is what the session wrote: each socket's piece of
   the screen is an unbroken run of its output, together with the frames on the wire and
   the batch it reaches from the ring's oldest chunk to the newest, and "session ended"
   stands only under the last chunk (output-batcher.ts, ws-server.ts, ws-transport.ts). *)
THEOREM ViewFaithful == Spec => []ViewIsFaithful
<1>1. ViewInv => ViewIsFaithful
  BY InvFaithful
<1> QED
  BY <1>1, ViewInductive, PTL

(* The pane launches at most what was asked of it, and rests on "live" over a live
   session or on "dead" once the session is gone, the retries ran out or the session was
   launched for a view that was left (session-controller.ts). *)
THEOREM PaneIsHonest == Spec => []PaneHonest
<1>1. ViewInv => PaneHonest
  BY InvHonest
<1> QED
  BY <1>1, ViewInductive, PTL
=============================================================================
