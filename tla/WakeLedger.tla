------------------------------ MODULE WakeLedger ------------------------------
(***************************************************************************)
(* What the wake layer promises for every wake, whichever transport        *)
(* delivers it (WakeTransport and SchedulerControl in wake/types.ts): a    *)
(* wake fires, is queued in order, starts at most once, and once started   *)
(* settles exactly once; a queued wake may be dropped but never comes      *)
(* back.  WakeWriter implements this specification.                        *)
(***************************************************************************)
EXTENDS Naturals

CONSTANT Wakes   \* a set of naturals; smaller means fired earlier
VARIABLE status

Settlements ==
  {"succeeded", "stopped", "timed_out", "spawn_fail", "resume_fail", "api_error"}
Status == {"unfired", "queued", "running", "dropped"} \cup Settlements

\* The life of one wake.
Moves ==
  ({"unfired"} \X {"unfired", "queued", "running"})
    \cup ({"queued"} \X {"queued", "running", "dropped"})
    \cup ({"running"} \X ({"running"} \cup Settlements))
    \cup {<<s, s>> : s \in {"dropped"} \cup Settlements}

Fires(w) == status[w] = "unfired" /\ status'[w] # "unfired"
Starts(w) == status[w] # "running" /\ status'[w] = "running"

Init == status = [w \in Wakes |-> "unfired"]

\* One handler may settle wakes, drop wakes, fire one and start one.
Step ==
  /\ status' \in [Wakes -> Status]
  /\ \A w \in Wakes : <<status[w], status'[w]>> \in Moves
  /\ \A v, w \in Wakes : Fires(v) /\ Fires(w) => v = w
  /\ \A v, w \in Wakes : Starts(v) /\ Starts(w) => v = w
  /\ \A v, w \in Wakes :
       Starts(v) /\ w < v => status'[w] \notin {"unfired", "queued"}

Spec == Init /\ [][Step]_status
=============================================================================
