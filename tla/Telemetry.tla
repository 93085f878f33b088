----------------------------- MODULE Telemetry -----------------------------
(***************************************************************************)
(* What leaves the machine: the host's telemetry behind its consent        *)
(* setting (services/analytics/index.ts, services/settings/index.ts) and   *)
(* the feedback form, whose draft and calls live in the window             *)
(* (FeedbackButton.tsx, stores/feedback.ts) while the host sends.          *)
(*                                                                         *)
(* A text is a number, 0 the empty one.  PostHog keeps the first event of  *)
(* a uuid.  Allowlists, error sanitizing and diagnostics are not modelled. *)
(*                                                                         *)
(* Definitions marked "Slip" are mistaken variants of the definition that  *)
(* follows them; no action uses them.                                      *)
(***************************************************************************)
EXTENDS Naturals, Sequences

CONSTANTS
  MaxEdits,    \* bound: texts typed
  MaxSends,    \* bound: submissions
  MaxHosts     \* bound: hosts that stop

TelemetryAssumption == MaxEdits \in Nat /\ MaxSends \in Nat /\ MaxHosts \in Nat

VARIABLES
  settings,   \* the settings: telemetry and one other reportable setting
  client,     \* the host has a PostHog client
  enabled,    \* the host's copy of the consent
  seen,       \* lastSettings, or the settings when there is no client to tell
  draft,      \* id and text
  edits, ids, stops,
  sends,      \* each submission: id, text, at ("called", "flushing",
              \*   "sent", "failed", and what the form was told)
  waiting,       \* the submission the mounted form waits for, or 0
  outbox,     \* feedback the PostHog client holds and retries
  stored,     \* feedback at PostHog
  captured    \* history: events handed to the client, with the consent of that moment

hostVars == <<settings, client, enabled, seen, stops>>
formVars == <<draft, edits, ids, waiting>>
vars == <<hostVars, formVars, sends, outbox, stored, captured>>

Texts == 0 .. MaxEdits
Feedback == [id : 1 .. 2 * MaxSends + 1, text : Texts]
Settings == [telemetry : BOOLEAN, other : BOOLEAN]

TypeOK ==
  /\ {settings, seen} \subseteq Settings /\ {client, enabled} \subseteq BOOLEAN
  /\ {draft} \cup outbox \cup stored \subseteq Feedback
  /\ waiting \in 0 .. Len(sends) /\ Len(sends) <= MaxSends
  /\ \A i \in 1 .. Len(sends) :
       sends[i].at \in {"called", "flushing", "sent", "failed", "told sent", "told failed"}

Init ==
  /\ settings \in Settings /\ seen = settings /\ enabled = settings.telemetry
  /\ client = TRUE /\ stops = 0
  /\ draft = [id |-> 1, text |-> 0] /\ edits = 0 /\ ids = 1
  /\ sends = <<>> /\ waiting = 0 /\ outbox = {} /\ stored = {} /\ captured = {}

\* track: what the client is given, under the setting that is in force.
Tracked(events, on, setting) ==
  IF client /\ on THEN {[event |-> e, consent |-> setting] : e \in events} ELSE {}

Track ==
  /\ captured' = captured \cup Tracked({"usage"}, enabled, settings.telemetry)
  /\ UNCHANGED <<hostVars, formVars, sends, outbox, stored>>

Changed(next) == IF next.other # seen.other THEN {"setting_changed"} ELSE {}

\* Slip: an opt-out goes on to the other settings.
onSettingsChangedSlip(next) ==
  /\ enabled' = next.telemetry
  /\ captured' = captured \cup
       Tracked({"telemetry_disabled"} \cup Changed(next), seen.telemetry, next.telemetry)

(***************************************************************************)
(* onSettingsChanged: an opt-out sends one last event and nothing of the   *)
(* other settings in the same update; an opt-in counts from its own event. *)
(***************************************************************************)
onSettingsChanged(next) ==
  /\ enabled' = next.telemetry
  /\ captured' = captured \cup
       CASE seen.telemetry /\ ~next.telemetry -> Tracked({"telemetry_disabled"}, enabled, FALSE)
         [] ~seen.telemetry /\ next.telemetry ->
              Tracked({"telemetry_enabled"} \cup Changed(next), TRUE, TRUE)
         [] OTHER -> Tracked(Changed(next), enabled, next.telemetry)

\* update: the settings are written and the change told at once.
Update(next) ==
  /\ client
  /\ next # settings
  /\ settings' = next /\ seen' = next
  /\ onSettingsChanged(next)
  /\ UNCHANGED <<client, stops, formVars, sends, outbox, stored>>

-----------------------------------------------------------------------------
\* The draft outlives the popover, and may be edited while it is sent.
setMessage ==
  /\ edits < MaxEdits
  /\ edits' = edits + 1
  /\ draft' = [draft EXCEPT !.text = edits + 1]
  /\ UNCHANGED <<hostVars, ids, waiting, sends, outbox, stored, captured>>

\* The popover closes and opens again: a new form, which waits for nothing.
Reopen ==
  /\ waiting # 0
  /\ waiting' = 0
  /\ UNCHANGED <<hostVars, draft, edits, ids, sends, outbox, stored, captured>>

\* Slip: every submission has an id of its own.
submitSlip ==
  /\ waiting = 0 /\ draft.text # 0 /\ Len(sends) < MaxSends
  /\ sends' = Append(sends, [id |-> ids + 1, text |-> draft.text, at |-> "called"])
  /\ ids' = ids + 1
  /\ waiting' = Len(sends) + 1
  /\ UNCHANGED <<hostVars, draft, edits, outbox, stored, captured>>

submit ==
  /\ waiting = 0 /\ draft.text # 0 /\ Len(sends) < MaxSends
  /\ sends' = Append(sends, [id |-> draft.id, text |-> draft.text, at |-> "called"])
  /\ waiting' = Len(sends) + 1
  /\ UNCHANGED <<hostVars, draft, edits, ids, outbox, stored, captured>>

Reaches(i, at) == sends' = [sends EXCEPT ![i].at = at]

\* feedback.send, sendFeedback: after the probes, captured whatever the consent.
sendFeedback(i) ==
  /\ sends[i].at = "called"
  /\ IF client
     THEN /\ Reaches(i, "flushing")
          /\ outbox' = outbox \cup {[id |-> sends[i].id, text |-> sends[i].text]}
          /\ captured' = captured \cup
               {[event |-> "feedback_submitted", consent |-> settings.telemetry]}
     ELSE Reaches(i, "failed") /\ UNCHANGED <<outbox, captured>>
  /\ UNCHANGED <<hostVars, formVars, stored>>

\* What PostHog may hold after these arrive in some order: the first of each uuid.
Arrived(items) ==
  LET new == {f \in items : \A s \in stored : s.id # f.id}
      kept == {k \in SUBSET new : \A f, g \in k : f.id = g.id => f = g}
  IN  {stored \cup k : k \in {k \in kept : \A f \in new : \E g \in k : g.id = f.id}}

\* The flush ends in time: everything the client held is at PostHog.
Flushed(i) ==
  /\ sends[i].at = "flushing" /\ client
  /\ \E f \in outbox \cup stored : f.id = sends[i].id
  /\ stored' \in Arrived(outbox)
  /\ outbox' = {}
  /\ Reaches(i, "sent")
  /\ captured' = captured \cup Tracked({"feedback_sent"}, enabled, settings.telemetry)
  /\ UNCHANGED <<hostVars, formVars>>

\* FEEDBACK_FLUSH_TIMEOUT_MS, or an error of the flush or of the host's connection.
FlushFails(i) ==
  /\ sends[i].at \in {"called", "flushing"}
  /\ sends[i].at = "called" => ~client
  /\ Reaches(i, "failed")
  /\ UNCHANGED <<hostVars, formVars, outbox, stored, captured>>

\* posthog-node in the background: delivers what it holds, or gives up.
Background(f) ==
  /\ f \in outbox
  /\ outbox' = outbox \ {f}
  /\ stored' \in {stored} \cup Arrived({f})
  /\ UNCHANGED <<hostVars, formVars, sends, captured>>

(***************************************************************************)
(* submit, its answer: success resets the draft, whatever it holds by now. *)
(***************************************************************************)
Answer(i) ==
  /\ sends[i].at \in {"sent", "failed"}
  /\ IF sends[i].at = "sent"
     THEN draft' = [id |-> ids + 1, text |-> 0] /\ ids' = ids + 1
     ELSE UNCHANGED <<draft, ids>>
  /\ waiting' = IF waiting = i THEN 0 ELSE waiting
  /\ Reaches(i, IF sends[i].at = "sent" THEN "told sent" ELSE "told failed")
  /\ UNCHANGED <<hostVars, edits, outbox, stored, captured>>

\* shutdown: bounded; what it cannot deliver is lost.
shutdown ==
  /\ client /\ stops < MaxHosts
  /\ client' = FALSE /\ stops' = stops + 1
  /\ outbox' = {}
  /\ \E held \in SUBSET outbox : stored' \in Arrived(held)
  /\ UNCHANGED <<settings, enabled, seen, formVars, sends, captured>>

\* start: the next host reads the consent.
start ==
  /\ ~client
  /\ client' = TRUE /\ seen' = settings /\ enabled' = settings.telemetry
  /\ UNCHANGED <<settings, stops, formVars, sends, outbox, stored, captured>>

Next ==
  \/ Track \/ setMessage \/ Reopen \/ submit \/ shutdown \/ start
  \/ \E next \in Settings : Update(next)
  \/ \E i \in 1 .. Len(sends) : sendFeedback(i) \/ Flushed(i) \/ FlushFails(i) \/ Answer(i)
  \/ \E f \in outbox : Background(f)

Spec == Init /\ [][Next]_vars

-----------------------------------------------------------------------------
(***************************************************************************)
(* With telemetry off nothing is captured but the event that says so and   *)
(* feedback the user sends, over toggles, restarts and flushes under way   *)
(* (analytics/index.ts:81-82, 226-229).                                    *)
(***************************************************************************)
ConsentHeld ==
  \A c \in captured : c.consent \/ c.event \in {"telemetry_disabled", "feedback_submitted"}

(***************************************************************************)
(* "A retried submission can't be stored twice" (stores/feedback.ts:9):    *)
(* however often a text is sent, by however many forms, it is stored once. *)
(***************************************************************************)
StoredOnce == \A s, t \in stored : s.text = t.text => s = t

(***************************************************************************)
(* A submission reported as sent is at PostHog, in its own words or in     *)
(* those of another submission of the draft (a draft edited between two    *)
(* tries keeps its id, and the first to arrive is kept).                   *)
(***************************************************************************)
SentIsStored ==
  \A i \in 1 .. Len(sends) :
    sends[i].at \in {"sent", "told sent"} =>
      \E s \in stored :
        /\ s.id = sends[i].id
        /\ \E j \in 1 .. Len(sends) : sends[j].id = s.id /\ sends[j].text = s.text

\* The three together.
TelemetrySound == TypeOK /\ ConsentHeld /\ StoredOnce /\ SentIsStored
=============================================================================
