---------------------------- MODULE AgentRoster ----------------------------
(***************************************************************************)
(* Creating, selecting and deleting agents: the New Agent form and the     *)
(* sidebar of the renderer, the agents table and the folders of the host,  *)
(* and the socket between them (NewAgentDialog.tsx, AgentSidebar.tsx,      *)
(* useCreateAgent.ts, stores/ui.ts, agents/registry.ts, routers/agents.ts).*)
(*                                                                         *)
(* An agent is its place in the table.  A slug is a sequence: the slugified*)
(* name, or that and a number.  A text is the specialty section of a       *)
(* template, named after it, or something the user wrote.                  *)
(*                                                                         *)
(* Definitions marked "Slip" are mistaken variants of the definition that  *)
(* follows them; no action uses them.                                      *)
(***************************************************************************)
EXTENDS Naturals, Sequences, FiniteSetsExt

CONSTANTS
  Names,       \* slugified agent names
  Templates,   \* those a form may be switched to
  Default,     \* the template a form opens with
  MaxAgents,   \* bound: creations the host handles
  MaxForms,    \* bound: forms opened
  MaxQueued    \* bound: messages under way in each direction

\* A name is a sequence, so that its numbered forms differ.
RosterAssumption ==
  /\ \A name \in Names : name \in Seq(STRING)
  /\ {MaxAgents, MaxForms, MaxQueued} \subseteq Nat

NoAgent == 0
NoTemplate == "none"
Empty == "empty"
Mine == "mine"

VARIABLES
  rows,        \* the agents table
  folders,     \* slug -> what the folder holds
  sessions,    \* agents with a PTY that was not told to exit
  toHost, toGui,           \* messages under way
  agents,      \* useAgents: the list as the renderer has it
  selected,    \* selectedAgentId
  mounted,     \* the agent whose pane is mounted
  form,        \* NewAgentForm
  loaded,      \* templates whose specialty was fetched
  pendingDelete,
  doomed,      \* history: agents whose deletion was asked for
  strayed      \* history: the selection fell on an agent that was doomed

hostVars == <<rows, folders, sessions>>
formVars == <<form, loaded>>
vars == <<hostVars, toHost, toGui, agents, selected, mounted, formVars,
          pendingDelete, doomed, strayed>>

Known == DOMAIN rows
Live == {i \in Known : rows[i].live}

\* list: the agents that are live, in the order of their rows.
list == [p \in 1 .. Cardinality(Live) |->
           CHOOSE i \in Live : Cardinality({j \in Live : j <= i}) = p]

NoForm == [open |-> FALSE, no |-> 0, template |-> NoTemplate, seeded |-> NoTemplate,
           text |-> Empty, busy |-> FALSE]

Init ==
  /\ rows = <<>> /\ folders = <<>> /\ sessions = {}
  /\ toHost = <<>> /\ toGui = <<>>
  /\ agents = <<>> /\ selected = NoAgent /\ mounted = NoAgent
  /\ form = NoForm /\ loaded = {}
  /\ pendingDelete = NoAgent /\ doomed = {} /\ strayed = FALSE

-----------------------------------------------------------------------------
(* The host                                                                  *)

\* Slip: a slug is free once its agent is archived.
TakenByLive == {rows[i].slug : i \in Live}

\* The slugs of all rows, archived ones included: their folders stay.
Taken == {rows[i].slug : i \in Known}

\* create: the name's slug, or its first free number from 2 on.
SlugFor(name) ==
  IF name \notin Taken THEN name
  ELSE Append(name, Min({n \in 2 .. MaxAgents + 1 : Append(name, n) \notin Taken}))

\* scaffoldFolder: text that is blank is the template's own.
Specialty(text, template) == IF text = Empty THEN template ELSE text

Scaffolded(slug, text, template) ==
  [s \in DOMAIN folders \cup {slug} |->
     IF s = slug THEN [text |-> text, template |-> template] ELSE folders[s]]

\* registry.create.  The broadcast and the reply leave together, in either order.
Created(m, slug) ==
  LET push  == [kind |-> "list", list |-> list']
      reply == [kind |-> "created", id |-> Len(rows')]
  IN  /\ folders' = Scaffolded(slug, Specialty(m.text, m.template), m.template)
      /\ rows' = Append(rows, [slug |-> slug, live |-> TRUE,
                               meant |-> Specialty(m.text, m.template)])
      /\ \/ toGui' = toGui \o <<push, reply>>
         \/ toGui' = toGui \o <<reply, push>>

\* scaffoldFolder or the insert threw: what was written stays, without a row.
CreationFails(m, slug) ==
  /\ \/ UNCHANGED folders
     \/ \E text \in {m.template, Specialty(m.text, m.template)} :
          folders' = Scaffolded(slug, text, m.template)
  /\ toGui' = Append(toGui, [kind |-> "failed", no |-> m.no])
  /\ UNCHANGED rows

Create(m) ==
  /\ m.kind = "create" /\ Len(rows) < MaxAgents
  /\ LET slug == SlugFor(m.name) IN Created(m, slug) \/ CreationFails(m, slug)
  /\ UNCHANGED sessions

\* agents.archive: kill the PTY, drop the agent from the list.
Archive(m) ==
  /\ m.kind = "archive"
  /\ sessions' = sessions \ {m.id}
  /\ rows' = [rows EXCEPT ![m.id].live = FALSE]
  /\ toGui' = Append(toGui, [kind |-> "list", list |-> list'])
  /\ UNCHANGED folders

\* terminal.openOrAttach asks for a row, not for a live one.
OpenOrAttach(m) ==
  /\ m.kind = "open" /\ m.id \in Known
  /\ sessions' = sessions \cup {m.id}
  /\ UNCHANGED <<rows, folders, toGui>>

Serve ==
  /\ toHost # <<>> /\ Len(toGui) < MaxQueued
  /\ toHost' = Tail(toHost)
  /\ LET m == Head(toHost) IN Create(m) \/ Archive(m) \/ OpenOrAttach(m)
  /\ UNCHANGED <<agents, selected, mounted, formVars, pendingDelete, doomed, strayed>>

SessionEnds(i) ==
  /\ i \in sessions
  /\ sessions' = sessions \ {i}
  /\ UNCHANGED <<rows, folders, toHost, toGui, agents, selected, mounted, formVars,
                 pendingDelete, doomed, strayed>>

-----------------------------------------------------------------------------
(* The renderer                                                              *)

\* Auto-select the first agent of the list when nothing is selected.
AutoSelect(sel, l) == IF sel = NoAgent /\ l # <<>> THEN l[1] ELSE sel

\* The pane of the selected agent, if the list has it.
Pane(sel, l) == IF \E i \in DOMAIN l : l[i] = sel THEN sel ELSE NoAgent

\* Render with selection sel and list l, after the effects: `out' goes to the host,
\* and a pane that mounts opens its terminal.
Render(sel, l, was, out) ==
  /\ selected' = AutoSelect(sel, l)
  /\ agents' = l
  /\ mounted' = Pane(selected', l)
  /\ toHost' = toHost \o out \o
       (IF mounted' \notin {NoAgent, was} THEN <<[kind |-> "open", id |-> mounted']>>
        ELSE <<>>)
  /\ Len(toHost') <= MaxQueued
  /\ strayed' = IF selected' # selected \/ (was = NoAgent /\ mounted # NoAgent)
                THEN selected' \in doomed' ELSE strayed

\* The form's effect: the template's text, once per template picked, over whatever
\* is there.
Seeded(f, ts) ==
  IF f.open /\ f.template \in ts /\ f.seeded # f.template
  THEN [f EXCEPT !.seeded = f.template, !.text = f.template] ELSE f

\* openNewAgent, the button or the shortcut; the form is a fresh one.
OpenForm ==
  /\ ~form.open /\ form.no < MaxForms
  /\ form' = Seeded([NoForm EXCEPT !.open = TRUE, !.no = form.no + 1, !.template = Default],
                    loaded)
  /\ UNCHANGED <<hostVars, toHost, toGui, agents, selected, mounted, loaded,
                 pendingDelete, doomed, strayed>>

Closed == [NoForm EXCEPT !.no = form.no]

\* Escape; a creation under way goes on.
CloseForm ==
  /\ form.open
  /\ form' = Closed
  /\ UNCHANGED <<hostVars, toHost, toGui, agents, selected, mounted, loaded,
                 pendingDelete, doomed, strayed>>

PickTemplate(t) ==
  /\ form.open /\ t # form.template
  /\ form' = Seeded([form EXCEPT !.template = t], loaded)
  /\ UNCHANGED <<hostVars, toHost, toGui, agents, selected, mounted, loaded,
                 pendingDelete, doomed, strayed>>

\* templateClaudeMd answers.
TemplateLoads ==
  /\ form.open /\ form.template \notin loaded
  /\ loaded' = loaded \cup {form.template}
  /\ form' = Seeded(form, loaded')
  /\ UNCHANGED <<hostVars, toHost, toGui, agents, selected, mounted,
                 pendingDelete, doomed, strayed>>

Type(text) ==
  /\ form.open /\ text # form.text
  /\ form' = [form EXCEPT !.text = text]
  /\ UNCHANGED <<hostVars, toHost, toGui, agents, selected, mounted, loaded,
                 pendingDelete, doomed, strayed>>

\* submit, create
Submit(name) ==
  /\ form.open /\ ~form.busy
  /\ Len(toHost) < MaxQueued
  /\ form' = [form EXCEPT !.busy = TRUE]
  /\ toHost' = Append(toHost, [kind |-> "create", name |-> name, no |-> form.no,
                               text |-> form.text, template |-> form.template])
  /\ UNCHANGED <<hostVars, toGui, agents, selected, mounted, loaded,
                 pendingDelete, doomed, strayed>>

\* agents.onChanged
ListArrives(m) ==
  /\ m.kind = "list"
  /\ Render(selected, m.list, mounted, <<>>)
  /\ UNCHANGED form

\* useCreateAgent.onSuccess: select the agent and close the dialog, which may be
\* a later one by now.
CreatedArrives(m) ==
  /\ m.kind = "created"
  /\ form' = Closed
  /\ Render(m.id, agents, mounted, <<>>)

FailedArrives(m) ==
  /\ m.kind = "failed"
  /\ form' = IF m.no = form.no THEN [form EXCEPT !.busy = FALSE] ELSE form
  /\ UNCHANGED <<toHost, agents, selected, mounted, strayed>>

Hear ==
  /\ toGui # <<>>
  /\ toGui' = Tail(toGui)
  /\ UNCHANGED <<hostVars, loaded, pendingDelete, doomed>>
  /\ LET m == Head(toGui) IN ListArrives(m) \/ CreatedArrives(m) \/ FailedArrives(m)

\* A row of the sidebar, or, through the launcher, one of the tray's, whose list
\* may be older.
Select(i) ==
  /\ i # selected
  /\ UNCHANGED <<hostVars, toGui, formVars, pendingDelete, doomed>>
  /\ Render(i, agents, mounted, <<>>)

SelectRow == \E k \in DOMAIN agents : Select(agents[k])
SelectInTray == \E i \in Known : Select(i)

\* The cross of a row opens the confirmation.
AskDelete ==
  /\ pendingDelete = NoAgent
  /\ \E k \in DOMAIN agents : pendingDelete' = agents[k]
  /\ UNCHANGED <<hostVars, toHost, toGui, agents, selected, mounted, formVars, doomed,
                 strayed>>

CancelDelete ==
  /\ pendingDelete # NoAgent
  /\ pendingDelete' = NoAgent
  /\ UNCHANGED <<hostVars, toHost, toGui, agents, selected, mounted, formVars, doomed,
                 strayed>>

\* Slip: the selection is left to the next list.
SelectionKept(i) == selected

\* The selection after an agent was given up.
SelectionWithout(i) == IF selected = i THEN NoAgent ELSE selected

\* confirmDelete.  If the focused agent goes, its pane unmounts before the effect
\* selects the first of the list -- the deleted agent itself, if it was first.
ConfirmDelete ==
  /\ pendingDelete # NoAgent
  /\ doomed' = doomed \cup {pendingDelete}
  /\ LET sel == SelectionWithout(pendingDelete) IN
     Render(sel, agents, IF sel = NoAgent THEN NoAgent ELSE mounted,
            <<[kind |-> "archive", id |-> pendingDelete]>>)
  /\ pendingDelete' = NoAgent
  /\ UNCHANGED <<hostVars, toGui, formVars>>

Next ==
  \/ Serve \/ \E i \in Known : SessionEnds(i)
  \/ OpenForm \/ CloseForm \/ TemplateLoads
  \/ \E t \in Templates : PickTemplate(t)
  \/ \E text \in {Empty, Mine} : Type(text)
  \/ \E name \in Names : Submit(name)
  \/ Hear
  \/ SelectRow \/ SelectInTray
  \/ AskDelete \/ CancelDelete \/ ConfirmDelete

Spec == Init /\ [][Next]_vars

-----------------------------------------------------------------------------
(* Properties                                                                *)

\* No two agents, deleted ones included, share a folder, and an agent's folder
\* still holds the instructions its creation was asked for, whatever was created,
\* failed half-way or was deleted since: an agent's journal and strategy are its
\* own.
FoldersApart ==
  \A i \in Known :
    /\ \A j \in Known \ {i} : rows[i].slug # rows[j].slug
    /\ rows[i].slug \in DOMAIN folders /\ folders[rows[i].slug].text = rows[i].meant

\* Once nothing is under way, the renderer shows the agents there are and the
\* selection is one of them -- none only if there is none -- unless it fell on an
\* agent after its deletion had been asked for.
SelectionLives ==
  toHost = <<>> /\ toGui = <<>> =>
    /\ agents = list
    /\ strayed \/ selected \in Live \/ (selected = NoAgent /\ Live = {})

\* "Tear down the live PTY before dropping the agent from the list, so the daemon
\* isn't left running an orphaned `claude` for a deleted agent."
DeletedHasNoPty == sessions \subseteq Live
=============================================================================
