------------------------------ MODULE AcpAdapter ------------------------------
(***************************************************************************)
(* The ACP adapter, crates/oxideterm-acp-adapter: lib.rs (requests, the    *)
(* sessions and the active runs), codex.rs and claude.rs (a prompt's run). *)
(*                                                                         *)
(* Requests of the host are dispatched one at a time.  A prompt is a task  *)
(* of its own: it copies the session, launches a provider process,         *)
(* registers itself as the session's active run and follows the process.   *)
(* A cancellation is a message to the registered run.  A new Codex session *)
(* asks a process of its own for the models, and holds up the dispatch     *)
(* until it has answered or timed out.                                     *)
(*                                                                         *)
(* What a provider says is free: text and tool notices, which change       *)
(* nothing here, are left out; questions, ends and failures are modelled.  *)
(* Threads (codex_thread_id, claude_session_id) are named by the run that  *)
(* opened them.                                                            *)
(***************************************************************************)
EXTENDS Integers, FiniteSets

CONSTANTS MaxSessions,  \* bound: sessions the host opens
          MaxPrompts,   \* bound: prompts
          MaxOthers,    \* bound: cancellations, closures and model choices
          Models,       \* model ids
          NoModel

ASSUME AdapterAssumption ==
    MaxSessions \in Nat /\ MaxPrompts \in Nat /\ MaxOthers \in Nat /\ NoModel \notin Models

VARIABLES
    provider,   \* config.provider
    inbox,      \* the request on stdin that is next to be dispatched
    discovery,  \* the model discovery a NewSession request waits for
    sessions,   \* sessions
    active,     \* active_runs: the registered run, 0 for none
    phase,      \* where each prompt's task is
    copy,       \* its copy of the session
    cancel,     \* a message waits in its cancel channel
    asking,     \* the phase it returns to when the host has answered its question
    outcome,    \* what its provider brought it
    opened,     \* how many sessions were asked for
    others,     \* how many bounded requests there were
    chosen      \* ghost: the last model choice that was accepted, per session

runVars == <<phase, copy, cancel, asking, outcome>>
hostVars == <<inbox, opened, others>>
vars == <<provider, hostVars, discovery, sessions, active, runVars, chosen>>

Sessions == 1 .. MaxSessions
Runs     == 1 .. MaxPrompts
MaybeModel == Models \cup {NoModel}

SessionState == [models : SUBSET Models, selected : MaybeModel, observed : MaybeModel,
                 thread : 0 .. MaxPrompts]
Closed   == [models |-> {}, selected |-> NoModel, observed |-> NoModel, thread |-> -1]
Open(s)  == sessions[s] # Closed

Outcome  == [stop : {"none", "end", "cancelled", "error"}, thread : 0 .. MaxPrompts,
             model : MaybeModel, resumed : BOOLEAN]
Nothing  == [stop |-> "none", thread |-> 0, model |-> NoModel, resumed |-> FALSE]

\* The request a Codex run waits to see answered; only then is it cancellable.
Startup  == {"initialize", "thread/resume", "thread/start", "turn/start"}
Asks     == Startup \cup {"streaming", "interrupting"}
Phases   == {"idle", "dispatched", "launching", "asking", "exiting", "finished",
             "cleaned", "answered"} \cup Asks

Request ==
    [kind : {"new", "none"}] \cup [kind : {"cancel", "close"}, session : Sessions]
    \cup [kind : {"prompt"}, session : Sessions, run : Runs]
    \cup [kind : {"set"}, session : Sessions, model : Models]
NoRequest == [kind |-> "none"]

Discovery ==
    [stage : {"none", "initialize", "config/read", "model/list"},
     configured : MaybeModel, listed : SUBSET Models]
NoDiscovery == [stage |-> "none", configured |-> NoModel, listed |-> {}]

TypeOK ==
    /\ provider \in {"claude", "codex"}
    /\ inbox \in Request /\ discovery \in Discovery
    /\ sessions \in [Sessions -> SessionState \cup {Closed}]
    /\ active \in [Sessions -> 0 .. MaxPrompts]
    /\ phase \in [Runs -> Phases] /\ cancel \in [Runs -> BOOLEAN]
    /\ copy \in [Runs -> [session : 0 .. MaxSessions, state : SessionState \cup {Closed}]]
    /\ asking \in [Runs -> Asks] /\ outcome \in [Runs -> Outcome]
    /\ opened \in 0 .. MaxSessions /\ others \in 0 .. MaxOthers
    /\ chosen \in [Sessions -> MaybeModel]

Init ==
    /\ provider \in {"claude", "codex"}
    /\ inbox = NoRequest /\ discovery = NoDiscovery
    /\ sessions = [s \in Sessions |-> Closed]
    /\ active = [s \in Sessions |-> 0]
    /\ phase = [r \in Runs |-> "idle"] /\ cancel = [r \in Runs |-> FALSE]
    /\ copy = [r \in Runs |-> [session |-> 0, state |-> Closed]]
    /\ asking = [r \in Runs |-> "streaming"] /\ outcome = [r \in Runs |-> Nothing]
    /\ opened = 0 /\ others = 0
    /\ chosen = [s \in Sessions |-> NoModel]

(***************************************************************************)
(* The host writes one request at a time, and only names sessions it was   *)
(* given; it may name one it has closed.                                   *)
(***************************************************************************)
Known == {s \in Sessions : s < opened \/ (s = opened /\ discovery = NoDiscovery)}

HostWrites ==
    /\ inbox = NoRequest
    /\ \/ /\ opened < MaxSessions
          /\ inbox' = [kind |-> "new"]
          /\ UNCHANGED others
       \/ \E s \in Known, r \in Runs :
            /\ phase[r] = "idle" /\ \A q \in 1 .. (r - 1) : phase[q] # "idle"
            /\ inbox' = [kind |-> "prompt", session |-> s, run |-> r]
            /\ UNCHANGED others
       \/ /\ others < MaxOthers
          /\ others' = others + 1
          /\ \E s \in Known :
               \/ \E k \in {"cancel", "close"} : inbox' = [kind |-> k, session |-> s]
               \/ \E m \in Models : inbox' = [kind |-> "set", session |-> s, model |-> m]
    /\ UNCHANGED <<provider, opened, discovery, sessions, active, runVars, chosen>>

(***************************************************************************)
(* Dispatch.                                                               *)
(***************************************************************************)
Takes(kind) == discovery = NoDiscovery /\ inbox.kind = kind /\ inbox' = NoRequest

OpenSession(s, models, selected) ==
    sessions' = [sessions EXCEPT ![s] =
        [models |-> models, selected |-> selected, observed |-> NoModel, thread |-> 0]]

\* The discovery's process may not even start; the catalog is then empty.
NewSession ==
    /\ Takes("new")
    /\ opened' = opened + 1
    /\ \/ /\ OpenSession(opened', {}, NoModel)
          /\ UNCHANGED discovery
       \/ /\ provider = "codex"
          /\ discovery' = [NoDiscovery EXCEPT !.stage = "initialize"]
          /\ UNCHANGED sessions
    /\ UNCHANGED <<provider, others, active, runVars, chosen>>

\* codex_model_catalog: a configured model is offered though the list omits it; a
\* default that is hidden is no choice.
Catalog(listed, configured, default) ==
    LET models == listed \cup (IF configured = NoModel THEN {} ELSE {configured})
        first  == IF configured = NoModel THEN default ELSE configured
    IN  OpenSession(opened, models, IF first \in models THEN first ELSE NoModel)

Discovered(listed, configured) ==
    /\ \E default \in MaybeModel : Catalog(listed, configured, default)
    /\ discovery' = NoDiscovery

\* An answer in time.  A page with a cursor asks for the next one.  Assumed of the
\* process: such a page brings a model that is new, so that it ends its list.
DiscoveryAnswers ==
    /\ \/ /\ discovery.stage = "initialize"
          /\ discovery' = [discovery EXCEPT !.stage = "config/read"]
          /\ UNCHANGED sessions
       \/ /\ discovery.stage = "config/read"
          /\ \E m \in MaybeModel :
               discovery' = [discovery EXCEPT !.stage = "model/list", !.configured = m]
          /\ UNCHANGED sessions
       \/ /\ discovery.stage = "model/list"
          /\ \E page \in SUBSET (Models \ discovery.listed) :
               \/ Discovered(discovery.listed \cup page, discovery.configured)
               \/ /\ page # {}
                  /\ discovery' = [discovery EXCEPT !.listed = @ \cup page]
                  /\ UNCHANGED sessions
    /\ UNCHANGED <<provider, hostVars, active, runVars, chosen>>

\* The process ends or its stdin fails: discovery as a whole fails.
DiscoveryFails ==
    /\ discovery # NoDiscovery
    /\ OpenSession(opened, {}, NoModel) /\ discovery' = NoDiscovery
    /\ UNCHANGED <<provider, hostVars, active, runVars, chosen>>

\* Mutant: the configuration is waited for without a timeout.
DiscoveryTimesOutInPart ==
    /\ \/ /\ discovery.stage = "initialize"
          /\ OpenSession(opened, {}, NoModel) /\ discovery' = NoDiscovery
       \/ /\ discovery.stage = "model/list"
          /\ Discovered(discovery.listed, discovery.configured)
    /\ UNCHANGED <<provider, hostVars, active, runVars, chosen>>

\* An error, or none in time: without configuration the list is still asked for, and
\* what the list brought so far is kept.
DiscoveryTimesOut ==
    /\ \/ /\ discovery.stage = "initialize"
          /\ OpenSession(opened, {}, NoModel) /\ discovery' = NoDiscovery
       \/ /\ discovery.stage = "config/read"
          /\ discovery' = [discovery EXCEPT !.stage = "model/list"]
          /\ UNCHANGED sessions
       \/ /\ discovery.stage = "model/list"
          /\ Discovered(discovery.listed, discovery.configured)
    /\ UNCHANGED <<provider, hostVars, active, runVars, chosen>>

\* Claude Code cannot enumerate models: any choice is accepted and offered from then.
SetModel ==
    /\ Takes("set")
    /\ LET s == inbox.session  m == inbox.model IN
         IF Open(s) /\ (m \in sessions[s].models \/ provider = "claude")
         THEN /\ sessions' = [sessions EXCEPT ![s].models = @ \cup {m}, ![s].selected = m]
              /\ chosen' = [chosen EXCEPT ![s] = m]
         ELSE UNCHANGED <<sessions, chosen>>
    /\ UNCHANGED <<provider, opened, others, discovery, active, runVars>>

Prompt ==
    /\ Takes("prompt")
    /\ phase' = [phase EXCEPT ![inbox.run] = "dispatched"]
    /\ copy' = [copy EXCEPT ![inbox.run].session = inbox.session]
    /\ UNCHANGED <<provider, opened, others, discovery, sessions, active, cancel, asking,
                   outcome, chosen>>

CancelActive(s) ==
    /\ cancel' = [r \in Runs |-> cancel[r] \/ r = active[s]]
    /\ active' = [active EXCEPT ![s] = 0]

Cancel ==
    /\ Takes("cancel")
    /\ CancelActive(inbox.session)
    /\ UNCHANGED <<provider, opened, others, discovery, sessions, phase, copy, asking,
                   outcome, chosen>>

\* session/close and session/delete.
Close ==
    /\ Takes("close")
    /\ CancelActive(inbox.session)
    /\ sessions' = [sessions EXCEPT ![inbox.session] = Closed]
    /\ chosen' = [chosen EXCEPT ![inbox.session] = NoModel]
    /\ UNCHANGED <<provider, opened, others, discovery, phase, copy, asking, outcome>>

Dispatch ==
    \/ NewSession \/ SetModel \/ Prompt \/ Cancel \/ Close
    \/ DiscoveryAnswers \/ DiscoveryFails \/ DiscoveryTimesOut

(***************************************************************************)
(* A prompt's task.                                                        *)
(***************************************************************************)
Goes(r, to) == phase' = [phase EXCEPT ![r] = to]
Ends(r, how) ==
    /\ Goes(r, "finished")
    /\ outcome' = [outcome EXCEPT ![r].stop = how]

\* The prompt is answered and its task ends with all it holds.
Answer(r) ==
    /\ Goes(r, "answered")
    /\ copy' = [copy EXCEPT ![r] = [session |-> 0, state |-> Closed]]
    /\ outcome' = [outcome EXCEPT ![r] = Nothing]

\* An unknown session or a prompt without text is answered with an error.
LookUp(r) ==
    /\ phase[r] = "dispatched"
    /\ \/ /\ Open(copy[r].session)
          /\ copy' = [copy EXCEPT ![r].state = sessions[copy[r].session]]
          /\ Goes(r, "launching")
          /\ UNCHANGED outcome
       \/ Answer(r)
    /\ UNCHANGED <<provider, hostVars, discovery, sessions, active, cancel, asking, chosen>>

\* The declared servers cannot be translated, or the process does not start.
ClaudeLaunchFails(r) == provider = "claude" /\ Answer(r)
CodexLaunchFails(r)  == provider = "codex" /\ Answer(r)

LaunchFails(r) ==
    /\ phase[r] = "launching"
    /\ ClaudeLaunchFails(r) \/ CodexLaunchFails(r)
    /\ UNCHANGED <<provider, hostVars, discovery, sessions, active, cancel, asking, chosen>>

\* The run is registered; the one it replaces is told to stop.
Registered(r) ==
    LET s == copy[r].session IN
        /\ cancel' = [q \in Runs |-> cancel[q] \/ q = active[s]]
        /\ active' = [active EXCEPT ![s] = r]

\* Claude is written its prompt; a Codex process is to be initialized first.
StartClaude(r) == provider = "claude" /\ Registered(r) /\ Goes(r, "streaming")
StartCodex(r)  == provider = "codex" /\ Registered(r) /\ Goes(r, "initialize")

Register(r) ==
    /\ phase[r] = "launching"
    /\ StartClaude(r) \/ StartCodex(r)
    /\ UNCHANGED <<provider, hostVars, discovery, sessions, copy, asking, outcome, chosen>>

\* A thread that cannot be resumed is replaced by a new one.
ThreadReply(r) ==
    \/ /\ phase[r] = "thread/resume"
       /\ \/ /\ Goes(r, "turn/start")
             /\ outcome' = [outcome EXCEPT ![r].thread = copy[r].state.thread,
                                           ![r].resumed = TRUE]
          \/ /\ Goes(r, "thread/start")
             /\ UNCHANGED outcome
    \/ /\ phase[r] = "thread/start"
       /\ Goes(r, "turn/start")
       /\ outcome' = [outcome EXCEPT ![r].thread = r]

\* Codex: the request of this stage is answered.
StartupReply(r) ==
    /\ \/ /\ phase[r] = "initialize"
          /\ Goes(r, IF copy[r].state.thread = 0 THEN "thread/start" ELSE "thread/resume")
          /\ UNCHANGED outcome
       \/ ThreadReply(r)
       \/ /\ phase[r] = "turn/start"
          /\ Goes(r, "streaming")
          /\ UNCHANGED outcome
    /\ UNCHANGED <<provider, hostVars, discovery, sessions, active, copy, cancel, asking,
                   chosen>>

\* The process ends, says what is no JSON, or refuses what must not be refused.
ProviderFails(r) ==
    /\ \/ phase[r] \in Startup \cup {"streaming"}
       \/ phase[r] = "interrupting"
    /\ Ends(r, "error")
    /\ UNCHANGED <<provider, hostVars, discovery, sessions, active, copy, cancel, asking,
                   chosen>>

\* Codex asks for an approval: the task reads nothing more, not even its cancel
\* channel, until the host has answered.
Approval(r) ==
    /\ provider = "codex" /\ phase[r] \in Asks
    /\ asking' = [asking EXCEPT ![r] = phase[r]]
    /\ Goes(r, "asking")
    /\ UNCHANGED <<provider, hostVars, discovery, sessions, active, copy, cancel, outcome,
                   chosen>>

HostAnswers(r) ==
    /\ phase[r] = "asking"
    /\ Goes(r, asking[r])
    /\ asking' = [asking EXCEPT ![r] = "streaming"]
    /\ UNCHANGED <<provider, hostVars, discovery, sessions, active, copy, cancel, outcome,
                   chosen>>

\* Claude: a line names its session, or the model it runs.
ClaudeSays(r) ==
    /\ provider = "claude" /\ phase[r] = "streaming"
    /\ \/ \E t \in {r, copy[r].state.thread} \ {0} :
            outcome' = [outcome EXCEPT ![r].thread = t]
       \/ \E m \in Models : outcome' = [outcome EXCEPT ![r].model = m]
    /\ UNCHANGED <<provider, hostVars, discovery, sessions, active, phase, copy, cancel,
                   asking, chosen>>

\* turn/completed, or the end of Claude's output.
CodexTurnEnds(r)    == provider = "codex" /\ Ends(r, "end")
ClaudeOutputEnds(r) == provider = "claude" /\ Goes(r, "exiting") /\ UNCHANGED outcome

TurnEnds(r) ==
    /\ phase[r] = "streaming"
    /\ CodexTurnEnds(r) \/ ClaudeOutputEnds(r)
    /\ UNCHANGED <<provider, hostVars, discovery, sessions, active, copy, cancel, asking,
                   chosen>>

ChildExits(r) ==
    /\ phase[r] = "exiting"
    /\ \E how \in {"end", "error"} : Ends(r, how)
    /\ UNCHANGED <<provider, hostVars, discovery, sessions, active, copy, cancel, asking,
                   chosen>>

\* A Codex turn with a known id is interrupted; anything else is killed.
SeeCancel(r) ==
    /\ phase[r] = "streaming" /\ cancel[r]
    /\ cancel' = [cancel EXCEPT ![r] = FALSE]
    /\ \/ provider = "codex" /\ Goes(r, "interrupting") /\ UNCHANGED outcome
       \/ Ends(r, "cancelled")
    /\ UNCHANGED <<provider, hostVars, discovery, sessions, active, copy, asking, chosen>>

\* The turn completes, or the process ends.
InterruptEnds(r) ==
    /\ phase[r] = "interrupting"
    /\ Ends(r, "cancelled")
    /\ UNCHANGED <<provider, hostVars, discovery, sessions, active, copy, cancel, asking,
                   chosen>>

\* Mutant: the timeout covers the reads but not the questions answered in between.
InterruptExpiresReading(r) ==
    /\ phase[r] = "interrupting"
    /\ Ends(r, "cancelled")
    /\ UNCHANGED <<provider, hostVars, discovery, sessions, active, copy, cancel, asking,
                   chosen>>

\* Two seconds are over: the process is killed, whatever the host is being asked.
InterruptExpires(r) ==
    /\ \/ phase[r] = "interrupting"
       \/ phase[r] = "asking" /\ asking[r] = "interrupting"
    /\ Ends(r, "cancelled")
    /\ UNCHANGED <<provider, hostVars, discovery, sessions, active, copy, cancel, asking,
                   chosen>>

\* Mutant: whatever run is registered is removed.
CleanupAny(r) ==
    /\ phase[r] = "finished"
    /\ active' = [active EXCEPT ![copy[r].session] = 0]
    /\ Goes(r, "cleaned")
    /\ UNCHANGED <<provider, hostVars, discovery, sessions, copy, cancel, asking, outcome,
                   chosen>>

Cleanup(r) ==
    /\ phase[r] = "finished"
    /\ LET s == copy[r].session IN
         active' = [active EXCEPT ![s] = IF @ = r THEN 0 ELSE @]
    /\ Goes(r, "cleaned")
    /\ UNCHANGED <<provider, hostVars, discovery, sessions, copy, cancel, asking, outcome,
                   chosen>>

\* What of the outcome the session keeps: a thread of Codex that was new is only
\* kept when its turn ended.
KeptThread(r) ==
    IF provider = "claude" \/ outcome[r].resumed \/ outcome[r].stop = "end"
    THEN outcome[r].thread ELSE 0

Merge(state, r) ==
    [models   |-> state.models \cup ({outcome[r].model} \ {NoModel}),
     selected |-> state.selected,
     observed |-> IF outcome[r].model = NoModel THEN state.observed ELSE outcome[r].model,
     thread   |-> IF KeptThread(r) = 0 THEN state.thread ELSE KeptThread(r)]

\* Mutant: the prompt writes its copy of the session back.
StoreCopy(r) ==
    /\ phase[r] = "cleaned"
    /\ LET s == copy[r].session IN
         IF Open(s) /\ outcome[r].stop # "error"
         THEN sessions' = [sessions EXCEPT ![s] = Merge(copy[r].state, r)]
         ELSE UNCHANGED sessions
    /\ Answer(r)
    /\ UNCHANGED <<provider, hostVars, discovery, active, cancel, asking, chosen>>

\* A failed run leaves the session alone, as does one whose session was closed.
Store(r) ==
    /\ phase[r] = "cleaned"
    /\ LET s == copy[r].session IN
         IF Open(s) /\ outcome[r].stop # "error"
         THEN sessions' = [sessions EXCEPT ![s] = Merge(sessions[s], r)]
         ELSE UNCHANGED sessions
    /\ Answer(r)
    /\ UNCHANGED <<provider, hostVars, discovery, active, cancel, asking, chosen>>

Task(r)  == LookUp(r) \/ Register(r) \/ Cleanup(r) \/ Store(r)
Child(r) == LaunchFails(r) \/ StartupReply(r) \/ ProviderFails(r) \/ Approval(r)
            \/ ClaudeSays(r) \/ TurnEnds(r) \/ ChildExits(r) \/ InterruptEnds(r)
Run(r)   == Task(r) \/ Child(r) \/ SeeCancel(r) \/ InterruptExpires(r) \/ HostAnswers(r)

Next == HostWrites \/ Dispatch \/ \E r \in Runs : Run(r)

\* The adapter's tasks run and its timers expire; select! comes round to a waiting
\* cancellation however much the provider says.  Nothing is assumed of the
\* providers and of the host.
Fairness ==
    /\ WF_vars(NewSession) /\ WF_vars(SetModel) /\ WF_vars(Prompt) /\ WF_vars(Cancel)
    /\ WF_vars(Close) /\ WF_vars(DiscoveryTimesOut)
    /\ \A r \in Runs : /\ WF_vars(Task(r)) /\ SF_vars(SeeCancel(r))
                       /\ WF_vars(InterruptExpires(r))

Spec == Init /\ [][Next]_vars /\ Fairness

(***************************************************************************)
(* Properties.                                                             *)
(***************************************************************************)
Untold(r) == \/ phase[r] \in Startup \cup {"streaming", "exiting"}
             \/ phase[r] = "asking" /\ asking[r] # "interrupting"

\* Of the runs of a session at most one is left to itself: every other has been
\* told to stop, however prompts, cancellations, closures and ends of runs cross.
\* A run that is not the registered one could no longer be cancelled.
OneLiveRun ==
    \A r \in Runs : Untold(r) /\ ~cancel[r] => active[copy[r].session] = r

\* A model choice that was accepted stays the session's, and stays offered, though
\* prompts that began before it end after it (and the state is well typed).
ChoiceKept ==
    /\ TypeOK
    /\ \A s \in Sessions : Open(s) =>
        /\ chosen[s] # NoModel => sessions[s].selected = chosen[s]
        /\ {sessions[s].selected, sessions[s].observed} \ {NoModel} \subseteq sessions[s].models

\* A run that was told to stop ends, even if its provider never completes the turn,
\* given that the host answers what it asks, that its provider answers the requests
\* that start the turn, and that its process, once it closed its output, exits.
CancelEnds ==
    \A r \in Runs :
        WF_vars(HostAnswers(r)) /\ SF_vars(StartupReply(r)) /\ WF_vars(ChildExits(r))
            => (cancel[r] ~> phase[r] = "answered")

\* Whatever the host writes is dispatched, and the dispatcher is free again: no
\* prompt, and no discovery of a silent process, holds it up for ever.
HostHeard ==
    /\ inbox # NoRequest ~> inbox = NoRequest
    /\ discovery # NoDiscovery ~> discovery = NoDiscovery
=============================================================================
