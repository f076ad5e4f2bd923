--------------------------- MODULE AcpAdapterProofs ---------------------------
(***************************************************************************)
(* Theorems of AcpAdapter, for any number of sessions, prompts and other   *)
(* requests: every run but the registered one has been told to stop, and   *)
(* an accepted choice of a model is never lost.                            *)
(***************************************************************************)
EXTENDS AcpAdapter, TLAPS

-----------------------------------------------------------------------------
(* The inductive invariant *)

\* A task holds the session it was dispatched with, and its copy of it once it has
\* looked it up.
Placed ==
    \A r \in Runs :
       /\ phase[r] \notin {"idle", "answered"} => copy[r].session \in Sessions
       /\ phase[r] \notin {"idle", "dispatched", "answered"} => copy[r].state \in SessionState

\* A session that is not open, or not yet, has no choice; the one whose discovery is
\* under way is not open.
NotYet ==
    /\ \A s \in Sessions : opened < s => sessions[s] = Closed
    /\ discovery # NoDiscovery => opened \in Sessions /\ sessions[opened] = Closed
    /\ inbox.kind = "new" => opened < MaxSessions
    /\ \A s \in Sessions : ~Open(s) => chosen[s] = NoModel

\* The choices of the sessions that are open.
Choices ==
    \A s \in Sessions : Open(s) =>
        /\ chosen[s] # NoModel => sessions[s].selected = chosen[s]
        /\ {sessions[s].selected, sessions[s].observed} \ {NoModel} \subseteq sessions[s].models

IInv == TypeOK /\ Placed /\ NotYet /\ Choices /\ OneLiveRun

-----------------------------------------------------------------------------
(* The data *)

\* A session that is closed is told apart by its thread.
LEMMA ClosedState ==
    /\ Closed \notin SessionState
    /\ \A state \in SessionState :
          /\ state.models \subseteq Models /\ state.selected \in MaybeModel
          /\ state.observed \in MaybeModel /\ state.thread \in 0 .. MaxPrompts
  BY AdapterAssumption DEF Closed, SessionState

LEMMA RequestFields ==
    ASSUME NEW q \in Request
    PROVE  /\ q.kind \in {"new", "none", "cancel", "close", "prompt", "set"}
           /\ q.kind \in {"cancel", "close", "prompt", "set"} => q.session \in Sessions
           /\ q.kind = "prompt" => q.run \in Runs
           /\ q.kind = "set" => q.model \in Models
  BY DEF Request

LEMMA RequestTypes ==
    /\ NoRequest \in Request /\ [kind |-> "new"] \in Request
    /\ \A s \in Sessions :
          /\ \A k \in {"cancel", "close"} : [kind |-> k, session |-> s] \in Request
          /\ \A r \in Runs : [kind |-> "prompt", session |-> s, run |-> r] \in Request
          /\ \A m \in Models : [kind |-> "set", session |-> s, model |-> m] \in Request
  BY DEF Request, NoRequest

\* What a run brings a session is a state of a session, its choice untouched.
LEMMA Merged ==
    ASSUME NEW state \in SessionState, NEW r \in Runs, outcome[r] \in Outcome
    PROVE  /\ Merge(state, r) \in SessionState
           /\ Merge(state, r).selected = state.selected
           /\ state.models \subseteq Merge(state, r).models
           /\ Merge(state, r).observed \in {state.observed, outcome[r].model}
           /\ outcome[r].model # NoModel => outcome[r].model \in Merge(state, r).models
           /\ outcome[r].model = NoModel => Merge(state, r).observed = state.observed
  <1>1. KeptThread(r) \in 0 .. MaxPrompts
    BY AdapterAssumption DEF KeptThread, Outcome
  <1>2. outcome[r].model \in MaybeModel
    BY DEF Outcome
  <1>3. ({outcome[r].model} \ {NoModel}) \subseteq Models
    BY <1>2 DEF MaybeModel
  <1> QED BY <1>1, <1>2, <1>3 DEF Merge, SessionState

-----------------------------------------------------------------------------
(* Types *)

LEMMA CopyTypes ==
    ASSUME copy \in [Runs -> [session : 0 .. MaxSessions, state : SessionState \cup {Closed}]],
           NEW r \in Runs
    PROVE  /\ copy[r].session \in 0 .. MaxSessions /\ copy[r].state \in SessionState \cup {Closed}
           /\ \A s \in Sessions : [copy EXCEPT ![r].session = s]
                 \in [Runs -> [session : 0 .. MaxSessions, state : SessionState \cup {Closed}]]
           /\ \A state \in SessionState : [copy EXCEPT ![r].state = state]
                 \in [Runs -> [session : 0 .. MaxSessions, state : SessionState \cup {Closed}]]
           /\ [copy EXCEPT ![r] = [session |-> 0, state |-> Closed]]
                 \in [Runs -> [session : 0 .. MaxSessions, state : SessionState \cup {Closed}]]
  BY AdapterAssumption DEF Sessions

\* The host's requests.
LEMMA HostTypes ==
    ASSUME TypeOK, HostWrites
    PROVE  TypeOK'
  <1>1. inbox' \in Request
    BY RequestTypes DEF HostWrites, Known
  <1>2. others' \in 0 .. MaxOthers
    BY AdapterAssumption DEF HostWrites, TypeOK
  <1>3. UNCHANGED <<provider, opened, discovery, sessions, active, runVars, chosen>>
    BY DEF HostWrites
  <1> QED BY <1>1, <1>2, <1>3 DEF TypeOK, runVars

\* A session is opened with the models it has, of which its selection is one.
LEMMA Opens ==
    ASSUME sessions \in [Sessions -> SessionState \cup {Closed}], NEW s \in Sessions,
           NEW models \in SUBSET Models, NEW selected \in MaybeModel,
           selected # NoModel => selected \in models, OpenSession(s, models, selected)
    PROVE  /\ sessions' \in [Sessions -> SessionState \cup {Closed}]
           /\ \A t \in Sessions : t # s => sessions'[t] = sessions[t]
           /\ sessions'[s] # Closed /\ sessions'[s].selected = selected
           /\ {sessions'[s].selected, sessions'[s].observed} \ {NoModel}
                 \subseteq sessions'[s].models
  <1>1. [models |-> models, selected |-> selected, observed |-> NoModel, thread |-> 0]
           \in SessionState
    BY AdapterAssumption DEF SessionState, MaybeModel
  <1>2. sessions'[s] = [models |-> models, selected |-> selected, observed |-> NoModel,
                        thread |-> 0]
    BY DEF OpenSession
  <1>3. sessions' \in [Sessions -> SessionState \cup {Closed}]
    BY <1>1 DEF OpenSession
  <1> QED BY <1>1, <1>2, <1>3, ClosedState DEF OpenSession

\* A discovery goes on, or ends with the session it was for.
Discovering == DiscoveryAnswers \/ DiscoveryFails \/ DiscoveryTimesOut

LEMMA Discovers ==
    ASSUME TypeOK, Discovering
    PROVE  /\ UNCHANGED <<provider, hostVars, active, runVars, chosen>>
           /\ discovery # NoDiscovery /\ discovery' \in Discovery
           /\ \/ UNCHANGED sessions
              \/ \E models \in SUBSET Models, selected \in MaybeModel :
                    /\ selected # NoModel => selected \in models
                    /\ OpenSession(opened, models, selected) /\ discovery' = NoDiscovery
  <1>0. /\ discovery \in Discovery /\ NoDiscovery \in Discovery
        /\ NoDiscovery.stage = "none" /\ NoModel \notin Models
        /\ discovery.configured \in MaybeModel /\ discovery.listed \subseteq Models
    BY AdapterAssumption DEF TypeOK, Discovery, NoDiscovery, MaybeModel
  <1>1. ASSUME NEW listed \in SUBSET Models, NEW configured \in MaybeModel,
               Discovered(listed, configured)
        PROVE  /\ discovery' \in Discovery
               /\ \E models \in SUBSET Models, selected \in MaybeModel :
                    /\ selected # NoModel => selected \in models
                    /\ OpenSession(opened, models, selected) /\ discovery' = NoDiscovery
    <2>1. PICK default \in MaybeModel : Catalog(listed, configured, default)
      BY <1>1 DEF Discovered
    <2> DEFINE models == listed \cup (IF configured = NoModel THEN {} ELSE {configured})
               first == IF configured = NoModel THEN default ELSE configured
               selected == IF first \in models THEN first ELSE NoModel
    <2>2. models \in SUBSET Models /\ selected \in MaybeModel
          /\ (selected # NoModel => selected \in models)
      BY <1>0 DEF MaybeModel
    <2>3. OpenSession(opened, models, selected) /\ discovery' = NoDiscovery
      BY <1>1, <2>1 DEF Catalog, Discovered
    <2>4. discovery' \in Discovery
      BY <1>0, <1>1 DEF Discovered
    <2> HIDE DEF models, selected
    <2> QED BY <2>2, <2>3, <2>4
  <1>2. ASSUME OpenSession(opened, {}, NoModel), discovery' = NoDiscovery
        PROVE  \E m \in SUBSET Models, selected \in MaybeModel :
                    /\ selected # NoModel => selected \in m
                    /\ OpenSession(opened, m, selected) /\ discovery' = NoDiscovery
    BY <1>2 DEF MaybeModel
  <1>e. /\ \A stage \in {"initialize", "config/read", "model/list"} :
              [discovery EXCEPT !.stage = stage] \in Discovery
        /\ \A m \in MaybeModel :
              [discovery EXCEPT !.stage = "model/list", !.configured = m] \in Discovery
        /\ \A page \in SUBSET Models : [discovery EXCEPT !.listed = @ \cup page] \in Discovery
    BY <1>0 DEF Discovery
  <1>3. CASE DiscoveryAnswers
    <2>1. UNCHANGED <<provider, hostVars, active, runVars, chosen>> /\ discovery # NoDiscovery
      BY <1>0, <1>3 DEF DiscoveryAnswers
    <2>2. CASE \E page \in SUBSET (Models \ discovery.listed) :
                  Discovered(discovery.listed \cup page, discovery.configured)
      BY <1>0, <1>1, <2>1, <2>2
    <2>3. CASE discovery' \in Discovery /\ UNCHANGED sessions
      BY <2>1, <2>3
    <2>4. \/ \E page \in SUBSET (Models \ discovery.listed) :
                  Discovered(discovery.listed \cup page, discovery.configured)
          \/ discovery' \in Discovery /\ UNCHANGED sessions
      BY <1>3, <1>e DEF DiscoveryAnswers
    <2> QED BY <2>2, <2>3, <2>4
  <1>4. CASE DiscoveryFails
    BY <1>0, <1>2, <1>4 DEF DiscoveryFails
  <1>5. CASE DiscoveryTimesOut
    <2>1. UNCHANGED <<provider, hostVars, active, runVars, chosen>> /\ discovery # NoDiscovery
      BY <1>0, <1>5 DEF DiscoveryTimesOut
    <2>2. CASE OpenSession(opened, {}, NoModel) /\ discovery' = NoDiscovery
      BY <1>0, <1>2, <2>1, <2>2
    <2>3. CASE discovery' = [discovery EXCEPT !.stage = "model/list"] /\ UNCHANGED sessions
      BY <1>e, <2>1, <2>3
    <2>4. CASE Discovered(discovery.listed, discovery.configured)
      BY <1>0, <1>1, <2>1, <2>4
    <2> QED BY <1>5, <2>2, <2>3, <2>4 DEF DiscoveryTimesOut
  <1> QED BY <1>3, <1>4, <1>5 DEF Discovering

\* A new session opens at once, or when its discovery is through.
LEMMA NewSessions ==
    ASSUME TypeOK, NotYet, NewSession
    PROVE  /\ UNCHANGED <<provider, others, active, runVars, chosen>>
           /\ inbox' = NoRequest /\ opened' = opened + 1 /\ opened' \in Sessions
           /\ discovery' \in Discovery
           /\ \/ UNCHANGED sessions
              \/ OpenSession(opened', {}, NoModel) /\ discovery' = NoDiscovery
  <1>1. /\ UNCHANGED <<provider, others, active, runVars, chosen>>
        /\ inbox' = NoRequest /\ opened' = opened + 1
        /\ discovery = NoDiscovery /\ inbox.kind = "new"
    BY DEF NewSession, Takes
  <1>2. opened' \in Sessions
    BY <1>1, AdapterAssumption DEF NotYet, TypeOK, Sessions
  <1>3. /\ [NoDiscovery EXCEPT !.stage = "initialize"] \in Discovery
        /\ NoDiscovery \in Discovery
    BY DEF NoDiscovery, Discovery, MaybeModel
  <1> QED BY <1>1, <1>2, <1>3 DEF NewSession

\* A choice that is accepted becomes the session's.
LEMMA Sets ==
    ASSUME TypeOK, SetModel
    PROVE  /\ UNCHANGED <<provider, opened, others, discovery, active, runVars>>
           /\ inbox' = NoRequest
           /\ sessions' \in [Sessions -> SessionState \cup {Closed}]
           /\ chosen' \in [Sessions -> MaybeModel]
           /\ \/ UNCHANGED <<sessions, chosen>>
              \/ \E s \in Sessions, m \in Models :
                    /\ Open(s) /\ sessions'[s] # Closed
                    /\ sessions'[s].models = sessions[s].models \cup {m}
                    /\ sessions'[s].selected = m
                    /\ sessions'[s].observed = sessions[s].observed
                    /\ chosen'[s] = m
                    /\ \A t \in Sessions : t # s =>
                          sessions'[t] = sessions[t] /\ chosen'[t] = chosen[t]
  <1>1. /\ UNCHANGED <<provider, opened, others, discovery, active, runVars>>
        /\ inbox' = NoRequest /\ inbox.kind = "set"
    BY DEF SetModel, Takes
  <1>2. inbox.session \in Sessions /\ inbox.model \in Models
    BY <1>1, RequestFields DEF TypeOK
  <1>3. CASE UNCHANGED <<sessions, chosen>>
    BY <1>1, <1>3 DEF TypeOK
  <1>4. ASSUME NEW s \in Sessions, NEW m \in Models, Open(s),
               sessions' = [sessions EXCEPT ![s].models = @ \cup {m}, ![s].selected = m],
               chosen' = [chosen EXCEPT ![s] = m]
        PROVE  /\ sessions' \in [Sessions -> SessionState \cup {Closed}]
               /\ chosen' \in [Sessions -> MaybeModel]
               /\ sessions'[s] # Closed
               /\ sessions'[s].models = sessions[s].models \cup {m}
               /\ sessions'[s].selected = m
               /\ sessions'[s].observed = sessions[s].observed
               /\ chosen'[s] = m
               /\ \A t \in Sessions : t # s =>
                     sessions'[t] = sessions[t] /\ chosen'[t] = chosen[t]
    <2>0. /\ sessions \in [Sessions -> SessionState \cup {Closed}]
          /\ chosen \in [Sessions -> MaybeModel] /\ sessions[s] \in SessionState
          /\ m \in MaybeModel
      BY <1>4 DEF TypeOK, Open, MaybeModel
    <2>1. /\ sessions'[s] = [sessions[s] EXCEPT !.models = @ \cup {m}, !.selected = m]
          /\ \A t \in Sessions : t # s => sessions'[t] = sessions[t]
          /\ DOMAIN sessions' = Sessions
      BY <1>4, <2>0
    <2>2. /\ sessions'[s] \in SessionState
          /\ sessions'[s].models = sessions[s].models \cup {m}
          /\ sessions'[s].selected = m /\ sessions'[s].observed = sessions[s].observed
      BY ONLY <2>0, <2>1, <1>4 DEF SessionState
    <2>3. \A t \in Sessions : sessions'[t] \in SessionState \cup {Closed}
      BY <2>0, <2>1, <2>2
    <2>4. sessions' \in [Sessions -> SessionState \cup {Closed}]
      BY <1>4, <2>0, <2>3
    <2> QED BY <1>4, <2>0, <2>1, <2>2, <2>4, ClosedState
  <1> QED BY <1>1, <1>2, <1>3, <1>4 DEF SetModel

LEMMA DispatchTypes ==
    ASSUME TypeOK, NotYet, Dispatch
    PROVE  TypeOK'
  <1> USE DEF hostVars, runVars
  <1>0. sessions \in [Sessions -> SessionState \cup {Closed}] /\ NoRequest \in Request
    BY RequestTypes DEF TypeOK
  <1>1. CASE NewSession
    <2>1. sessions' \in [Sessions -> SessionState \cup {Closed}]
      BY <1>0, <1>1, NewSessions, Opens DEF MaybeModel
    <2>2. opened' \in 0 .. MaxSessions
      BY <1>1, NewSessions, AdapterAssumption DEF Sessions
    <2> QED BY <1>0, <1>1, <2>1, <2>2, NewSessions DEF TypeOK
  <1>2. CASE SetModel
    BY <1>0, <1>2, Sets DEF TypeOK
  <1>3. CASE Prompt
    <2>1. inbox.session \in Sessions /\ inbox.run \in Runs
      BY <1>3, RequestFields DEF TypeOK, Prompt, Takes
    <2>2. copy' \in [Runs -> [session : 0 .. MaxSessions, state : SessionState \cup {Closed}]]
      BY <1>3, <2>1, CopyTypes DEF TypeOK, Prompt
    <2>3. phase' \in [Runs -> Phases]
      BY <1>3, <2>1 DEF TypeOK, Prompt, Phases
    <2> QED BY <1>0, <1>3, <2>2, <2>3 DEF TypeOK, Prompt, Takes
  <1>c. ASSUME NEW s, CancelActive(s)
        PROVE  active' \in [Sessions -> 0 .. MaxPrompts] /\ cancel' \in [Runs -> BOOLEAN]
    <2>1. active' \in [Sessions -> 0 .. MaxPrompts]
      <3>1. active' = [active EXCEPT ![s] = 0] /\ active \in [Sessions -> 0 .. MaxPrompts]
        BY <1>c DEF CancelActive, TypeOK
      <3>2. 0 \in 0 .. MaxPrompts
        BY AdapterAssumption
      <3> QED BY <3>1, <3>2
    <2>2. \A r \in Runs : (cancel[r] \/ r = active[s]) \in BOOLEAN
      BY Zenon
    <2>3. cancel' = [r \in Runs |-> cancel[r] \/ r = active[s]]
      BY <1>c DEF CancelActive
    <2> QED BY <2>1, <2>2, <2>3, Zenon
  <1>4. CASE Cancel
    BY <1>0, <1>4, <1>c DEF TypeOK, Cancel, Takes
  <1>5. CASE Close
    <2>1. /\ sessions' \in [Sessions -> SessionState \cup {Closed}]
          /\ chosen' \in [Sessions -> MaybeModel]
      BY <1>0, <1>5 DEF Close, TypeOK, MaybeModel
    <2> QED BY <1>0, <1>5, <1>c, <2>1 DEF TypeOK, Close, Takes
  <1>6. CASE Discovering
    <2>1. /\ discovery # NoDiscovery => opened \in Sessions
          /\ UNCHANGED <<provider, hostVars, active, runVars, chosen>>
          /\ discovery # NoDiscovery /\ discovery' \in Discovery
          /\ \/ UNCHANGED sessions
             \/ \E models \in SUBSET Models, selected \in MaybeModel :
                   /\ selected # NoModel => selected \in models
                   /\ OpenSession(opened, models, selected)
      BY <1>6, Discovers DEF NotYet
    <2>2. sessions' \in [Sessions -> SessionState \cup {Closed}]
      BY <1>0, <2>1, Opens
    <2> QED BY <2>1, <2>2 DEF TypeOK
  <1> QED BY <1>1, <1>2, <1>3, <1>4, <1>5, <1>6 DEF Dispatch, Discovering

-----------------------------------------------------------------------------
(* A task *)

\* The steps of a task leave the dispatcher alone, and the sessions, until the task
\* stores what it brought.
LEMMA RunFrame ==
    ASSUME NEW r \in Runs, Run(r)
    PROVE  /\ UNCHANGED <<provider, hostVars, discovery, chosen>>
           /\ Store(r) \/ UNCHANGED sessions
           /\ Register(r) \/ Cleanup(r) \/ UNCHANGED active
  BY DEF Run, Task, Child, LookUp, LaunchFails, Register, StartupReply, ProviderFails, Approval,
         HostAnswers, ClaudeSays, TurnEnds, ChildExits, SeeCancel, InterruptEnds,
         InterruptExpires, Cleanup, Store

\* A task takes its copy, and drops it when it has answered.
LEMMA RunCopies ==
    ASSUME TypeOK, Placed, NEW r \in Runs, Run(r)
    PROVE  /\ phase[r] \notin {"idle", "answered"} /\ phase' \in [Runs -> Phases]
           /\ \A q \in Runs : q # r => phase'[q] = phase[q] /\ copy'[q] = copy[q]
           /\ phase'[r] \notin {"idle", "dispatched"}
           /\ copy' \in [Runs -> [session : 0 .. MaxSessions,
                                  state : SessionState \cup {Closed}]]
           /\ phase'[r] # "answered" =>
                 copy'[r].session = copy[r].session /\ copy'[r].state \in SessionState
  <1> DEFINE New == copy'[r].session = copy[r].session /\ copy'[r].state \in SessionState
  <1>0. /\ phase \in [Runs -> Phases] /\ asking \in [Runs -> Asks]
        /\ copy \in [Runs -> [session : 0 .. MaxSessions, state : SessionState \cup {Closed}]]
    BY DEF TypeOK
  <1>a. ASSUME Answer(r)
        PROVE  /\ phase' = [phase EXCEPT ![r] = "answered"]
               /\ copy' \in [Runs -> [session : 0 .. MaxSessions,
                                      state : SessionState \cup {Closed}]]
               /\ \A q \in Runs : q # r => copy'[q] = copy[q]
    BY <1>0, <1>a, CopyTypes DEF Answer, Goes
  <1>k. ASSUME NEW to \in Phases \ {"idle", "dispatched"}, Goes(r, to), UNCHANGED copy,
               phase[r] \notin {"idle", "dispatched", "answered"}
        PROVE  /\ phase' \in [Runs -> Phases]
               /\ \A q \in Runs : q # r => phase'[q] = phase[q] /\ copy'[q] = copy[q]
               /\ phase'[r] \notin {"idle", "dispatched"} /\ New
               /\ copy' \in [Runs -> [session : 0 .. MaxSessions,
                                      state : SessionState \cup {Closed}]]
    BY <1>0, <1>k DEF Goes, Placed
  <1>f. ASSUME Answer(r), phase[r] \notin {"idle", "answered"}
        PROVE  /\ phase' \in [Runs -> Phases] /\ phase'[r] = "answered"
               /\ \A q \in Runs : q # r => phase'[q] = phase[q] /\ copy'[q] = copy[q]
               /\ copy' \in [Runs -> [session : 0 .. MaxSessions,
                                      state : SessionState \cup {Closed}]]
    BY <1>0, <1>a, <1>f DEF Phases
  <1>1. CASE LookUp(r)
    <2>1. CASE Answer(r)
      BY <1>1, <1>f, <2>1 DEF LookUp
    <2>2. CASE /\ Open(copy[r].session) /\ Goes(r, "launching")
               /\ copy' = [copy EXCEPT ![r].state = sessions[copy[r].session]]
      <3>1. copy[r].session \in Sessions /\ phase[r] = "dispatched"
        BY <1>1 DEF LookUp, Placed
      <3>2. sessions[copy[r].session] \in SessionState
        BY <2>2, <3>1 DEF TypeOK, Open
      <3>3. /\ copy'[r].session = copy[r].session
            /\ copy'[r].state = sessions[copy[r].session]
            /\ \A q \in Runs : q # r => copy'[q] = copy[q]
        BY <1>0, <2>2
      <3>4. copy' \in [Runs -> [session : 0 .. MaxSessions,
                                state : SessionState \cup {Closed}]]
        BY <1>0, <2>2, <3>2, CopyTypes
      <3>5. phase' \in [Runs -> Phases] /\ phase'[r] = "launching"
            /\ \A q \in Runs : q # r => phase'[q] = phase[q]
        BY <1>0, <2>2 DEF Goes, Phases
      <3> QED BY <3>1, <3>2, <3>3, <3>4, <3>5
    <2> QED BY <1>1, <2>1, <2>2 DEF LookUp
  <1>2. CASE LaunchFails(r) \/ Store(r)
    BY <1>2, <1>f DEF LaunchFails, ClaudeLaunchFails, CodexLaunchFails, Store
  <1>3. CASE Register(r)
    BY <1>3, <1>k DEF Register, StartClaude, StartCodex, Phases, Asks, Startup
  <1>4. CASE StartupReply(r)
    BY <1>4, <1>k DEF StartupReply, ThreadReply, Phases, Asks, Startup
  <1>5. CASE ProviderFails(r)
    BY <1>5, <1>k DEF ProviderFails, Ends, Phases, Startup
  <1>6. CASE Approval(r)
    BY <1>6, <1>k DEF Approval, Phases, Asks, Startup
  <1>7. CASE HostAnswers(r)
    <2>1. asking[r] \in Phases \ {"idle", "dispatched"}
      BY <1>0 DEF Phases, Asks, Startup
    <2> QED BY <1>7, <1>k, <2>1 DEF HostAnswers
  <1>8. CASE ClaudeSays(r)
    BY <1>0, <1>8 DEF ClaudeSays, Placed
  <1>9. CASE TurnEnds(r) \/ ChildExits(r)
    BY <1>9, <1>k DEF TurnEnds, CodexTurnEnds, ClaudeOutputEnds, ChildExits, Ends, Phases
  <1>10. CASE SeeCancel(r) \/ InterruptEnds(r) \/ InterruptExpires(r)
    BY <1>10, <1>k DEF SeeCancel, InterruptEnds, InterruptExpires, Ends, Phases, Asks
  <1>11. CASE Cleanup(r)
    BY <1>11, <1>k DEF Cleanup, Phases
  <1> QED BY <1>1, <1>2, <1>3, <1>4, <1>5, <1>6, <1>7, <1>8, <1>9, <1>10, <1>11
          DEF Run, Task, Child

\* What a provider brings stays an outcome.
LEMMA RunOutcomes ==
    ASSUME TypeOK, Placed, NEW r \in Runs, Run(r)
    PROVE  outcome' \in [Runs -> Outcome]
  <1>0. /\ outcome \in [Runs -> Outcome] /\ Nothing \in Outcome
        /\ r \in 0 .. MaxPrompts /\ r # 0
    BY AdapterAssumption DEF TypeOK, Nothing, Outcome, MaybeModel, Runs
  <1>e. ASSUME NEW how \in {"end", "cancelled", "error"}, Ends(r, how)
        PROVE  outcome' \in [Runs -> Outcome]
    BY <1>0, <1>e DEF Ends, Outcome
  <1>t. ASSUME NEW t \in 0 .. MaxPrompts
        PROVE  /\ [outcome EXCEPT ![r].thread = t] \in [Runs -> Outcome]
               /\ [outcome EXCEPT ![r].thread = t, ![r].resumed = TRUE] \in [Runs -> Outcome]
    <2>1. [outcome[r] EXCEPT !.thread = t] \in Outcome
      BY <1>0 DEF Outcome
    <2>2. [[outcome[r] EXCEPT !.thread = t] EXCEPT !.resumed = TRUE] \in Outcome
      BY <2>1 DEF Outcome
    <2>3. [outcome EXCEPT ![r].thread = t]
             = [outcome EXCEPT ![r] = [outcome[r] EXCEPT !.thread = t]]
      BY <1>0
    <2>4. [outcome EXCEPT ![r].thread = t, ![r].resumed = TRUE]
             = [outcome EXCEPT ![r] = [[outcome[r] EXCEPT !.thread = t] EXCEPT !.resumed = TRUE]]
      BY <1>0
    <2> QED BY <1>0, <2>1, <2>2, <2>3, <2>4
  <1>s. phase[r] \notin {"idle", "dispatched", "answered"} =>
           copy[r].state.thread \in 0 .. MaxPrompts
    BY ClosedState DEF Placed
  <1>1. CASE UNCHANGED outcome
    BY <1>0, <1>1
  <1>2. CASE Answer(r)
    BY <1>0, <1>2 DEF Answer
  <1>3. CASE ThreadReply(r)
    BY <1>0, <1>3, <1>t, <1>s DEF ThreadReply
  <1>4. CASE ClaudeSays(r)
    <2>1. ASSUME NEW m \in Models, outcome' = [outcome EXCEPT ![r].model = m]
          PROVE  outcome' \in [Runs -> Outcome]
      BY <1>0, <2>1 DEF Outcome, MaybeModel
    <2>2. ASSUME NEW t \in {r, copy[r].state.thread} \ {0},
                 outcome' = [outcome EXCEPT ![r].thread = t]
          PROVE  outcome' \in [Runs -> Outcome]
      BY <1>0, <1>4, <1>t, <1>s, <2>2 DEF ClaudeSays
    <2> QED BY <1>4, <2>1, <2>2 DEF ClaudeSays
  <1>5. \/ UNCHANGED outcome \/ Answer(r) \/ ThreadReply(r) \/ ClaudeSays(r)
        \/ \E how \in {"end", "cancelled", "error"} : Ends(r, how)
    BY DEF Run, Task, Child, LookUp, LaunchFails, ClaudeLaunchFails, CodexLaunchFails, Register,
           StartupReply, ProviderFails, Approval, HostAnswers, TurnEnds, CodexTurnEnds,
           ClaudeOutputEnds, ChildExits, SeeCancel, InterruptEnds, InterruptExpires, Cleanup,
           Store
  <1> QED BY <1>1, <1>2, <1>3, <1>4, <1>5, <1>e

LEMMA RunTypes ==
    ASSUME TypeOK, Placed, NEW r \in Runs, Run(r)
    PROVE  TypeOK'
  <1> USE DEF hostVars
  <1>0. /\ sessions \in [Sessions -> SessionState \cup {Closed}]
        /\ active \in [Sessions -> 0 .. MaxPrompts] /\ r \in 0 .. MaxPrompts
        /\ 0 \in 0 .. MaxPrompts /\ cancel \in [Runs -> BOOLEAN] /\ asking \in [Runs -> Asks]
    BY AdapterAssumption DEF TypeOK, Runs
  <1>1. active' \in [Sessions -> 0 .. MaxPrompts]
    <2>1. CASE Register(r)
      <3>1. active' = [active EXCEPT ![copy[r].session] = r]
        BY <2>1 DEF Register, StartClaude, StartCodex, Registered
      <3> QED BY <1>0, <3>1
    <2>2. CASE Cleanup(r)
      BY <1>0, <2>2 DEF Cleanup
    <2> QED BY <1>0, <2>1, <2>2, RunFrame
  <1>2. sessions' \in [Sessions -> SessionState \cup {Closed}]
    <2>1. CASE Store(r)
      <3>1. copy[r].session \in Sessions
        BY <2>1 DEF Store, Placed
      <3>2. Open(copy[r].session) => Merge(sessions[copy[r].session], r) \in SessionState
        BY <1>0, <3>1, Merged DEF Open, TypeOK
      <3> QED BY <1>0, <2>1, <3>1, <3>2 DEF Store
    <2> QED BY <1>0, <2>1, RunFrame
  <1>3. cancel' \in [Runs -> BOOLEAN]
    <2>1. CASE Register(r)
      <3>1. cancel' = [q \in Runs |-> cancel[q] \/ q = active[copy[r].session]]
        BY <2>1 DEF Register, StartClaude, StartCodex, Registered
      <3>2. \A q \in Runs : (cancel[q] \/ q = active[copy[r].session]) \in BOOLEAN
        BY Zenon
      <3> QED BY <3>1, <3>2, Zenon
    <2>2. CASE cancel' = [cancel EXCEPT ![r] = FALSE]
      BY <1>0, <2>2
    <2>3. CASE UNCHANGED cancel
      BY <1>0, <2>3
    <2> QED BY <2>1, <2>2, <2>3
            DEF Run, Task, Child, LookUp, LaunchFails, StartupReply, ProviderFails, Approval,
                HostAnswers, ClaudeSays, TurnEnds, ChildExits, SeeCancel, InterruptEnds,
                InterruptExpires, Cleanup, Store
  <1>4. asking' \in [Runs -> Asks]
    <2>1. CASE Approval(r)
      BY <1>0, <2>1 DEF Approval
    <2>2. CASE HostAnswers(r)
      BY <1>0, <2>2 DEF HostAnswers, Asks
    <2>3. Approval(r) \/ HostAnswers(r) \/ UNCHANGED asking
      BY DEF Run, Task, Child, LookUp, LaunchFails, Register, StartupReply, ProviderFails,
             ClaudeSays, TurnEnds, ChildExits, SeeCancel, InterruptEnds, InterruptExpires,
             Cleanup, Store
    <2> QED BY <1>0, <2>1, <2>2, <2>3
  <1>5. UNCHANGED <<provider, hostVars, discovery, chosen>>
    BY RunFrame
  <1>6. /\ phase' \in [Runs -> Phases]
        /\ copy' \in [Runs -> [session : 0 .. MaxSessions, state : SessionState \cup {Closed}]]
    BY RunCopies
  <1>7. outcome' \in [Runs -> Outcome]
    BY RunOutcomes
  <1> QED BY <1>1, <1>2, <1>3, <1>4, <1>5, <1>6, <1>7 DEF TypeOK

LEMMA TypeStep == TypeOK /\ Placed /\ NotYet /\ [Next]_vars => TypeOK'
  <1> SUFFICES ASSUME TypeOK, Placed, NotYet, [Next]_vars PROVE TypeOK'
    OBVIOUS
  <1>1. CASE UNCHANGED vars
    BY <1>1 DEF vars, hostVars, runVars, TypeOK
  <1> QED BY <1>1, HostTypes, DispatchTypes, RunTypes DEF Next

-----------------------------------------------------------------------------
(* The parts of the invariant *)

LEMMA PlacedStep == TypeOK /\ Placed /\ NotYet /\ [Next]_vars => Placed'
  <1> SUFFICES ASSUME TypeOK, Placed, NotYet, [Next]_vars PROVE Placed'
    OBVIOUS
  <1>1. CASE Prompt
    <2>1. /\ inbox.session \in Sessions /\ inbox.run \in Runs
          /\ phase' = [phase EXCEPT ![inbox.run] = "dispatched"]
          /\ copy' = [copy EXCEPT ![inbox.run].session = inbox.session]
      BY <1>1, RequestFields DEF TypeOK, Prompt, Takes
    <2>2. /\ phase'[inbox.run] = "dispatched" /\ copy'[inbox.run].session \in Sessions
          /\ \A q \in Runs : q # inbox.run => phase'[q] = phase[q] /\ copy'[q] = copy[q]
      BY <2>1 DEF TypeOK
    <2> QED BY <2>2 DEF Placed
  <1>2. ASSUME NEW r \in Runs, Run(r) PROVE Placed'
    <2>1. /\ phase[r] \notin {"idle", "answered"}
          /\ \A q \in Runs : q # r => phase'[q] = phase[q] /\ copy'[q] = copy[q]
          /\ phase'[r] \notin {"idle", "dispatched"}
          /\ phase'[r] # "answered" =>
                 copy'[r].session = copy[r].session /\ copy'[r].state \in SessionState
      BY <1>2, RunCopies
    <2> QED BY <2>1 DEF Placed
  <1>3. CASE UNCHANGED <<phase, copy>>
    BY <1>3 DEF Placed
  <1>4. CASE NewSession \/ SetModel \/ Discovering
    BY <1>3, <1>4, NewSessions, Sets, Discovers DEF runVars
  <1> QED BY <1>1, <1>2, <1>3, <1>4
          DEF Next, HostWrites, Dispatch, Discovering, Cancel, Close, vars, runVars

LEMMA NotYetStep == TypeOK /\ Placed /\ NotYet /\ [Next]_vars => NotYet'
  <1> SUFFICES ASSUME TypeOK, Placed, NotYet, [Next]_vars PROVE NotYet'
    OBVIOUS
  <1> USE DEF hostVars, runVars
  <1>0. /\ sessions \in [Sessions -> SessionState \cup {Closed}] /\ opened \in 0 .. MaxSessions
        /\ chosen \in [Sessions -> MaybeModel] /\ NoRequest.kind = "none"
        /\ Sessions = 1 .. MaxSessions /\ MaxSessions \in Nat
    BY AdapterAssumption DEF TypeOK, NoRequest, Sessions
  <1>1. CASE HostWrites
    BY <1>1 DEF HostWrites, NotYet, Open
  <1>2. CASE NewSession
    <2>1. /\ inbox' = NoRequest /\ opened' = opened + 1 /\ opened' \in Sessions
          /\ UNCHANGED chosen
          /\ \/ UNCHANGED sessions
             \/ OpenSession(opened', {}, NoModel) /\ discovery' = NoDiscovery
      BY <1>2, NewSessions
    <2>2. sessions[opened'] = Closed
      BY <1>0, <2>1 DEF NotYet
    <2>3. CASE UNCHANGED sessions
      BY <1>0, <2>1, <2>2, <2>3 DEF NotYet, Open
    <2>4. CASE OpenSession(opened', {}, NoModel) /\ discovery' = NoDiscovery
      <3>1. \A t \in Sessions : t # opened' => sessions'[t] = sessions[t]
        BY <1>0, <2>1, <2>4 DEF OpenSession
      <3> QED BY <1>0, <2>1, <2>2, <2>4, <3>1 DEF NotYet, Open
    <2> QED BY <2>1, <2>3, <2>4
  <1>3. CASE SetModel
    <2>1. UNCHANGED <<opened, discovery>> /\ inbox' = NoRequest
      BY <1>3, Sets
    <2>2. CASE UNCHANGED <<sessions, chosen>>
      BY <1>0, <2>1, <2>2 DEF NotYet, Open
    <2>3. ASSUME NEW s \in Sessions, Open(s), sessions'[s] # Closed,
                 \A t \in Sessions : t # s =>
                    sessions'[t] = sessions[t] /\ chosen'[t] = chosen[t]
          PROVE  NotYet'
      BY <1>0, <2>1, <2>3 DEF NotYet, Open
    <2> QED BY <1>3, <2>2, <2>3, Sets
  <1>4. CASE Prompt
    BY <1>0, <1>4 DEF Prompt, Takes, NotYet, Open
  <1>5. CASE Cancel
    BY <1>0, <1>5 DEF Cancel, Takes, NotYet, Open
  <1>6. CASE Close
    <2>1. /\ UNCHANGED <<opened, discovery>> /\ inbox' = NoRequest
          /\ \A s \in Sessions :
                \/ sessions'[s] = Closed /\ chosen'[s] = NoModel
                \/ sessions'[s] = sessions[s] /\ chosen'[s] = chosen[s]
          /\ discovery = NoDiscovery
      BY <1>0, <1>6 DEF Close, Takes
    <2> QED BY <1>0, <2>1 DEF NotYet, Open
  <1>7. CASE Discovering
    <2>1. /\ UNCHANGED <<hostVars, chosen>>
          /\ discovery # NoDiscovery /\ opened \in Sessions /\ sessions[opened] = Closed
      BY <1>7, Discovers DEF NotYet
    <2>2. CASE UNCHANGED sessions
      BY <2>1, <2>2 DEF NotYet, Open
    <2>3. ASSUME NEW models \in SUBSET Models, NEW selected \in MaybeModel,
                 OpenSession(opened, models, selected), discovery' = NoDiscovery
          PROVE  NotYet'
      <3>1. \A t \in Sessions : t # opened => sessions'[t] = sessions[t]
        BY <1>0, <2>1, <2>3 DEF OpenSession
      <3>2. chosen[opened] = NoModel
        BY <2>1 DEF NotYet, Open
      <3> QED BY <1>0, <2>1, <2>3, <3>1, <3>2 DEF NotYet, Open
    <2> QED BY <1>7, <2>2, <2>3, Discovers
  <1>8. ASSUME NEW r \in Runs, Run(r) PROVE NotYet'
    <2>1. UNCHANGED <<provider, hostVars, discovery, chosen>>
      BY <1>8, RunFrame
    <2>2. \A s \in Sessions : sessions[s] = Closed <=> sessions'[s] = Closed
      <3>1. CASE Store(r)
        <4>1. copy[r].session \in Sessions /\ outcome[r] \in Outcome
          BY <3>1 DEF Store, Placed, TypeOK
        <4>2. Open(copy[r].session) => Merge(sessions[copy[r].session], r) # Closed
          BY <1>0, <4>1, Merged, ClosedState DEF Open
        <4> QED BY <1>0, <3>1, <4>1, <4>2 DEF Store, Open
      <3> QED BY <1>8, <3>1, RunFrame
    <2> QED BY <1>0, <2>1, <2>2 DEF NotYet, Open
  <1>9. CASE UNCHANGED vars
    BY <1>9 DEF vars, NotYet, Open
  <1> QED BY <1>1, <1>2, <1>3, <1>4, <1>5, <1>6, <1>7, <1>8, <1>9 DEF Next, Dispatch, Discovering

\* The choice of an open session is its selection, and is offered.
Chosen(s) ==
    Open(s) =>
        /\ chosen[s] # NoModel => sessions[s].selected = chosen[s]
        /\ {sessions[s].selected, sessions[s].observed} \ {NoModel} \subseteq sessions[s].models

LEMMA ChoicesStep == TypeOK /\ Placed /\ NotYet /\ Choices /\ [Next]_vars => Choices'
  <1> SUFFICES ASSUME TypeOK, Placed, NotYet, Choices, [Next]_vars, NEW s \in Sessions
               PROVE  Chosen(s)'
    BY DEF Choices, Chosen
  <1> USE DEF hostVars, runVars
  <1>0. /\ sessions \in [Sessions -> SessionState \cup {Closed}] /\ Chosen(s)
        /\ sessions[s] = Closed => chosen[s] = NoModel
    BY DEF TypeOK, Choices, Chosen, NotYet, Open
  <1>o. ASSUME NEW t \in Sessions, sessions[t] = Closed, UNCHANGED chosen,
               NEW models \in SUBSET Models, NEW selected \in MaybeModel,
               selected # NoModel => selected \in models, OpenSession(t, models, selected)
        PROVE  Chosen(s)'
    <2>1. /\ \A u \in Sessions : u # t => sessions'[u] = sessions[u]
          /\ {sessions'[t].selected, sessions'[t].observed} \ {NoModel}
                \subseteq sessions'[t].models
      BY <1>0, <1>o, Opens
    <2>2. CASE s = t
      BY <1>0, <1>o, <2>1, <2>2 DEF Chosen
    <2>3. CASE s # t
      BY <1>0, <1>o, <2>1, <2>3 DEF Chosen, Open
    <2> QED BY <2>2, <2>3
  <1>1. CASE UNCHANGED <<sessions, chosen>>
    BY <1>0, <1>1 DEF Chosen, Open
  <1>2. CASE NewSession
    <2>1. /\ UNCHANGED chosen /\ opened' \in Sessions /\ opened' = opened + 1
          /\ \/ UNCHANGED sessions
             \/ OpenSession(opened', {}, NoModel)
      BY <1>2, NewSessions
    <2>2. sessions[opened'] = Closed
      BY <2>1 DEF NotYet, TypeOK
    <2> QED BY <1>1, <1>o, <2>1, <2>2 DEF MaybeModel
  <1>3. CASE SetModel
    <2>1. ASSUME NEW t \in Sessions, NEW m \in Models, Open(t), sessions'[t] # Closed,
                 sessions'[t].models = sessions[t].models \cup {m},
                 sessions'[t].selected = m,
                 sessions'[t].observed = sessions[t].observed,
                 chosen'[t] = m,
                 \A u \in Sessions : u # t =>
                    sessions'[u] = sessions[u] /\ chosen'[u] = chosen[u]
          PROVE  Chosen(s)'
      <3>1. CASE s # t
        BY <1>0, <2>1, <3>1 DEF Chosen, Open
      <3>2. CASE s = t
        <4>1. {sessions[t].observed} \ {NoModel} \subseteq sessions[t].models
          BY <1>0, <2>1, <3>2 DEF Chosen
        <4> QED BY <2>1, <3>2, <4>1 DEF Chosen
      <3> QED BY <3>1, <3>2
    <2> QED BY <1>1, <1>3, <2>1, Sets
  <1>4. CASE Close
    <2>1. \/ sessions'[s] = Closed
          \/ sessions'[s] = sessions[s] /\ chosen'[s] = chosen[s]
      BY <1>0, <1>4 DEF Close, TypeOK
    <2> QED BY <1>0, <2>1 DEF Chosen, Open
  <1>5. CASE Discovering
    <2>1. /\ UNCHANGED chosen /\ opened \in Sessions /\ sessions[opened] = Closed
          /\ \/ UNCHANGED sessions
             \/ \E models \in SUBSET Models, selected \in MaybeModel :
                   /\ selected # NoModel => selected \in models
                   /\ OpenSession(opened, models, selected)
      BY <1>5, Discovers DEF NotYet
    <2> QED BY <1>1, <1>o, <2>1
  <1>6. ASSUME NEW r \in Runs, Run(r) PROVE Chosen(s)'
    <2>1. UNCHANGED chosen /\ (Store(r) \/ UNCHANGED sessions)
      BY <1>6, RunFrame
    <2>2. ASSUME Store(r), s = copy[r].session, Open(s),
                 sessions' = [sessions EXCEPT ![s] = Merge(sessions[s], r)]
          PROVE  Chosen(s)'
      <3>1. sessions[s] \in SessionState /\ outcome[r] \in Outcome
        BY <1>0, <2>2 DEF Open, TypeOK
      <3>2. sessions'[s] = Merge(sessions[s], r)
        BY <1>0, <2>2
      <3>3. /\ Merge(sessions[s], r).selected = sessions[s].selected
            /\ sessions[s].models \subseteq Merge(sessions[s], r).models
            /\ Merge(sessions[s], r).observed \in {sessions[s].observed, outcome[r].model}
            /\ outcome[r].model # NoModel => outcome[r].model \in Merge(sessions[s], r).models
        BY <3>1, Merged
      <3> QED BY <1>0, <2>1, <2>2, <3>2, <3>3 DEF Chosen
    <2>3. CASE Store(r) /\ sessions'[s] = sessions[s]
      BY <1>0, <2>1, <2>3 DEF Chosen, Open
    <2>4. Store(r) => \/ sessions'[s] = sessions[s]
                      \/ /\ s = copy[r].session /\ Open(s)
                         /\ sessions' = [sessions EXCEPT ![s] = Merge(sessions[s], r)]
      BY <1>0 DEF Store
    <2> QED BY <1>1, <2>1, <2>2, <2>3, <2>4
  <1> QED BY <1>1, <1>2, <1>3, <1>4, <1>5, <1>6
          DEF Next, Dispatch, Discovering, HostWrites, Prompt, Cancel, vars

\* A run that is left to itself.
Alone(r) == Untold(r) /\ ~cancel[r]

\* A step that leaves the registrations alone, and lets no run be left to itself that
\* was not before.
LEMMA StillLive ==
    ASSUME OneLiveRun, UNCHANGED active,
           \A q \in Runs : Alone(q)' => Alone(q) /\ copy'[q].session = copy[q].session
    PROVE  OneLiveRun'
  BY DEF OneLiveRun, Alone

\* Telling the registered run of a session to stop.
LEMMA Told ==
    ASSUME OneLiveRun, NEW s \in Sessions, active \in [Sessions -> 0 .. MaxPrompts], NEW next,
           active' = [active EXCEPT ![s] = next],
           cancel' = [q \in Runs |-> cancel[q] \/ q = active[s]],
           NEW q \in Runs, Alone(q)', Untold(q), copy'[q].session = copy[q].session
    PROVE  active'[copy'[q].session] = q
  <1>1. ~cancel[q] /\ q # active[s]
    BY DEF Alone
  <1>2. active[copy[q].session] = q
    BY <1>1 DEF OneLiveRun
  <1> QED BY <1>1, <1>2

LEMMA LiveStep == TypeOK /\ Placed /\ NotYet /\ OneLiveRun /\ [Next]_vars => OneLiveRun'
  <1> SUFFICES ASSUME TypeOK, Placed, NotYet, OneLiveRun, [Next]_vars PROVE OneLiveRun'
    OBVIOUS
  <1> USE DEF hostVars, runVars
  <1>0. /\ active \in [Sessions -> 0 .. MaxPrompts] /\ phase \in [Runs -> Phases]
        /\ asking \in [Runs -> Asks] /\ cancel \in [Runs -> BOOLEAN]
        /\ copy \in [Runs -> [session : 0 .. MaxSessions, state : SessionState \cup {Closed}]]
    BY DEF TypeOK
  <1>1. CASE UNCHANGED <<active, runVars>>
    BY <1>1 DEF OneLiveRun, Untold
  <1>2. CASE HostWrites \/ NewSession \/ SetModel \/ Discovering \/ UNCHANGED vars
    BY <1>1, <1>2, NewSessions, Sets, Discovers DEF HostWrites, vars
  <1>3. CASE Prompt
    <2>1. /\ inbox.run \in Runs /\ UNCHANGED <<active, cancel, asking>>
          /\ phase' = [phase EXCEPT ![inbox.run] = "dispatched"]
          /\ copy' = [copy EXCEPT ![inbox.run].session = inbox.session]
      BY <1>3, RequestFields DEF TypeOK, Prompt, Takes
    <2>2. /\ phase'[inbox.run] = "dispatched"
          /\ \A q \in Runs : q # inbox.run => phase'[q] = phase[q] /\ copy'[q] = copy[q]
      BY <1>0, <2>1
    <2>3. \A q \in Runs : Alone(q)' => Alone(q) /\ copy'[q].session = copy[q].session
      BY <2>1, <2>2 DEF Alone, Untold, Startup
    <2> QED BY <2>1, <2>3, StillLive
  <1>4. CASE Cancel \/ Close
    <2>1. /\ inbox.session \in Sessions /\ CancelActive(inbox.session)
          /\ UNCHANGED <<phase, copy, asking>>
      BY <1>4, RequestFields DEF TypeOK, Cancel, Close, Takes
    <2>2. ASSUME NEW q \in Runs, Alone(q)' PROVE active'[copy'[q].session] = q
      <3>1. Untold(q) /\ copy'[q].session = copy[q].session
        BY <2>1, <2>2 DEF Alone, Untold
      <3> QED BY <1>0, <2>1, <2>2, <3>1, Told DEF CancelActive
    <2> QED BY <2>2 DEF OneLiveRun, Alone
  <1>5. ASSUME NEW r \in Runs, Register(r) PROVE OneLiveRun'
    <2>1. /\ active' = [active EXCEPT ![copy[r].session] = r]
          /\ cancel' = [q \in Runs |-> cancel[q] \/ q = active[copy[r].session]]
          /\ UNCHANGED <<copy, asking>> /\ phase[r] = "launching"
          /\ \A q \in Runs : q # r => phase'[q] = phase[q]
      BY <1>0, <1>5 DEF Register, StartClaude, StartCodex, Registered, Goes
    <2>2. copy[r].session \in Sessions
      BY <2>1 DEF Placed
    <2>3. active'[copy'[r].session] = r
      BY <1>0, <2>1, <2>2
    <2>4. ASSUME NEW q \in Runs, q # r, Alone(q)' PROVE active'[copy'[q].session] = q
      <3>1. Untold(q) /\ copy'[q].session = copy[q].session
        BY <2>1, <2>4 DEF Alone, Untold
      <3> QED BY <1>0, <2>1, <2>2, <2>4, <3>1, Told
    <2> QED BY <2>3, <2>4 DEF OneLiveRun, Alone
  <1>6. ASSUME NEW r \in Runs, Cleanup(r) PROVE OneLiveRun'
    <2>1. /\ active' = [active EXCEPT ![copy[r].session] = IF @ = r THEN 0 ELSE @]
          /\ UNCHANGED <<copy, asking, cancel>> /\ phase[r] = "finished"
          /\ phase'[r] = "cleaned" /\ \A q \in Runs : q # r => phase'[q] = phase[q]
      BY <1>0, <1>6 DEF Cleanup, Goes
    <2>2. ASSUME NEW q \in Runs, Alone(q)' PROVE active'[copy'[q].session] = q
      <3>1. q # r
        BY <2>1, <2>2 DEF Alone, Untold, Startup
      <3>2. active[copy[q].session] = q
        BY <2>1, <2>2, <3>1 DEF OneLiveRun, Alone, Untold
      <3> QED BY <1>0, <2>1, <3>1, <3>2
    <2> QED BY <2>2 DEF OneLiveRun, Alone
  <1>7. ASSUME NEW r \in Runs, Run(r), ~Register(r), ~Cleanup(r) PROVE OneLiveRun'
    <2>1. /\ \A q \in Runs : q # r => phase'[q] = phase[q] /\ copy'[q] = copy[q]
          /\ phase'[r] # "answered" => copy'[r].session = copy[r].session
          /\ UNCHANGED active
      BY <1>7, RunCopies, RunFrame
    <2>2. \A q \in Runs : q # r => cancel'[q] = cancel[q] /\ asking'[q] = asking[q]
      BY <1>0, <1>7
         DEF Run, Task, Child, LookUp, LaunchFails, StartupReply, ProviderFails, Approval,
             HostAnswers, ClaudeSays, TurnEnds, ChildExits, SeeCancel, InterruptEnds,
             InterruptExpires, Store
    <2>3. Alone(r)' => Alone(r)
      <3> USE DEF Alone, Untold, Startup, Goes, Ends
      <3>1. CASE LookUp(r) \/ LaunchFails(r) \/ Store(r)
        BY <1>0, <3>1 DEF LookUp, LaunchFails, ClaudeLaunchFails, CodexLaunchFails, Store, Answer
      <3>2. CASE StartupReply(r)
        BY <1>0, <3>2 DEF StartupReply, ThreadReply
      <3>3. CASE ProviderFails(r) \/ ClaudeSays(r)
        BY <1>0, <3>3 DEF ProviderFails, ClaudeSays
      <3>4. CASE Approval(r)
        BY <1>0, <3>4 DEF Approval, Asks
      <3>5. CASE HostAnswers(r)
        BY <1>0, <3>5 DEF HostAnswers, Asks
      <3>6. CASE TurnEnds(r) \/ ChildExits(r)
        BY <1>0, <3>6 DEF TurnEnds, CodexTurnEnds, ClaudeOutputEnds, ChildExits
      <3>7. CASE SeeCancel(r) \/ InterruptEnds(r) \/ InterruptExpires(r)
        BY <1>0, <3>7 DEF SeeCancel, InterruptEnds, InterruptExpires
      <3> QED BY <1>7, <3>1, <3>2, <3>3, <3>4, <3>5, <3>6, <3>7 DEF Run, Task, Child
    <2>4. \A q \in Runs : Alone(q)' => Alone(q) /\ copy'[q].session = copy[q].session
      BY <2>1, <2>2, <2>3 DEF Alone, Untold, Startup
    <2> QED BY <2>1, <2>4, StillLive
  <1> QED BY <1>1, <1>2, <1>3, <1>4, <1>5, <1>6, <1>7 DEF Next, Dispatch, Discovering

-----------------------------------------------------------------------------
(* The theorems *)

LEMMA InvInit == Init => IInv
  <1> SUFFICES ASSUME Init PROVE IInv
    OBVIOUS
  <1>1. TypeOK
    BY RequestTypes, AdapterAssumption
       DEF Init, TypeOK, Discovery, NoDiscovery, MaybeModel, Nothing, Outcome, Phases, Asks
  <1>2. Placed /\ NotYet /\ Choices /\ OneLiveRun
    BY DEF Init, Placed, NotYet, Choices, OneLiveRun, Open, Untold, Startup, NoRequest
  <1> QED BY <1>1, <1>2 DEF IInv

LEMMA InvStep == IInv /\ [Next]_vars => IInv'
  BY TypeStep, PlacedStep, NotYetStep, ChoicesStep, LiveStep DEF IInv

\* The inductive invariant holds in every state.
THEOREM Invariance == Spec => []IInv
  <1> QED BY InvInit, InvStep, PTL DEF Spec

\* lib.rs's active_runs: however many prompts, cancellations, closures and ends of
\* runs cross, every run of a session but the registered one has been told to stop, so
\* that none is left that the host could not cancel.
THEOREM EveryLiveRunIsRegistered == Spec => []OneLiveRun
  <1>1. IInv => OneLiveRun
    BY DEF IInv
  <1> QED BY <1>1, Invariance, PTL

\* lib.rs's sessions: a choice of a model that was accepted is never lost to a prompt
\* that began before it and stores its outcome after it, and the session always offers
\* what it has selected or seen.
THEOREM ChoicesAreKept == Spec => []ChoiceKept
  <1>1. IInv => ChoiceKept
    BY DEF IInv, Choices, ChoiceKept
  <1> QED BY <1>1, Invariance, PTL

=============================================================================
