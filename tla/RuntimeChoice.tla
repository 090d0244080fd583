---------------------------- MODULE RuntimeChoice ----------------------------
(***************************************************************************)
(* Which runtime the program talks to, whether it answers and which models *)
(* it serves: the asynchronous calls of                                    *)
(* src/features/01-llm-provider/use-runtime-store.ts, and the effects of   *)
(* src/AppShell.tsx that hydrate it from the open project's configuration. *)
(*                                                                         *)
(* Every call reads the store, awaits, and writes the store; nothing ties  *)
(* the answer to what has been chosen meanwhile.                           *)
(***************************************************************************)
EXTENDS Naturals, FiniteSets, Sequences

CONSTANTS
  Endpoints,   \* base URLs
  Builtin,     \* the one of the sidecar
  Placeholder, \* DEFAULT_BASE_URL, an external port
  Probed,      \* those detect_runtimes looks at
  ModelsOf,    \* the models each serves
  Family,      \* what findBestModelMatch compares
  NoneYet,     \* no model, no endpoint
  MaxPicks,    \* bound: gestures of the user
  MaxOutages   \* bound: runtimes going down or coming up

ASSUME RuntimeChoiceConstants ==
  /\ {Builtin, Placeholder} \subseteq Endpoints /\ Probed \subseteq Endpoints \ {Builtin}
  /\ NoneYet \notin Endpoints /\ MaxPicks \in Nat /\ MaxOutages \in Nat

VARIABLES
  answers,                    \* the endpoints that answer
  outages,
  sidecarNews,                \* runtime: events on their way
  boot,                       \* how far bootstrap has come
  builtinStatus, builtinPort, \* the sidecar, as the store knows it
  seen,                       \* the probed runtimes last seen healthy
  active, healthy, runtimeExplicit,
  models, loadingModels, selectedModel, lastModel,
  project,                    \* the open project's configured endpoint, and its model
  calls,                      \* what is in flight
  picks,
  picked                      \* history: what the user, or the project, chose last

choiceVars == <<answers, outages, sidecarNews, boot, builtinStatus, builtinPort,
                seen, active, healthy, runtimeExplicit, models, loadingModels,
                selectedModel, lastModel, project, calls, picks, picked>>

Models == UNION {ModelsOf[u] : u \in Endpoints}

\* "select": the configuration is being saved; flag: what the runtime's health
\* was.  "tick": flag: what the health was when it began.  "validate": flag: an
\* edit of the endpoint that was active.  "detect": snap: who answered.
CallKinds == {"refresh", "select", "hydrate", "tick", "validate", "detect"}
Calls == [kind : CallKinds, of : Endpoints \cup {NoneYet}, flag : BOOLEAN,
          snap : SUBSET Endpoints, nth : 1 .. 2]

ChoiceTypeOK ==
  /\ answers \subseteq Endpoints /\ outages \in 0 .. MaxOutages
  /\ sidecarNews \in Seq({"ready", "restarting", "failed"})
  /\ boot \in {"off", "seeding", "subscribing", "up"}
  /\ builtinStatus \in {"starting", "ready", "restarting", "error"}
  /\ builtinPort \in BOOLEAN /\ seen \subseteq Probed
  /\ active \in Endpoints /\ healthy \in BOOLEAN /\ runtimeExplicit \in BOOLEAN
  /\ models \subseteq Models /\ loadingModels \in BOOLEAN
  /\ selectedModel \in Models \cup {NoneYet}
  /\ lastModel \in [Endpoints -> Models \cup {NoneYet}]
  /\ project \in [url : Endpoints \cup {NoneYet}, model : Models \cup {NoneYet}]
  /\ calls \subseteq Calls
  /\ picks \in 0 .. MaxPicks /\ picked \in Endpoints \cup {NoneYet}

NoProjectOpen == [url |-> NoneYet, model |-> NoneYet]

ChoiceInit ==
  /\ answers = {} /\ outages = 0 /\ sidecarNews = <<>> /\ boot = "off"
  /\ builtinStatus = "starting" /\ builtinPort = FALSE /\ seen = {}
  /\ active = Placeholder /\ healthy = FALSE /\ runtimeExplicit = FALSE
  /\ models = {} /\ loadingModels = FALSE /\ selectedModel = NoneYet
  /\ lastModel = [u \in Endpoints |-> NoneYet]
  /\ project = NoProjectOpen /\ calls = {} /\ picks = 0 /\ picked = NoneYet

ChoiceCall(kind, u, flag, snap) ==
  [kind |-> kind, of |-> u, flag |-> flag, snap |-> snap, nth |-> 1]
\* Two equal calls may be in flight.
With(cs, c) == IF c \in cs THEN cs \cup {[c EXCEPT !.nth = 2]} ELSE cs \cup {c}
InFlightOf(kind) == {c \in calls : c.kind = kind}

-----------------------------------------------------------------------------
(* The runtimes.                                                           *)

\* A runtime comes up or goes down; the sidecar says so, to whoever listens.
Outage(u) ==
  /\ outages < MaxOutages /\ outages' = outages + 1
  /\ answers' = IF u \in answers THEN answers \ {u} ELSE answers \cup {u}
  /\ sidecarNews' = IF u = Builtin /\ boot = "up"
                    THEN Append(sidecarNews, IF u \in answers THEN "restarting" ELSE "ready")
                    ELSE sidecarNews
  /\ UNCHANGED <<boot, builtinStatus, builtinPort, seen, active, healthy,
                 runtimeExplicit, models, loadingModels, selectedModel, lastModel,
                 project, calls, picks, picked>>

SidecarFails ==
  /\ boot = "up" /\ Builtin \notin answers /\ outages < MaxOutages
  /\ outages' = outages + 1
  /\ sidecarNews' = Append(sidecarNews, "failed")
  /\ UNCHANGED <<answers, boot, builtinStatus, builtinPort, seen, active, healthy,
                 runtimeExplicit, models, loadingModels, selectedModel, lastModel,
                 project, calls, picks, picked>>

worldVars == <<answers, outages>>

-----------------------------------------------------------------------------
(* Choosing.                                                               *)

\* The configuration's base_url is set at once, and saved; when it changes, the
\* effect hydrates the store from it.
Configure(u, cs) ==
  IF project.url \in {NoneYet, u} THEN calls' = cs /\ UNCHANGED <<project, selectedModel>>
  ELSE /\ project' = [project EXCEPT !.url = u]
       /\ calls' = With(cs, ChoiceCall("hydrate", u, FALSE, {}))
       /\ selectedModel' = IF project.model = NoneYet THEN selectedModel ELSE project.model

Choose(u, isHealthy, cs) ==
  /\ active' = u /\ healthy' = isHealthy /\ runtimeExplicit' = TRUE
  /\ Configure(u, With(cs, ChoiceCall("select", u, isHealthy, {})))

Pick == boot = "up" /\ picks < MaxPicks /\ picks' = picks + 1

SelectBuiltin ==
  /\ Pick /\ builtinPort
  /\ Choose(Builtin, builtinStatus = "ready", calls) /\ picked' = Builtin
  /\ UNCHANGED <<worldVars, sidecarNews, boot, builtinStatus, builtinPort, seen, models,
                 loadingModels, lastModel>>

SelectDetected(u) ==
  /\ Pick /\ u \in Probed
  /\ Choose(u, u \in seen, calls) /\ picked' = u
  /\ UNCHANGED <<worldVars, sidecarNews, boot, builtinStatus, builtinPort, seen, models,
                 loadingModels, lastModel>>

\* saveManual, and editSavedRuntime of the active endpoint, ask it first.
SaveManual(u) ==
  /\ Pick /\ u # Builtin
  /\ \E edit \in BOOLEAN :
       calls' = With(calls, ChoiceCall("validate", u, edit, IF edit THEN {active} ELSE {}))
  /\ UNCHANGED <<worldVars, sidecarNews, boot, builtinStatus, builtinPort, seen,
                 active, healthy, runtimeExplicit, models, loadingModels,
                 selectedModel, lastModel, project, picked>>

Validated(c) ==
  /\ c \in InFlightOf("validate")
  /\ IF c.of \in answers /\ (c.flag => active \in c.snap)
     THEN Choose(c.of, TRUE, calls \ {c}) /\ picked' = c.of
     ELSE /\ calls' = calls \ {c}
          /\ UNCHANGED <<active, healthy, runtimeExplicit, project, selectedModel,
                         picked>>
  /\ UNCHANGED <<worldVars, sidecarNews, boot, builtinStatus, builtinPort, seen, models,
                 loadingModels, lastModel, picks>>

\* The spinner ends with the answer; a slip leaves it on.
LoadingTill(cs) == loadingModels
LoadingAfter(cs) == FALSE

StartRefresh(u, cs) ==
  loadingModels' = TRUE /\ calls' = With(cs, ChoiceCall("refresh", u, FALSE, {}))

Selected(c) ==
  /\ c \in InFlightOf("select")
  /\ IF (IF c.of = Builtin THEN builtinStatus = "ready" ELSE c.flag)
     THEN StartRefresh(c.of, calls \ {c}) /\ UNCHANGED <<models, selectedModel>>
     ELSE /\ models' = {} /\ selectedModel' = NoneYet /\ calls' = calls \ {c}
          /\ UNCHANGED loadingModels
  /\ UNCHANGED <<worldVars, sidecarNews, boot, builtinStatus, builtinPort, seen,
                 active, healthy, runtimeExplicit, lastModel, project, picks,
                 picked>>

SelectModel(m) ==
  /\ Pick /\ m \in models
  /\ selectedModel' = m
  /\ lastModel' = [lastModel EXCEPT ![active] = m]
  /\ project' = IF project.url = NoneYet THEN project ELSE [project EXCEPT !.model = m]
  /\ UNCHANGED <<worldVars, sidecarNews, boot, builtinStatus, builtinPort, seen,
                 active, healthy, runtimeExplicit, models, loadingModels, calls,
                 picked>>

\* A configuration is loaded.  It names an endpoint, if only the default one;
\* the effect runs when that is not the one of the previous project.
OpenProject(u, m) ==
  /\ Pick
  /\ project' = [url |-> u, model |-> m]
  /\ IF project.url = u
     THEN UNCHANGED <<active, runtimeExplicit, selectedModel, calls, picked>>
     ELSE /\ active' = u /\ runtimeExplicit' = TRUE /\ picked' = u
          /\ selectedModel' = IF m = NoneYet THEN selectedModel ELSE m
          /\ calls' = With(calls, ChoiceCall("hydrate", u, FALSE, {}))
  /\ UNCHANGED <<worldVars, sidecarNews, boot, builtinStatus, builtinPort, seen,
                 healthy, models, loadingModels, lastModel>>

CloseProject ==
  /\ Pick /\ project # NoProjectOpen
  /\ project' = NoProjectOpen /\ selectedModel' = NoneYet
  /\ UNCHANGED <<worldVars, sidecarNews, boot, builtinStatus, builtinPort, seen,
                 active, healthy, runtimeExplicit, models, loadingModels,
                 lastModel, calls, picked>>

-----------------------------------------------------------------------------
(* Answers.                                                                *)

Hydrated(c) ==
  /\ c \in InFlightOf("hydrate")
  /\ healthy' = (c.of \in answers)
  /\ IF c.of \in answers
     THEN StartRefresh(c.of, calls \ {c}) /\ UNCHANGED models
     ELSE models' = {} /\ calls' = calls \ {c} /\ UNCHANGED loadingModels
  /\ UNCHANGED <<worldVars, sidecarNews, boot, builtinStatus, builtinPort, seen, active,
                 runtimeExplicit, selectedModel, lastModel, project, picks, picked>>

\* refreshModels: keep, else what this runtime last ran, else a near match.
Reconciled(u) ==
  LET served == ModelsOf[u]
      alike == {m \in served : selectedModel # NoneYet /\ Family[m] = Family[selectedModel]}
  IN  IF selectedModel \in served \cup {NoneYet} THEN selectedModel
      ELSE IF lastModel[u] \in served THEN lastModel[u]
      ELSE IF alike # {} THEN CHOOSE m \in alike : TRUE
      ELSE NoneYet

Refreshed(c) ==
  /\ c \in InFlightOf("refresh")
  /\ calls' = calls \ {c}
  /\ loadingModels' = LoadingAfter(calls')
  /\ IF c.of \in answers
     THEN LET next == Reconciled(c.of) IN
          /\ models' = ModelsOf[c.of]
          /\ selectedModel' = next
          /\ lastModel' = IF next = NoneYet THEN lastModel ELSE [lastModel EXCEPT ![c.of] = next]
          /\ project' = IF next \in {NoneYet, selectedModel} \/ project.url = NoneYet
                        THEN project ELSE [project EXCEPT !.model = next]
     ELSE models' = {} /\ UNCHANGED <<selectedModel, lastModel, project>>
  /\ UNCHANGED <<worldVars, sidecarNews, boot, builtinStatus, builtinPort, seen,
                 active, healthy, runtimeExplicit, picks, picked>>

StartTick ==
  /\ boot = "up" /\ InFlightOf("tick") = {}
  /\ calls' = With(calls, ChoiceCall("tick", active, healthy, {}))
  /\ UNCHANGED <<worldVars, sidecarNews, boot, builtinStatus, builtinPort, seen,
                 active, healthy, runtimeExplicit, models, loadingModels,
                 selectedModel, lastModel, project, picks, picked>>

\* A slip looks only for a runtime that comes back.
OnlyComesBack(now, was) == now /\ ~was
Changed(now, was) == now # was

Ticked(c) ==
  /\ c \in InFlightOf("tick")
  /\ LET now == c.of \in answers IN
     IF Changed(now, c.flag)
     THEN /\ healthy' = now
          /\ IF now THEN StartRefresh(c.of, calls \ {c})
             ELSE calls' = calls \ {c} /\ UNCHANGED loadingModels
     ELSE calls' = calls \ {c} /\ UNCHANGED <<healthy, loadingModels>>
  /\ UNCHANGED <<worldVars, sidecarNews, boot, builtinStatus, builtinPort, seen,
                 active, runtimeExplicit, models, selectedModel, lastModel,
                 project, picks, picked>>

\* A slip reports whatever answers.
ProbedAll == answers
ProbedNow == answers \cap Probed

StartDetection ==
  /\ boot = "up" /\ InFlightOf("detect") = {}
  /\ calls' = With(calls, ChoiceCall("detect", NoneYet, FALSE, ProbedNow))
  /\ UNCHANGED <<worldVars, sidecarNews, boot, builtinStatus, builtinPort, seen,
                 active, healthy, runtimeExplicit, models, loadingModels,
                 selectedModel, lastModel, project, picks, picked>>

Detected(c) ==
  /\ c \in InFlightOf("detect")
  /\ seen' = c.snap
  /\ IF active \in Probed /\ (active \in c.snap) # healthy
     THEN /\ healthy' = (active \in c.snap)
          /\ IF healthy'
             THEN StartRefresh(active, calls \ {c}) /\ UNCHANGED models
             ELSE models' = {} /\ calls' = calls \ {c} /\ UNCHANGED loadingModels
     ELSE calls' = calls \ {c} /\ UNCHANGED <<healthy, models, loadingModels>>
  /\ UNCHANGED <<worldVars, sidecarNews, boot, builtinStatus, builtinPort, active,
                 runtimeExplicit, selectedModel, lastModel, project, picks,
                 picked>>

-----------------------------------------------------------------------------
(* The sidecar, as the store follows it.                                   *)

followVars == <<worldVars, seen, models, loadingModels, lastModel, picks, picked>>

\* The window is open and bootstrap called.
Bootstrap ==
  /\ boot = "off" /\ boot' = "seeding"
  /\ UNCHANGED <<followVars, sidecarNews, builtinStatus, builtinPort, active, healthy,
                 runtimeExplicit, selectedModel, project, calls>>

SeedStatus ==
  /\ boot = "seeding" /\ boot' = "subscribing"
  /\ builtinPort' = (Builtin \in answers)
  /\ builtinStatus' = IF Builtin \in answers THEN "ready" ELSE "starting"
  /\ UNCHANGED <<followVars, sidecarNews, active, healthy, runtimeExplicit,
                 selectedModel, project, calls>>

Subscribe ==
  /\ boot = "subscribing" /\ boot' = "up"
  /\ UNCHANGED <<followVars, sidecarNews, builtinStatus, builtinPort, active, healthy,
                 runtimeExplicit, selectedModel, project, calls>>

\* A slip takes the place of whatever is active.
AdoptsAlways == TRUE
AdoptsSlot == ~runtimeExplicit

OnReady ==
  /\ sidecarNews # <<>> /\ Head(sidecarNews) = "ready" /\ sidecarNews' = Tail(sidecarNews)
  /\ builtinStatus' = "ready" /\ builtinPort' = TRUE
  /\ IF AdoptsSlot THEN Choose(Builtin, TRUE, calls)
     ELSE UNCHANGED <<active, healthy, runtimeExplicit, selectedModel, project, calls>>
  /\ UNCHANGED <<followVars, boot>>

OnOtherNews ==
  /\ sidecarNews # <<>> /\ Head(sidecarNews) # "ready" /\ sidecarNews' = Tail(sidecarNews)
  /\ builtinStatus' = IF Head(sidecarNews) = "failed" THEN "error" ELSE "restarting"
  /\ UNCHANGED <<followVars, boot, builtinPort, active, healthy, runtimeExplicit,
                 selectedModel, project, calls>>

ChoiceNext ==
  \/ SidecarFails \/ SelectBuiltin \/ CloseProject \/ StartTick \/ StartDetection
  \/ Bootstrap \/ SeedStatus \/ Subscribe \/ OnReady \/ OnOtherNews
  \/ \E u \in Endpoints : \/ Outage(u) \/ SelectDetected(u) \/ SaveManual(u)
                          \/ \E m \in ModelsOf[u] \cup {NoneYet} : OpenProject(u, m)
  \/ \E m \in models : SelectModel(m)
  \/ \E c \in calls : \/ Validated(c) \/ Selected(c) \/ Hydrated(c) \/ Refreshed(c)
                      \/ Ticked(c) \/ Detected(c)

\* Calls return, events arrive, and the two timers go on.
Answer(c) == Validated(c) \/ Selected(c) \/ Hydrated(c) \/ Refreshed(c) \/ Ticked(c) \/ Detected(c)
ChoiceFairness ==
  /\ WF_choiceVars(SeedStatus) /\ WF_choiceVars(Subscribe)
  /\ WF_choiceVars(OnReady \/ OnOtherNews)
  /\ WF_choiceVars(StartTick) /\ WF_choiceVars(StartDetection)
  /\ \A kind \in CallKinds : WF_choiceVars(\E c \in InFlightOf(kind) : Answer(c))

ChoiceSpec == ChoiceInit /\ [][ChoiceNext]_choiceVars /\ ChoiceFairness

-----------------------------------------------------------------------------
(* What the code guarantees.                                               *)

\* What the user or a project has chosen stays active until one of them chooses
\* again, whatever the sidecar and the polls say meanwhile.
PickStands == picked # NoneYet => active = picked /\ runtimeExplicit

\* The models' spinner never turns for a list nobody is fetching.
LoadingHasRefresh == loadingModels => InFlightOf("refresh") # {}

\* What late answers may not do to the choice of the runtime and its models.
ChoiceSafe == PickStands /\ LoadingHasRefresh

\* When the runtimes have settled, the dot in the top bar comes to tell the
\* truth, although answers about another runtime may have overwritten it.
HealthSettles == <>[](boot = "up" => (healthy <=> active \in answers))

\* What the comments promise beyond that.

\* "While false the active runtime is only a placeholder, and the built-in
\* adopts it as soon as it is ready."
AdoptsWhenReady ==
  (Builtin \in answers /\ ~runtimeExplicit)
     ~> (Builtin \notin answers \/ runtimeExplicit)

\* A model of another runtime "must not linger in the chatbox".
NoLingering ==
  <>[](healthy /\ active \in answers /\ selectedModel # NoneYet
         => selectedModel \in ModelsOf[active])
=============================================================================
