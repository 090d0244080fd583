---------------------------- MODULE ProjectConfig ----------------------------
(***************************************************************************)
(* A project's .aka/config.json: load_config and save_config               *)
(* (src-tauri/src/commands/project_config.rs), the store that holds the    *)
(* open project's copy (src/stores/use-project-config-store.ts), the       *)
(* projects that are opened, imported and removed                          *)
(* (src/stores/use-projects-store.ts) and the effect that links the two    *)
(* (src/AppShell.tsx).                                                     *)
(*                                                                         *)
(* A configuration is a value for the agent block, one for all the rest,   *)
(* and the stamp of the project it was last opened as.  A value is where   *)
(* it comes from.  Files are inodes: a rename moves a name, and a writer   *)
(* goes on writing to the inode it has opened.                             *)
(***************************************************************************)
EXTENDS Naturals, FiniteSets

CONSTANTS
  Projects,       \* folders
  Imported,       \* those that are in the list when the program starts, with a
                  \* configuration; a folder that is not has none
  NoProject,
  MaxOpens,       \* bound: openings, imports and removals
  MaxConfigSaves, \* bound: calls of save_config
  MaxSettings,    \* bound: settings changed, by hand or in the program
  MaxCrashes      \* bound: ends of the program in mid-flight

ASSUME ProjectConfigConstants ==
  /\ Imported \subseteq Projects /\ Projects \cap ({NoProject} \cup 0 .. MaxConfigSaves) = {}
  /\ {MaxOpens, MaxConfigSaves, MaxSettings, MaxCrashes} \subseteq Nat

VARIABLES
  listedProjects,        \* the projects in the list
  opened,                \* the active project of the projects store
  memPath,               \* projectPath of the configuration store
  mem,                   \* its config: a set with at most one configuration
  configLoading, broken, \* its flags; broken: error is not null
  opens,                 \* calls of switchProject
  seeds,                 \* imported projects whose scaffold is still to be written
  configSaves,           \* calls of save_config
  inode,                 \* what each inode holds
  file, tmp,             \* each project's config.json and config.json.tmp
  settings,              \* settings changed so far
  crashes,
  steady                 \* whether the user waits for one thing to end before the
                         \* next, and imports nothing

configVars == <<listedProjects, opened, memPath, mem, configLoading, broken,
                opens, seeds, configSaves, inode, file, tmp, settings, crashes,
                steady>>

Anyone == Projects \cup {NoProject}
OpenIds == 1 .. MaxOpens
SaveIds == 1 .. MaxConfigSaves
ConfigInodes == Projects \cup (0 .. MaxConfigSaves)    \* 0: no file

Default == <<"default", 0>>
Global == <<"global", 0>>     \* last picked, in whatever project
Values == {Default, Global} \cup (Projects \X (0 .. MaxSettings))
Configs == [agent : Values, rest : Values, stamp : Anyone]
DefaultConfig == [agent |-> Default, rest |-> Default, stamp |-> NoProject]
BlankFor(p) == [DefaultConfig EXCEPT !.stamp = p]
OwnConfig(p) == [agent |-> <<p, 0>>, rest |-> <<p, 0>>, stamp |-> p]

\* "cut": truncated, not yet written.  "mixed": two writers' bytes.  "broken":
\* the user's own mistake.
Content == [kind : {"whole", "cut", "mixed", "broken"}, config : Configs]
Whole(c) == [kind |-> "whole", config |-> c]
CutSave == [kind |-> "cut", config |-> DefaultConfig]

SavePhases == {"none", "issued", "open", "written", "done", "failed", "lost", "over"}
OpenPhases == {"none", "saving", "loading", "loaded", "healing", "over"}
Savers == {"setting", "opening", "reset", "seed"}

ConfigTypeOK ==
  /\ listedProjects \subseteq Projects /\ opened \in Anyone /\ memPath \in Anyone
  /\ mem \subseteq Configs /\ Cardinality(mem) <= 1
  /\ configLoading \in BOOLEAN /\ broken \in BOOLEAN /\ steady \in BOOLEAN
  /\ opens \in [OpenIds -> [phase : OpenPhases, to : Anyone, save : 0 .. MaxConfigSaves,
                            got : Content]]
  /\ seeds \subseteq Projects
  /\ configSaves \in [SaveIds -> [phase : SavePhases, by : Savers, path : Anyone,
                            config : Configs, fd : ConfigInodes]]
  /\ inode \in [ConfigInodes -> Content]
  /\ file \in [Projects -> ConfigInodes] /\ tmp \in [Projects -> ConfigInodes]
  /\ settings \in 0 .. MaxSettings /\ crashes \in 0 .. MaxCrashes

ConfigInit ==
  /\ listedProjects = Imported /\ opened = NoProject /\ memPath = NoProject
  /\ mem = {} /\ configLoading = FALSE /\ broken = FALSE
  /\ opens = [k \in OpenIds |-> [phase |-> "none", to |-> NoProject, save |-> 0, got |-> CutSave]]
  /\ seeds = {}
  /\ configSaves = [i \in SaveIds |-> [phase |-> "none", by |-> "seed", path |-> NoProject,
                                 config |-> DefaultConfig, fd |-> 0]]
  /\ inode = [i \in ConfigInodes |-> IF i \in Projects THEN Whole(OwnConfig(i)) ELSE CutSave]
  /\ file = [p \in Projects |-> IF p \in Imported THEN p ELSE 0]
  /\ tmp = [p \in Projects |-> 0]
  /\ settings = 0 /\ crashes = 0
  /\ steady \in BOOLEAN

CallInFlight(i) ==
  \/ configSaves[i].phase \in {"issued", "open", "written"}
  \/ configSaves[i].phase = "done" /\ configSaves[i].by = "reset"
Opening(k) == opens[k].phase \notin {"none", "over"}
Idle == seeds = {} /\ (\A i \in SaveIds : ~CallInFlight(i)) /\ (\A k \in OpenIds : ~Opening(k))
MayAct == steady => Idle

NextSave(i) ==
  configSaves[i].phase = "none" /\ \A j \in 1 .. i - 1 : configSaves[j].phase # "none"
Issue(i, by, p, c) ==
  /\ NextSave(i)
  /\ configSaves' = [configSaves EXCEPT ![i] = [phase |-> "issued", by |-> by, path |-> p,
                                    config |-> c, fd |-> 0]]
CallEnded(i) == configSaves[i].phase \in {"done", "failed"}

-----------------------------------------------------------------------------
(* save_config, and what else changes the files.                           *)

memoryVars == <<listedProjects, opened, memPath, mem, configLoading, opens, seeds>>

\* The directory cannot be made, or the temporary file not be opened.  Only a
\* setting's or a reset's error is shown.
SaveFails(i) ==
  /\ configSaves[i].phase = "issued"
  /\ configSaves' = [configSaves EXCEPT ![i].phase = "failed"]
  /\ broken' = (broken \/ configSaves[i].by \in {"setting", "reset"})
  /\ UNCHANGED <<memoryVars, inode, file, tmp, settings, crashes, steady>>

\* Opened and truncated; a slip writes the file in its place.
TargetInPlace(p) == file
Target(p) == tmp

OpenTmp(i) ==
  /\ configSaves[i].phase = "issued"
  /\ LET p == configSaves[i].path
         there == Target(p)[p]
         fd == IF there = 0 THEN i ELSE there
     IN  /\ tmp' = IF Target(p) = tmp THEN [tmp EXCEPT ![p] = fd] ELSE tmp
         /\ inode' = [inode EXCEPT ![fd] = CutSave]
         /\ configSaves' = [configSaves EXCEPT ![i].phase = "open", ![i].fd = fd]
  /\ UNCHANGED <<memoryVars, broken, file, settings, crashes, steady>>

\* Over another writer's bytes the shorter of the two texts does not cover the
\* longer one.
WriteTmp(i) ==
  /\ configSaves[i].phase = "open"
  /\ LET fd == configSaves[i].fd
     IN  \E kind \in IF inode[fd].kind = "cut" THEN {"whole"} ELSE {"whole", "mixed"} :
           inode' = [inode EXCEPT ![fd] = [kind |-> kind, config |-> configSaves[i].config]]
  /\ configSaves' = [configSaves EXCEPT ![i].phase = "written"]
  /\ UNCHANGED <<memoryVars, broken, file, tmp, settings, crashes, steady>>

\* The temporary file may have been renamed by another call.
RenameTmp(i) ==
  /\ configSaves[i].phase = "written"
  /\ LET p == configSaves[i].path
     IN  IF tmp[p] = 0
         THEN /\ configSaves' = [configSaves EXCEPT ![i].phase = "failed"]
              /\ broken' = (broken \/ configSaves[i].by \in {"setting", "reset"})
              /\ UNCHANGED <<file, tmp>>
         ELSE /\ file' = [file EXCEPT ![p] = tmp[p]]
              /\ tmp' = [tmp EXCEPT ![p] = 0]
              /\ configSaves' = [configSaves EXCEPT ![i].phase = "done"]
              /\ UNCHANGED broken
  /\ UNCHANGED <<memoryVars, inode, settings, crashes, steady>>

\* The settings that have no control in the program are edited in the file.
HandEdit(p) ==
  /\ MayAct /\ settings < MaxSettings /\ file[p] # 0 /\ inode[file[p]].kind = "whole"
  /\ settings' = settings + 1
  /\ \E c \in {Whole([inode[file[p]].config EXCEPT !.rest = <<p, settings'>>]),
               [kind |-> "broken", config |-> DefaultConfig]} :
       inode' = [inode EXCEPT ![file[p]] = c]
  /\ UNCHANGED <<memoryVars, broken, configSaves, file, tmp, crashes, steady>>

AppCrashesSaving ==
  /\ crashes < MaxCrashes /\ crashes' = crashes + 1
  /\ opened' = NoProject /\ memPath' = NoProject /\ mem' = {}
  /\ configLoading' = FALSE /\ broken' = FALSE /\ seeds' = {}
  /\ opens' = [k \in OpenIds |->
                 IF Opening(k) THEN [opens[k] EXCEPT !.phase = "over"] ELSE opens[k]]
  /\ configSaves' = [i \in SaveIds |->
                 IF CallInFlight(i) THEN [configSaves[i] EXCEPT !.phase = "lost"] ELSE configSaves[i]]
  /\ UNCHANGED <<listedProjects, inode, file, tmp, settings, steady>>

-----------------------------------------------------------------------------
(* The stores.                                                             *)

filesVars == <<inode, file, tmp>>

\* switchProject: an outgoing configuration is saved first.  Then the path is that
\* of the incoming project, while the outgoing configuration stays in memory.
Entered(k, q, calls) ==
  /\ memPath' = q /\ broken' = FALSE
  /\ configLoading' = (q # NoProject)
  /\ mem' = IF q = NoProject THEN {} ELSE mem
  /\ opens' = [calls EXCEPT ![k].phase = IF q = NoProject THEN "over" ELSE "loading"]

SwitchTo(q) ==
  /\ opened' = q
  /\ \E k \in OpenIds :
       LET begun == [opens EXCEPT ![k].phase = "saving", ![k].to = q] IN
       /\ opens[k].phase = "none" /\ \A j \in 1 .. k - 1 : opens[j].phase # "none"
       /\ \/ /\ memPath = NoProject \/ mem = {}
             /\ Entered(k, q, begun)
             /\ UNCHANGED configSaves
          \/ /\ memPath # NoProject
             /\ \E i \in SaveIds, c \in mem :
                  /\ Issue(i, "opening", memPath, c)
                  /\ opens' = [begun EXCEPT ![k].save = i]
             /\ UNCHANGED <<memPath, mem, configLoading, broken>>
  /\ UNCHANGED <<filesVars, settings, crashes, steady>>

SelectProject(q) ==
  /\ MayAct /\ q \in listedProjects /\ q # opened
  /\ SwitchTo(q) /\ UNCHANGED <<listedProjects, seeds>>

\* addProject: the folder is opened at once, its file written some calls later.
Import(q) ==
  /\ ~steady /\ q \notin listedProjects
  /\ listedProjects' = listedProjects \cup {q} /\ seeds' = seeds \cup {q}
  /\ SwitchTo(q)

RemoveProject(p) ==
  /\ MayAct /\ p \in listedProjects /\ p = opened
  /\ listedProjects' = listedProjects \ {p} /\ SwitchTo(NoProject) /\ UNCHANGED seeds

Seed(q) ==
  /\ q \in seeds /\ seeds' = seeds \ {q}
  /\ \E i \in SaveIds, agent \in {Default, Global} :
       Issue(i, "seed", q, [BlankFor(q) EXCEPT !.agent = agent])
  /\ UNCHANGED <<listedProjects, opened, memPath, mem, configLoading, broken,
                 opens, filesVars, settings, crashes, steady>>

Outgoing(k) ==
  /\ opens[k].phase = "saving" /\ CallEnded(opens[k].save)
  /\ Entered(k, opens[k].to, opens)
  /\ UNCHANGED <<listedProjects, opened, seeds, configSaves, filesVars, settings, crashes,
                 steady>>

\* load_from_disk: no file and an empty one are the defaults.
ReadFile(p) ==
  IF file[p] = 0 \/ inode[file[p]].kind = "cut" THEN Whole(DefaultConfig) ELSE inode[file[p]]

LoadConfig(k) ==
  /\ opens[k].phase = "loading"
  /\ opens' = [opens EXCEPT ![k].phase = "loaded", ![k].got = ReadFile(opens[k].to)]
  /\ UNCHANGED <<listedProjects, opened, memPath, mem, configLoading, broken,
                 seeds, configSaves, filesVars, settings, crashes, steady>>

\* healFromGlobals fills an empty agent block, once an agent is known.
Heals(c) == {c} \cup (IF c.agent = Default THEN {[c EXCEPT !.agent = Global]} ELSE {})

\* What cannot be parsed leaves the defaults in memory, and an error; a slip
\* forgets that the loading is over.
StillLoading == configLoading
LoadingAfterError == FALSE

\* A slip holds the new configuration beside the old one.
HeldBeside(c) == mem \cup {c}
Held(c) == {c}

OnConfigLoaded(k) ==
  /\ opens[k].phase = "loaded"
  /\ LET q == opens[k].to IN
     \/ /\ opens[k].got.kind # "whole"
        /\ mem' = {BlankFor(q)} /\ configLoading' = LoadingAfterError /\ broken' = TRUE
        /\ opens' = [opens EXCEPT ![k].phase = "over"]
        /\ UNCHANGED configSaves
     \/ /\ opens[k].got.kind = "whole"
        /\ \E c \in Heals([opens[k].got.config EXCEPT !.stamp = q]) :
             IF c = opens[k].got.config
             THEN /\ mem' = Held(c) /\ configLoading' = FALSE
                  /\ opens' = [opens EXCEPT ![k].phase = "over"]
                  /\ UNCHANGED configSaves
             ELSE /\ \E i \in SaveIds :
                       /\ Issue(i, "opening", q, c)
                       /\ opens' = [opens EXCEPT ![k].phase = "healing", ![k].save = i,
                                                 ![k].got = Whole(c)]
                  /\ UNCHANGED <<mem, configLoading>>
        /\ UNCHANGED broken
  /\ UNCHANGED <<listedProjects, opened, memPath, seeds, filesVars, settings,
                 crashes, steady>>

OnHealed(k) ==
  /\ opens[k].phase = "healing" /\ CallEnded(opens[k].save)
  /\ mem' = Held(opens[k].got.config) /\ configLoading' = FALSE
  /\ opens' = [opens EXCEPT ![k].phase = "over"]
  /\ UNCHANGED <<listedProjects, opened, memPath, broken, seeds, configSaves,
                 filesVars, settings, crashes, steady>>

\* A setter saves what it has made of the whole configuration; a slip saves what
\* there was before.
PersistedOld(old, new) == old
Persisted(old, new) == new

Change(slot) ==
  /\ MayAct /\ opened # NoProject /\ memPath # NoProject /\ settings < MaxSettings
  /\ settings' = settings + 1
  /\ \E c \in mem, i \in SaveIds :
       LET next == [c EXCEPT ![slot] = <<opened, settings'>>]
       IN  /\ mem' = {next}
           /\ Issue(i, "setting", memPath, Persisted(c, next))
  /\ UNCHANGED <<listedProjects, opened, memPath, configLoading, broken, opens,
                 seeds, filesVars, crashes, steady>>

\* resetToDefaults, offered with the error.
ResetConfig ==
  /\ MayAct /\ broken /\ memPath # NoProject
  /\ \E i \in SaveIds : Issue(i, "reset", memPath, BlankFor(memPath))
  /\ UNCHANGED <<listedProjects, opened, memPath, mem, configLoading, broken,
                 opens, seeds, filesVars, settings, crashes, steady>>

OnReset(i) ==
  /\ configSaves[i].phase = "done" /\ configSaves[i].by = "reset"
  /\ configSaves' = [configSaves EXCEPT ![i].phase = "over"]
  /\ mem' = {configSaves[i].config} /\ broken' = FALSE
  /\ UNCHANGED <<listedProjects, opened, memPath, configLoading, opens, seeds,
                 filesVars, settings, crashes, steady>>

ConfigNext ==
  \/ AppCrashesSaving \/ ResetConfig
  \/ \E p \in Projects : HandEdit(p) \/ SelectProject(p) \/ Import(p) \/ RemoveProject(p) \/ Seed(p)
  \/ \E i \in SaveIds : SaveFails(i) \/ OpenTmp(i) \/ WriteTmp(i) \/ RenameTmp(i) \/ OnReset(i)
  \/ \E k \in OpenIds : Outgoing(k) \/ LoadConfig(k) \/ OnConfigLoaded(k) \/ OnHealed(k)
  \/ \E slot \in {"agent", "rest"} : Change(slot)

ConfigSpec == ConfigInit /\ [][ConfigNext]_configVars

-----------------------------------------------------------------------------
(* What the code guarantees.                                               *)

\* "The canonical name is never partial": for a user who waits, whatever fails
\* and whenever the program ends.
AllWhole == \A p \in Projects : file[p] = 0 \/ inode[file[p]].kind \in {"whole", "broken"}
NeverPartial == steady => AllWhole

\* "No state is ever lost between project switches": once everything is over, a
\* user who waits finds each project's own last settings in its file.
Failed == \E i \in SaveIds : configSaves[i].phase \in {"failed", "lost"}
NothingLost ==
  steady /\ Idle /\ ~Failed /\ memPath # NoProject /\ file[memPath] # 0
    /\ inode[file[memPath]].kind = "whole" =>
    \A c \in mem : c.stamp = memPath /\ c.agent = inode[file[memPath]].config.agent

\* The pane never waits for a configuration that nothing is bringing.
LoadingHasCall ==
  configLoading => \E k \in OpenIds : opens[k].phase \in {"loading", "loaded", "healing"}

\* For a user who waits, a project's settings are whole, its own, and shown.
ConfigSafe == NeverPartial /\ NothingLost /\ LoadingHasCall

\* What the comments promise beyond that.

\* "Source of truth for the active project's config.json": a project's file
\* holds no other project's settings.
ConfigsStayApart ==
  \A p, q \in Projects : p # q =>
    \A n \in 0 .. MaxSettings : <<q, n>> \notin {inode[file[p]].config.agent,
                                                 inode[file[p]].config.rest}

\* "A crash mid-write leaves either the old file intact or the temp file as evidence".
AlwaysWhole == AllWhole

\* The settings edited "at the .aka/config.json level" are kept.
HandEditsKept ==
  [][\A p \in Projects, n \in 1 .. MaxSettings :
       steady /\ inode[file[p]].config.rest = <<p, n>> /\ settings' = settings
         => inode'[file'[p]].config.rest \in {<<p, m>> : m \in n .. MaxSettings}]_configVars

\* An import does not overwrite the configuration a folder comes with.
ImportKeepsFile ==
  [][\A i \in SaveIds, p \in Projects :
       configSaves[i].by = "seed" /\ file'[p] = i /\ file[p] # i => file[p] = 0]_configVars
=============================================================================
