------------------------------- MODULE MCFiles -------------------------------
(***************************************************************************)
(* Instances for TLC of what keeps files and lists on the user's behalf:   *)
(* an open file with its editors, the boundary of the project's edits, the *)
(* configurations of projects, the downloads of models, the search for     *)
(* them, and the list of MCP servers.  They share no state in the models,  *)
(* so each is explored while the others stay as they begin.                *)
(***************************************************************************)
EXTENDS FileEdits, Sandbox, ProjectConfig, Downloads, ModelSearch, McpServers, TLC

CONSTANTS r1, r2, q1, q2, ma

Kind(nested, sharded, quant) == [nested |-> nested, sharded |-> sharded, quant |-> quant]
MCTree ==
  (r1 :> {Kind(FALSE, FALSE, q1), Kind(FALSE, TRUE, q2)}) @@
  (r2 :> {Kind(FALSE, FALSE, q2), Kind(TRUE, FALSE, q1), Kind(FALSE, FALSE, NoLabel)})
MCOwner == (r1 :> "a") @@ (r2 :> "b")

VARIABLE focus

keptVars == <<focus, fileVars, sandboxVars, configVars, downloadVars, searchVars,
              serverVars>>

\* Of the lists of servers, none and a full one.
KeptInit ==
  /\ focus \in {"edits", "sandbox", "config", "downloads", "search", "servers"}
  /\ FilesInit /\ SandboxInit /\ ConfigInit /\ DownloadsInit /\ SearchInit /\ ServersInit
  /\ focus # "config" => steady
  /\ focus # "servers" => onDisk = NothingListed
  /\ onDisk \in {NothingListed, [n \in ServerNames |-> ma]}

Only(component, Step, vars) == focus = component /\ Step /\ UNCHANGED vars

KeptNext ==
  /\ \/ Only("edits", FilesNext,
             <<sandboxVars, configVars, downloadVars, searchVars, serverVars>>)
     \/ Only("sandbox", SandboxNext,
             <<fileVars, configVars, downloadVars, searchVars, serverVars>>)
     \/ Only("config", ConfigNext,
             <<fileVars, sandboxVars, downloadVars, searchVars, serverVars>>)
     \/ Only("downloads", DownloadsNext,
             <<fileVars, sandboxVars, configVars, searchVars, serverVars>>)
     \/ Only("search", SearchNext,
             <<fileVars, sandboxVars, configVars, downloadVars, serverVars>>)
     \/ Only("servers", ServersNext,
             <<fileVars, sandboxVars, configVars, downloadVars, searchVars>>)
  /\ UNCHANGED focus

KeptSpec == KeptInit /\ [][KeptNext]_keptVars

\* An edit lands where it was meant to, under the boundary of the project in view,
\* and no editor shows a text that the disk has not.
FilesSafe == NoStaleView /\ BoundarySafe

\* A model is downloaded whole or not at all; what the search offers of the hub's
\* models is there; the registry has the tools of the servers that are listed.
ModelsSafe == DownloadsSafe /\ SearchSafe /\ ServersSafe

KeptTypeOK == FilesTypeOK /\ SandboxTypeOK /\ ConfigTypeOK /\ DownloadsTypeOK
              /\ SearchTypeOK /\ ServersTypeOK
=============================================================================
