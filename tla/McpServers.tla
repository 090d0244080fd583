----------------------------- MODULE McpServers -----------------------------
(***************************************************************************)
(* The list of MCP servers of                                              *)
(* src/features/10-plugin-system/use-mcp-store.ts, the cache of their      *)
(* tools behind it (src-tauri/src/commands/mcp.rs), which the registry     *)
(* reads, and the list on disk.                                            *)
(*                                                                         *)
(* Calls of one server are told apart by nothing: the answer of a          *)
(* discovery is taken whatever has become of the server meanwhile.  A      *)
(* server's tools are named by the command that offers them; a discovery   *)
(* itself is McpDiscovery.                                                 *)
(***************************************************************************)
EXTENDS Naturals, Sequences, SequencesExt

CONSTANTS
  ServerNames, ServerCommands,
  Unset,    \* no entry, no tools
  MaxCalls, \* bound: discoveries and removals the user begins
  MaxLists  \* bound: writes of the list under way

ASSUME ServerConstants ==
  /\ Unset \notin ServerCommands /\ IsFiniteSet(ServerNames)
  /\ MaxCalls \in Nat /\ MaxLists \in Nat

VARIABLES
  servers,      \* the command saved for each name
  statusByName, \* what the panel shows of it
  cache,        \* McpToolCache
  boot,         \* bootstrap: "off", "loading", "up"
  toBoot,       \* the servers it has yet to discover
  asked,        \* discoveries under way
  forgets,      \* mcp_forget calls under way
  lists,        \* writes of the list under way, in the order they were begun
  onDisk,       \* the list on disk
  calls,        \* how many calls the user began
  met,          \* history: names on which a call was begun while another was due
  misordered    \* history: writes crossed, or one was begun before the list was read

serverVars == <<servers, statusByName, cache, boot, toBoot, asked, forgets, lists,
                onDisk, calls, met, misordered>>

ServerLists == [ServerNames -> ServerCommands \cup {Unset}]
NothingListed == [n \in ServerNames |-> Unset]
Saved == [name : ServerNames, command : ServerCommands]
Discovery == [server : Saved, pc : {"runs", "found", "failed"}, boot : BOOLEAN]
NotShown == [state |-> "none", tools |-> Unset]

ServersTypeOK ==
  /\ servers \in ServerLists /\ cache \in ServerLists /\ onDisk \in ServerLists
  /\ statusByName \in [ServerNames ->
       [state : {"none", "idle", "connecting", "connected", "error"},
        tools : ServerCommands \cup {Unset}]]
  /\ boot \in {"off", "loading", "up"}
  /\ toBoot \in Seq(Saved) /\ asked \in Seq(Discovery) /\ forgets \in Seq(ServerNames)
  /\ lists \in Seq(ServerLists)
  /\ calls \in 0 .. MaxCalls /\ met \subseteq ServerNames /\ misordered \in BOOLEAN

ServersInit ==
  /\ onDisk \in ServerLists
  /\ servers = NothingListed /\ cache = NothingListed
  /\ statusByName = [n \in ServerNames |-> NotShown]
  /\ boot = "off" /\ toBoot = <<>> /\ asked = <<>> /\ forgets = <<>> /\ lists = <<>>
  /\ calls = 0 /\ met = {} /\ misordered = FALSE

\* A call on the server is under way, or bootstrap may yet begin one.
Called(n) == n \in ToSet(forgets) \/ \E d \in ToSet(asked) : d.server.name = n
Due(n) == boot # "up" \/ Called(n) \/ \E s \in ToSet(toBoot) : s.name = n
Gesture(n) ==
  /\ boot # "off" /\ calls < MaxCalls /\ calls' = calls + 1
  /\ met' = IF Due(n) THEN met \cup {n} ELSE met

\* discover(): the status is shown at once.
Shown(state, tools) == [state |-> state, tools |-> tools]
Asking(server, atBoot) ==
  /\ asked' = Append(asked, [server |-> server, pc |-> "runs", boot |-> atBoot])
  /\ statusByName' = [statusByName EXCEPT ![server.name] = Shown("connecting", Unset)]

\* A slip: the list as it was before the change.
PersistBefore(list) ==
  /\ Len(lists) < MaxLists /\ lists' = Append(lists, servers)
  /\ misordered' = (misordered \/ boot # "up")
\* persistServers, which nobody waits for.
Persist(list) ==
  /\ Len(lists) < MaxLists /\ lists' = Append(lists, list)
  /\ misordered' = (misordered \/ boot # "up")

-----------------------------------------------------------------------------
Bootstrap ==
  /\ boot = "off" /\ boot' = "loading"
  /\ UNCHANGED <<servers, statusByName, cache, toBoot, asked, forgets, lists, onDisk,
                 calls, met, misordered>>

\* What was read replaces the list and the statuses; the servers are discovered
\* one after another.
Restored(list) ==
  [n \in ServerNames |-> IF list[n] = Unset THEN NotShown ELSE Shown("idle", Unset)]
Restore ==
  /\ boot = "loading" /\ boot' = "up"
  /\ servers' = onDisk /\ statusByName' = Restored(onDisk)
  /\ toBoot' \in SetToSeqs({s \in Saved : onDisk[s.name] = s.command})
  /\ UNCHANGED <<cache, asked, forgets, lists, onDisk, calls, met, misordered>>

DiscoverNext ==
  /\ toBoot # <<>> /\ \A d \in ToSet(asked) : ~d.boot
  /\ Asking(Head(toBoot), TRUE) /\ toBoot' = Tail(toBoot)
  /\ met' = IF Called(Head(toBoot).name) THEN met \cup {Head(toBoot).name} ELSE met
  /\ UNCHANGED <<servers, cache, boot, forgets, lists, onDisk, calls, misordered>>

AddServer(n, command) ==
  /\ Gesture(n)
  /\ servers' = [servers EXCEPT ![n] = command]
  /\ Persist(servers')
  /\ Asking([name |-> n, command |-> command], FALSE)
  /\ UNCHANGED <<cache, boot, toBoot, forgets, onDisk>>

\* Its button is off while the server is shown connecting.
Rediscover(n) ==
  /\ servers[n] # Unset /\ statusByName[n].state # "connecting"
  /\ Gesture(n)
  /\ Asking([name |-> n, command |-> servers[n]], FALSE)
  /\ UNCHANGED <<servers, cache, boot, toBoot, forgets, lists, onDisk, misordered>>

\* A slip: a removal that leaves the tools in the cache.
RemoveServerKeepsTools(n) ==
  /\ servers[n] # Unset /\ Gesture(n)
  /\ servers' = [servers EXCEPT ![n] = Unset]
  /\ statusByName' = [statusByName EXCEPT ![n] = NotShown]
  /\ Persist(servers')
  /\ UNCHANGED <<cache, boot, toBoot, asked, forgets, onDisk>>
RemoveServer(n) ==
  /\ servers[n] # Unset /\ Gesture(n)
  /\ servers' = [servers EXCEPT ![n] = Unset]
  /\ statusByName' = [statusByName EXCEPT ![n] = NotShown]
  /\ Persist(servers')
  /\ forgets' = Append(forgets, n)
  /\ UNCHANGED <<cache, boot, toBoot, asked, onDisk>>

-----------------------------------------------------------------------------
\* mcp_discover: only a success changes the cache.
Ends(i, how) ==
  /\ i \in DOMAIN asked /\ asked[i].pc = "runs"
  /\ asked' = [asked EXCEPT ![i].pc = how]
  /\ cache' = IF how = "found"
              THEN [cache EXCEPT ![asked[i].server.name] = asked[i].server.command]
              ELSE cache
  /\ UNCHANGED <<servers, statusByName, boot, toBoot, forgets, lists, onDisk, calls, met,
                 misordered>>

\* A slip: a discovery that failed is not reported.
ReplyOfSuccess(i) ==
  /\ i \in DOMAIN asked /\ asked[i].pc # "runs"
  /\ statusByName' = IF asked[i].pc = "found"
       THEN [statusByName EXCEPT ![asked[i].server.name] =
               Shown("connected", asked[i].server.command)]
       ELSE statusByName
  /\ asked' = RemoveAt(asked, i)
  /\ UNCHANGED <<servers, cache, boot, toBoot, forgets, lists, onDisk, calls, met,
                 misordered>>
Reply(i) ==
  /\ i \in DOMAIN asked /\ asked[i].pc # "runs"
  /\ statusByName' = [statusByName EXCEPT ![asked[i].server.name] =
       IF asked[i].pc = "found" THEN Shown("connected", asked[i].server.command)
       ELSE Shown("error", Unset)]
  /\ asked' = RemoveAt(asked, i)
  /\ UNCHANGED <<servers, cache, boot, toBoot, forgets, lists, onDisk, calls, met,
                 misordered>>

Forget(i) ==
  /\ i \in DOMAIN forgets
  /\ cache' = [cache EXCEPT ![forgets[i]] = Unset]
  /\ forgets' = RemoveAt(forgets, i)
  /\ UNCHANGED <<servers, statusByName, boot, toBoot, asked, lists, onDisk, calls, met,
                 misordered>>

Lands(i) ==
  /\ i \in DOMAIN lists
  /\ onDisk' = lists[i] /\ lists' = RemoveAt(lists, i)
  /\ misordered' = (misordered \/ i # 1)
  /\ UNCHANGED <<servers, statusByName, cache, boot, toBoot, asked, forgets, calls, met>>

ServersNext ==
  \/ Bootstrap \/ Restore \/ DiscoverNext
  \/ \E n \in ServerNames :
       \/ \E command \in ServerCommands : AddServer(n, command)
       \/ Rediscover(n) \/ RemoveServer(n)
  \/ \E i \in DOMAIN asked : Ends(i, "found") \/ Ends(i, "failed") \/ Reply(i)
  \/ \E i \in DOMAIN forgets : Forget(i)
  \/ \E i \in DOMAIN lists : Lands(i)

ServersSpec == ServersInit /\ [][ServersNext]_serverVars

-----------------------------------------------------------------------------
(* Unless a call on a server was begun while another was due, the registry *)
(* has no tools of a server the user removed, and what the panel shows of  *)
(* a connected one is what the registry has and what the user configured.  *)
RegistryFollowsList ==
  \A n \in ServerNames \ met : ~Due(n) =>
    /\ servers[n] = Unset => cache[n] = Unset /\ statusByName[n] = NotShown
    /\ statusByName[n].state = "connected" =>
         cache[n] = servers[n] /\ statusByName[n].tools = servers[n]

(* A server in the list has been tried: once nothing is due, its row shows *)
(* how that ended, and never an endless "Connecting".                      *)
EachWasTried ==
  \A n \in ServerNames \ met : ~Due(n) /\ servers[n] # Unset =>
    statusByName[n].state \in {"connected", "error"}

(* Writes of the list that land in the order they were begun, after the    *)
(* list was read, leave on disk what the user sees.                        *)
DiskFollowsList ==
  boot = "up" /\ lists = <<>> /\ ~misordered => onDisk = servers

ServersSafe == RegistryFollowsList /\ EachWasTried /\ DiskFollowsList
=============================================================================
