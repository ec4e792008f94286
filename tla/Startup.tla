------------------------------- MODULE Startup -------------------------------
(***************************************************************************)
(* The life of the program (main.cpp, non-portable.cpp): it is launched    *)
(* with a configuration file, perhaps guarded by a process that starts a   *)
(* worker again when it ends, changed at run time by the mapping commands  *)
(* (cmdhandler.cpp), which save the changed configuration to a file named  *)
(* after the hour, and launched again, perhaps from such a file.           *)
(*                                                                         *)
(* Each of the instances an operator may launch side by side consists of   *)
(* the process it launched, which becomes the guard (after daemonize, which*)
(* only replaces the process by a child of it) or is the worker itself.    *)
(***************************************************************************)
EXTENDS ProxyConfig

CONSTANTS
    Instances,
    Hours,              \* the files of the saved configurations
    Documents,          \* what the operator's file may hold
    Keys,               \* the keys of ADDKEYMAPPING and DELKEYMAPPING
    MaxCommands         \* bound: mapping commands in all

ASSUME DocumentsAssumption ==
    /\ \A d \in Documents : IsDocument(d)
    /\ "onecache.xml" \notin Hours
    /\ MaxCommands \in Nat

Files == Hours \union {"onecache.xml"}

VARIABLES
    disk,           \* [Files -> document or NoDocument]
    snapshot,       \* history: the tables in memory when a file was saved
    main,           \* [Instances -> {"off", "guard", "solo"}]
    worker,         \* [Instances -> {"none", "starting", "serving",
                    \*   "exited", "stopped", "crashed"}]: how it ended is seen
                    \*   by the guard; stopped is exit(APP_EXIT_KEY)
    document,       \* [Instances -> document]: m_docPointer of the worker
    loaded,         \* [Instances -> document and configuration]: as the launched
                    \*   process loaded them
    m_slots, m_keyMapping,      \* the worker's tables
    m_groupList,                \* [Instances -> sequence of groups]
    vip,            \* [Instances -> BOOLEAN]: run() took the virtual IP
    changed,        \* history: the worker executed a mapping command
    ended,          \* history: the last worker was stopped, not launched since
    commands

vars == <<disk, snapshot, main, worker, document, loaded, m_slots, m_keyMapping, m_groupList, vip,
          changed, ended, commands>>

NoDocument == [nodes |-> <<>>]
Empty == [k \in {} |-> NoGroup]
Config(i) == loaded[i].config

TypeOK ==
    /\ disk["onecache.xml"] \in Documents
    /\ main \in [Instances -> {"off", "guard", "solo"}]
    /\ worker \in [Instances -> {"none", "starting", "serving", "exited", "stopped", "crashed"}]
    /\ \A i \in Instances :
         /\ main[i] = "solo" => worker[i] \in {"starting", "serving"}
         /\ worker[i] \notin {"starting", "serving"} =>
              m_slots[i] = Empty /\ m_keyMapping[i] = Empty /\ m_groupList[i] = <<>>
         /\ worker[i] = "serving" => isValid(Config(i))
    /\ commands \in 0..MaxCommands

Init ==
    /\ \E d \in Documents : disk = [f \in Files |-> IF f = "onecache.xml" THEN d ELSE NoDocument]
    /\ snapshot = [f \in Hours |-> [slots |-> Empty, keys |-> Empty]]
    /\ main = [i \in Instances |-> "off"]
    /\ worker = [i \in Instances |-> "none"]
    /\ document = [i \in Instances |-> NoDocument]
    /\ loaded = [i \in Instances |-> [document |-> NoDocument]]
    /\ m_slots = [i \in Instances |-> Empty]
    /\ m_keyMapping = [i \in Instances |-> Empty]
    /\ m_groupList = [i \in Instances |-> <<>>]
    /\ vip = [i \in Instances |-> FALSE]
    /\ changed = [i \in Instances |-> FALSE]
    /\ ended = [i \in Instances |-> FALSE]
    /\ commands = 0

-----------------------------------------------------------------------------
\* The worker's process ends and its memory with it.  Its guard sees how, or
\* nobody when the guard is gone or it was not guarded.
Ends(i, how) ==
    /\ worker' = [worker EXCEPT ![i] = IF main[i] = "guard" THEN how ELSE "none"]
    /\ main' = [main EXCEPT ![i] = IF main[i] = "guard" THEN "guard" ELSE "off"]
    /\ m_slots' = [m_slots EXCEPT ![i] = Empty]
    /\ m_keyMapping' = [m_keyMapping EXCEPT ![i] = Empty]
    /\ m_groupList' = [m_groupList EXCEPT ![i] = <<>>]
    /\ document' = [document EXCEPT ![i] = NoDocument]
    /\ vip' = [vip EXCEPT ![i] = FALSE]
    /\ changed' = [changed EXCEPT ![i] = FALSE]
    /\ ended' = [ended EXCEPT ![i] = how = "stopped"]

\* main: a file that cannot be read or is not valid ends the program at once.
Launch(i, f) ==
    /\ main[i] = "off" /\ worker[i] = "none"
    /\ disk[f] # NoDocument
    /\ LET cfg == Load(disk[f]) IN
         /\ isValid(cfg)
         /\ main' = [main EXCEPT ![i] = IF cfg.guard THEN "guard" ELSE "solo"]
         /\ worker' = [worker EXCEPT ![i] = IF cfg.guard THEN "none" ELSE "starting"]
         /\ loaded' = [loaded EXCEPT ![i] = [document |-> disk[f], config |-> cfg]]
    /\ document' = [document EXCEPT ![i] = disk[f]]
    /\ ended' = [ended EXCEPT ![i] = FALSE]
    /\ UNCHANGED <<disk, snapshot, m_slots, m_keyMapping, m_groupList, vip, changed, commands>>

\* guard: fork.  The worker has the configuration as its guard once loaded it.
Fork(i) ==
    /\ main[i] = "guard" /\ worker[i] = "none"
    /\ worker' = [worker EXCEPT ![i] = "starting"]
    /\ document' = [document EXCEPT ![i] = loaded[i].document]
    /\ UNCHANGED <<disk, snapshot, main, loaded, m_slots, m_keyMapping, m_groupList, vip, changed, ended,
                   commands>>

\* fork failed: exit(1).
ForkFails(i) ==
    /\ main[i] = "guard" /\ worker[i] = "none"
    /\ main' = [main EXCEPT ![i] = "off"]
    /\ UNCHANGED <<disk, snapshot, worker, document, loaded, m_slots, m_keyMapping, m_groupList, vip,
                   changed, ended, commands>>

\* Fault: the guard looks at whether the worker exited, not at how.
Reap_AnyExit(i) ==
    /\ main[i] = "guard" /\ worker[i] \in {"exited", "stopped", "crashed"}
    /\ worker' = [worker EXCEPT ![i] = "none"]
    /\ UNCHANGED <<disk, snapshot, main, document, loaded, m_slots, m_keyMapping, m_groupList, vip,
                   changed, ended, commands>>

\* guard: waitpid returns, and a worker that exited with the key is the last.
Reap(i) ==
    /\ main[i] = "guard" /\ worker[i] \in {"exited", "stopped", "crashed"}
    /\ main' = [main EXCEPT ![i] = IF worker[i] = "stopped" THEN "off" ELSE "guard"]
    /\ worker' = [worker EXCEPT ![i] = "none"]
    /\ UNCHANGED <<disk, snapshot, document, loaded, m_slots, m_keyMapping, m_groupList, vip,
                   changed, ended, commands>>

-----------------------------------------------------------------------------
\* TcpServer::run binds the port of the instance, unless another worker has it.
PortFree(i) ==
    \A j \in Instances : worker[j] = "serving" => Config(j).port # Config(i).port

\* RedisProxy::run with what m_vipEnabled is at that time.
run(i, m_vipEnabled) == vip' = [vip EXCEPT ![i] = m_vipEnabled]

\* startOneCache up to exec: the server is run first, with m_vipEnabled as the
\* constructor left it.  A negative number of slots is thrown at by new.
StartServer(i) ==
    LET cfg == Config(i) IN
    /\ worker[i] = "starting"
    /\ IF ~PortFree(i) THEN Ends(i, "stopped") /\ UNCHANGED <<loaded>>
       ELSE IF cfg.hashValueMax < 0 /\ ~cfg.twemproxy
       THEN Ends(i, "crashed") /\ UNCHANGED <<loaded>>
       ELSE /\ run(i, FALSE)
            /\ worker' = [worker EXCEPT ![i] = "serving"]
            /\ m_groupList' = [m_groupList EXCEPT ![i] =
                                  [g \in DOMAIN cfg.groups |-> BuildGroup(cfg.groups[g])]]
            /\ m_slots' = [m_slots EXCEPT ![i] = slotTable(cfg)]
            /\ m_keyMapping' = [m_keyMapping EXCEPT ![i] = keyTable(cfg)]
            /\ UNCHANGED <<main, document, loaded, changed, ended>>
    /\ UNCHANGED <<disk, snapshot, commands>>

\* A command has changed the tables: the mapping is saved, over the file of the
\* same hour.
SaveTo(i, f) ==
    LET doc == saved(document[i], m_slots'[i], m_keyMapping'[i]) IN
    /\ document' = [document EXCEPT ![i] = doc]
    /\ disk' = [disk EXCEPT ![f] = doc]
    /\ snapshot' = [snapshot EXCEPT ![f] =
          [slots |-> m_slots'[i], keys |-> m_keyMapping'[i]]]
    /\ changed' = [changed EXCEPT ![i] = TRUE]
    /\ UNCHANGED <<main, worker, loaded, m_groupList, vip, ended>>

Command(i) ==
    /\ worker[i] = "serving"
    /\ commands < MaxCommands
    /\ commands' = commands + 1

onHashMapping(i, n, group, f) ==
    /\ Command(i)
    /\ n \in DOMAIN m_slots[i] /\ group \in GroupNames(Config(i))
    /\ m_slots' = [m_slots EXCEPT ![i] = setSlot(@, n, group)]
    /\ UNCHANGED m_keyMapping
    /\ SaveTo(i, f)

onAddKeyMapping(i, key, group, f) ==
    /\ Command(i)
    /\ group \in GroupNames(Config(i))
    /\ m_keyMapping' = [m_keyMapping EXCEPT ![i] = addGroupKeyMapping(@, key, group)]
    /\ UNCHANGED m_slots
    /\ SaveTo(i, f)

onDelKeyMapping(i, key, f) ==
    /\ Command(i)
    /\ m_keyMapping' = [m_keyMapping EXCEPT ![i] = removeGroupKeyMapping(@, key)]
    /\ UNCHANGED m_slots
    /\ SaveTo(i, f)

\* SHUTDOWN, SIGTERM and SIGINT: exit(0), or exit(APP_EXIT_KEY) for SHUTDOWN
\* FORCE and SIGINT.
ShutDown(i, force) ==
    /\ worker[i] = "serving"
    /\ Ends(i, IF force THEN "stopped" ELSE "exited")
    /\ UNCHANGED <<disk, snapshot, loaded, commands>>

\* The worker is killed; so does a request to a table of no slots (% 0).
Crash(i) ==
    /\ worker[i] = "serving"
    /\ Ends(i, "crashed")
    /\ UNCHANGED <<disk, snapshot, loaded, commands>>

\* The guard is killed, the process of the pid file when it does not daemonize:
\* its worker goes on.
KillGuard(i) ==
    /\ main[i] = "guard"
    /\ main' = [main EXCEPT ![i] = "off"]
    /\ worker' = [worker EXCEPT ![i] = IF @ \in {"starting", "serving"} THEN @ ELSE "none"]
    /\ UNCHANGED <<disk, snapshot, document, loaded, m_slots, m_keyMapping, m_groupList, vip,
                   changed, ended, commands>>

Groups(i) == IF worker[i] = "serving" THEN GroupNames(Config(i)) ELSE {}

Next ==
    \/ \E i \in Instances, f \in Files : Launch(i, f)
    \/ \E i \in Instances : Fork(i) \/ ForkFails(i) \/ Reap(i) \/ StartServer(i)
    \/ \E i \in Instances, f \in Hours :
         \/ \E n \in DOMAIN m_slots[i], g \in Groups(i) : onHashMapping(i, n, g, f)
         \/ \E k \in Keys, g \in Groups(i) : onAddKeyMapping(i, k, g, f)
         \/ \E k \in Keys : onDelKeyMapping(i, k, f)
    \/ \E i \in Instances, force \in BOOLEAN : ShutDown(i, force)
    \/ \E i \in Instances : Crash(i) \/ KillGuard(i)

Spec == Init /\ [][Next]_vars

-----------------------------------------------------------------------------
Serving(i) == worker[i] = "serving"

\* What the file says of a slot: its last mapping, or else the one range it is
\* in, whatever the order of the groups; and of a key, its first mapping.
MappingOf(cfg, n) == {k \in DOMAIN cfg.hashMapping : cfg.hashMapping[k].value = n}
SlotOwner(cfg, n) ==
    IF MappingOf(cfg, n) # {} THEN cfg.hashMapping[Max(MappingOf(cfg, n))].group
    ELSE (CHOOSE g \in ToSet(cfg.groups) : n \in g.hashMin..g.hashMax).name
EntriesOf(cfg, key) == {k \in DOMAIN cfg.keyMapping : cfg.keyMapping[k].key = key}

\* The names of the hosts that have a role, in the order of the file.
InFileOrder(list, hosts, master) ==
    LET role == {k \in DOMAIN hosts : hosts[k].master = master}
    IN /\ Len(list) = Cardinality(role)
       /\ \A k \in role : list[Cardinality(role \intersect 1..k)] = hosts[k].name

\* A worker serves what the file it was launched from says until a command
\* changes it: one that was started again after a crash as well.  And always a
\* valid configuration leaves no slot without a group: neither a request nor
\* saving meets a NULL.  A group has every host of the file in one role.
AsConfigured ==
    /\ TypeOK
    /\ \A i \in Instances : Serving(i) =>
        /\ \A n \in DOMAIN m_slots[i] : m_slots[i][n] \in Groups(i)
        /\ \A k \in DOMAIN m_keyMapping[i] : m_keyMapping[i][k] \in Groups(i)
        /\ \A g \in DOMAIN m_groupList[i] :
             LET group == m_groupList[i][g]
                 hosts == Config(i).groups[g].hosts
             IN /\ group.name = Config(i).groups[g].name
                /\ Len(hosts) <= MaxServantCount =>
                     InFileOrder(group.m_master, hosts, TRUE) /\ InFileOrder(group.m_slaver, hosts, FALSE)
    /\ \A i \in Instances : Serving(i) /\ ~changed[i] =>
        LET cfg == Config(i) IN
        /\ ~cfg.twemproxy =>
             m_slots[i] = [n \in 0..(cfg.hashValueMax - 1) |-> SlotOwner(cfg, n)]
        /\ DOMAIN m_keyMapping[i] = {e.key : e \in ToSet(cfg.keyMapping)} \ {""}
        /\ \A k \in DOMAIN m_keyMapping[i] :
             m_keyMapping[i][k] = cfg.keyMapping[Min(EntriesOf(cfg, k))].group

\* The round trip: a saved file can be loaded, and gives the tables that were
\* saved, unless the original has several key mappings or another spelling of
\* the name, of which saving replaces one only.  In twemproxy mode the slots
\* are not read back.
KeyNodes(doc) == Children(doc, "key_mapping")
SavedRestores ==
    \A f \in Hours : disk[f] # NoDocument =>
        LET cfg == Load(disk[f]) IN
        /\ isValid(cfg)
        /\ ~cfg.twemproxy => slotTable(cfg) = snapshot[f].slots
        /\ Len(KeyNodes(disk[f])) = 1 => keyTable(cfg) = snapshot[f].keys

\* What was stopped stays stopped until it is launched again.
StoppedForGood ==
    \A i \in Instances : ended[i] => worker[i] \notin {"starting", "serving"}
=============================================================================
