------------------------------- MODULE Relay -------------------------------
(***************************************************************************)
(* Presence and mailboxes of the relay (relay.rs, tools/relay.rs) and the  *)
(* daemon that listens on one (daemon.rs).                                 *)
(*                                                                         *)
(* A node is a process together with the id it announces: an MCP server,   *)
(* which reads its mail when relay.list is called, or a daemon, which      *)
(* polls.  A server works on several calls at a time; a daemon has its one *)
(* loop.  Nothing is locked: a file operation is a step, and the steps of  *)
(* all calls and loops interleave.  read_dir yields what was there when it *)
(* was opened, atomic_write is one step, and a removed directory loses its *)
(* files in one step, or some of them when the removal fails midway.       *)
(*                                                                         *)
(* updated_at is reduced to whether it is within TTL_SECS of now.          *)
(***************************************************************************)
EXTENDS Naturals

CONSTANTS
    Servers,        \* MCP server processes
    Daemons,        \* daemons, each with its own agent id
    Calls,          \* bound: the calls the servers work on at a time
    Server,         \* the server of each call
    Messages,       \* messages, each sent at most once
    Heartbeat,      \* HEARTBEAT_EVERY_N_POLLS
    MaxCrashes      \* bound: process exits in one behaviour

Nodes == Servers \cup Daemons
Threads == Calls \cup Daemons
Nobody == "nobody"

ASSUME NobodyIsNoNode == Nobody \notin Nodes
ASSUME NodesDisjoint == Servers \cap Daemons = {}
ASSUME CallsDisjoint == Calls \cap Daemons = {}
ASSUME ServerType == Server \in [Calls -> Servers]
ASSUME HeartbeatType == Heartbeat \in Nat \ {0, 1}
ASSUME MaxCrashesType == MaxCrashes \in Nat

\* The node a call or loop runs in: relay::instance_id() or the agent_id.
NodeOf(t) == IF t \in Daemons THEN t ELSE Server[t]

VARIABLES
    presence,       \* <id>.json of each node: none, fresh or stale
    inbox,          \* <id>.inbox of each node: messages
    pc,             \* what each call or loop is doing
    scan,           \* list: presence files it has still to read
    target,         \* send: recipient; prune: the id being removed
    letter,         \* send: the message, as a set
    mail,           \* drain: files seen and not yet read
    file,           \* drain: the file read and not yet removed, as a set
    hand,           \* messages read and not yet handled
    polls,          \* daemon: polls since the last announcement
    crashes,        \* exits so far
    to,             \* history: recipient of each delivered message
    handled,        \* history: messages returned by list or dispatched
    again,          \* history: those handled a second time
    exposed,        \* history: in an inbox under removal, or in hand at an exit
    spoilt,         \* history: the file could not be read or parsed
    stuck,          \* history: the file could not be removed
    shared          \* history: read by two calls before either removed it

diskVars == <<presence, inbox>>
drainVars == <<mail, file, hand>>
history == <<to, handled, again, exposed, spoilt, stuck, shared>>
vars == <<presence, inbox, pc, scan, target, letter, mail, file, hand, polls, crashes,
          to, handled, again, exposed, spoilt, stuck, shared>>

\* The shape of the state.
TypeOK ==
    /\ presence \in [Nodes -> {"none", "fresh", "stale"}]
    /\ inbox \in [Nodes -> SUBSET Messages]
    /\ pc \in [Threads -> {"down", "idle", "send", "list", "prune", "pruneInbox",
                           "poll", "drain", "remove", "dispatch"}]
    /\ scan \in [Threads -> SUBSET Nodes]
    /\ target \in [Threads -> Nodes \cup {Nobody}]
    /\ letter \in [Threads -> SUBSET Messages]
    /\ mail \in [Threads -> SUBSET Messages]
    /\ file \in [Threads -> SUBSET Messages]
    /\ hand \in [Threads -> SUBSET Messages]
    /\ polls \in [Daemons -> 0..(Heartbeat - 1)]
    /\ crashes \in 0..MaxCrashes
    /\ to \in [Messages -> Nodes \cup {Nobody}]
    /\ handled \in SUBSET Messages
    /\ again \in SUBSET Messages
    /\ exposed \in SUBSET Messages
    /\ spoilt \in SUBSET Messages
    /\ stuck \in SUBSET Messages
    /\ shared \in SUBSET Messages

Init ==
    /\ presence = [n \in Nodes |-> "none"]
    /\ inbox = [n \in Nodes |-> {}]
    /\ pc = [t \in Threads |-> "idle"]
    /\ scan = [t \in Threads |-> {}]
    /\ target = [t \in Threads |-> Nobody]
    /\ letter = [t \in Threads |-> {}]
    /\ mail = [t \in Threads |-> {}]
    /\ file = [t \in Threads |-> {}]
    /\ hand = [t \in Threads |-> {}]
    /\ polls = [d \in Daemons |-> 0]
    /\ crashes = 0
    /\ to = [m \in Messages |-> Nobody]
    /\ handled = {}
    /\ again = {}
    /\ exposed = {}
    /\ spoilt = {}
    /\ stuck = {}
    /\ shared = {}

Goto(t, l) == pc' = [pc EXCEPT ![t] = l]

\* is_live.
Live(n) == presence[n] = "fresh"

\* The inbox of n may be removed at any moment: a list has found n stale, or the
\* next one will.
Condemned(n) ==
    \/ presence[n] = "stale"
    \/ \E t \in Threads : pc[t] \in {"prune", "pruneInbox"} /\ target[t] = n

-----------------------------------------------------------------------------

\* relay.announce of a server.
Announce(t) ==
    /\ pc[t] = "idle"
    /\ t \in Calls
    /\ presence' = [presence EXCEPT ![NodeOf(t)] = "fresh"]
    /\ UNCHANGED <<inbox, pc, scan, target, letter, drainVars, polls, crashes, history>>

\* relay.send: the recipient must look alive, else delivered is false.
SendCheck(t, r, m) ==
    /\ pc[t] = "idle"
    /\ t \in Calls
    /\ Live(r)
    /\ to[m] = Nobody
    /\ \A u \in Threads : m \notin letter[u]
    /\ target' = [target EXCEPT ![t] = r]
    /\ letter' = [letter EXCEPT ![t] = {m}]
    /\ Goto(t, "send")
    /\ UNCHANGED <<diskVars, scan, drainVars, polls, crashes, history>>

\* The file appears in the inbox, whatever became of the recipient since.
SendWrite(t) ==
    /\ pc[t] = "send"
    /\ inbox' = [inbox EXCEPT ![target[t]] = @ \cup letter[t]]
    /\ to' = [m \in Messages |-> IF m \in letter[t] THEN target[t] ELSE to[m]]
    /\ exposed' = IF Condemned(target[t]) THEN exposed \cup letter[t] ELSE exposed
    /\ letter' = [letter EXCEPT ![t] = {}]
    /\ target' = [target EXCEPT ![t] = Nobody]
    /\ Goto(t, "idle")
    /\ UNCHANGED <<presence, scan, drainVars, polls, crashes, handled, again, spoilt,
                   stuck, shared>>

\* The write fails (the inbox is being removed, the disk is full): send returns
\* an error, the message is in nobody's inbox and its sender may try again.
SendError(t) ==
    /\ pc[t] = "send"
    /\ letter' = [letter EXCEPT ![t] = {}]
    /\ target' = [target EXCEPT ![t] = Nobody]
    /\ Goto(t, "idle")
    /\ UNCHANGED <<diskVars, scan, drainVars, polls, crashes, history>>

\* relay.list: the directory of presence files is opened.
ListBegin(t) ==
    /\ pc[t] = "idle"
    /\ t \in Calls
    /\ scan' = [scan EXCEPT ![t] = {k \in Nodes : presence[k] # "none"}]
    /\ Goto(t, "list")
    /\ UNCHANGED <<diskVars, target, letter, drainVars, polls, crashes, history>>

\* Mutant: the liveness test is inverted.
ListReadInverted(t, k) ==
    /\ pc[t] = "list"
    /\ k \in scan[t]
    /\ scan' = [scan EXCEPT ![t] = @ \ {k}]
    /\ IF presence[k] = "fresh"
       THEN target' = [target EXCEPT ![t] = k] /\ Goto(t, "prune")
       ELSE UNCHANGED <<target, pc>>
    /\ UNCHANGED <<diskVars, letter, drainVars, polls, crashes, history>>

\* One presence file is read, the caller's own included; a stale one is pruned.
ListRead(t, k) ==
    /\ pc[t] = "list"
    /\ k \in scan[t]
    /\ scan' = [scan EXCEPT ![t] = @ \ {k}]
    /\ IF presence[k] = "stale"
       THEN target' = [target EXCEPT ![t] = k] /\ Goto(t, "prune")
       ELSE UNCHANGED <<target, pc>>
    /\ UNCHANGED <<diskVars, letter, drainVars, polls, crashes, history>>

\* prune: remove the presence file ...
Prune(t) ==
    /\ pc[t] = "prune"
    /\ \/ presence' = [presence EXCEPT ![target[t]] = "none"]
       \/ UNCHANGED presence                \* let _ = remove_file(..) failed
    /\ Goto(t, "pruneInbox")
    /\ UNCHANGED <<inbox, scan, target, letter, drainVars, polls, crashes, history>>

\* ... and the inbox, or as much of it as can be removed.
PruneInbox(t) ==
    /\ pc[t] = "pruneInbox"
    /\ \E left \in SUBSET inbox[target[t]] : inbox' = [inbox EXCEPT ![target[t]] = left]
    /\ target' = [target EXCEPT ![t] = Nobody]
    /\ Goto(t, "list")
    /\ UNCHANGED <<presence, scan, letter, drainVars, polls, crashes, history>>

\* Mutant: the daemon announces itself at every poll and forgets to drain.
PollWithoutDrain(d) ==
    /\ pc[d] = "idle"
    /\ d \in Daemons
    /\ polls' = [polls EXCEPT ![d] = (@ + 1) % Heartbeat]
    /\ presence' = [presence EXCEPT ![d] = "fresh"]
    /\ Goto(d, "drain")
    /\ UNCHANGED <<inbox, scan, target, letter, drainVars, crashes, history>>

\* A tick of the daemon: it announces itself on the first of every Heartbeat
\* polls, or fails to, and turns to its inbox.
Poll(d) ==
    /\ pc[d] = "idle"
    /\ d \in Daemons
    /\ polls' = [polls EXCEPT ![d] = (@ + 1) % Heartbeat]
    /\ \/ polls[d] = 0 /\ presence' = [presence EXCEPT ![d] = "fresh"]
       \/ UNCHANGED presence
    /\ Goto(d, "poll")
    /\ UNCHANGED <<inbox, scan, target, letter, drainVars, crashes, history>>

\* drain_inbox opens the inbox: in a poll, or when the scan of list is over and
\* RelayListHandler turns to the caller's mail.
Drain(t) ==
    /\ pc[t] = "poll" \/ (pc[t] = "list" /\ scan[t] = {})
    /\ mail' = [mail EXCEPT ![t] = inbox[NodeOf(t)]]
    /\ Goto(t, "drain")
    /\ UNCHANGED <<diskVars, scan, target, letter, file, hand, polls, crashes, history>>

\* Another call holds m, and its file is still to be removed.
HeldElsewhere(t, m) == \E u \in Threads \ {t} : m \in hand[u] \cap file[u]

\* drain_inbox turns to one of the files seen.  It is read, or it is there and
\* cannot be read or parsed, or it is gone.
ReadMail(t, m) ==
    /\ pc[t] = "drain"
    /\ m \in mail[t]
    /\ mail' = [mail EXCEPT ![t] = @ \ {m}]
    /\ file' = [file EXCEPT ![t] = {m}]
    /\ \/ /\ m \in inbox[NodeOf(t)]
          /\ hand' = [hand EXCEPT ![t] = @ \cup {m}]
          /\ shared' = IF HeldElsewhere(t, m) THEN shared \cup {m} ELSE shared
          /\ UNCHANGED spoilt
       \/ /\ m \in inbox[NodeOf(t)]
          /\ spoilt' = spoilt \cup {m}
          /\ UNCHANGED <<hand, shared>>
       \/ /\ m \notin inbox[NodeOf(t)]
          /\ UNCHANGED <<hand, shared, spoilt>>
    /\ Goto(t, "remove")
    /\ UNCHANGED <<diskVars, scan, target, letter, polls, crashes, to, handled, again,
                   exposed, stuck>>

\* Mutant: the file stays when it has been read.
RemoveMailNever(t) ==
    /\ pc[t] = "remove"
    /\ file' = [file EXCEPT ![t] = {}]
    /\ Goto(t, "drain")
    /\ UNCHANGED <<diskVars, scan, target, letter, mail, hand, polls, crashes, history>>

\* The file is removed, whether it could be read or not.  A failure to remove it
\* is ignored, and the next drain finds it again.
RemoveMail(t) ==
    /\ pc[t] = "remove"
    /\ file' = [file EXCEPT ![t] = {}]
    /\ \/ /\ inbox' = [inbox EXCEPT ![NodeOf(t)] = @ \ file[t]]
          /\ UNCHANGED stuck
       \/ /\ stuck' = stuck \cup (inbox[NodeOf(t)] \cap file[t])
          /\ UNCHANGED inbox
    /\ Goto(t, "drain")
    /\ UNCHANGED <<presence, scan, target, letter, mail, hand, polls, crashes, to, handled,
                   again, exposed, spoilt, shared>>

\* relay.list returns the mail to its caller.
ListReturn(t) ==
    /\ pc[t] = "drain"
    /\ t \in Calls
    /\ mail[t] = {}
    /\ handled' = handled \cup hand[t]
    /\ again' = again \cup (handled \cap hand[t])
    /\ hand' = [hand EXCEPT ![t] = {}]
    /\ Goto(t, "idle")
    /\ UNCHANGED <<diskVars, scan, target, letter, mail, file, polls, crashes, to, exposed,
                   spoilt, stuck, shared>>

\* The daemon has drained its inbox and turns to the messages, or to nothing.
DispatchBegin(d) ==
    /\ pc[d] = "drain"
    /\ d \in Daemons
    /\ mail[d] = {}
    /\ Goto(d, "dispatch")
    /\ UNCHANGED <<diskVars, scan, target, letter, drainVars, polls, crashes, history>>

\* One message is dispatched and its result, if any, stored.
Dispatch(d, m) ==
    /\ pc[d] = "dispatch"
    /\ m \in hand[d]
    /\ hand' = [hand EXCEPT ![d] = @ \ {m}]
    /\ handled' = handled \cup {m}
    /\ again' = again \cup (handled \cap {m})
    /\ UNCHANGED <<diskVars, pc, scan, target, letter, mail, file, polls, crashes, to,
                   exposed, spoilt, stuck, shared>>

\* All dispatched: wait for the next tick.
DispatchEnd(d) ==
    /\ pc[d] = "dispatch"
    /\ hand[d] = {}
    /\ Goto(d, "idle")
    /\ UNCHANGED <<diskVars, scan, target, letter, drainVars, polls, crashes, history>>

\* TTL_SECS pass since n announced itself.
Expire(n) ==
    /\ presence[n] = "fresh"
    /\ presence' = [presence EXCEPT ![n] = "stale"]
    /\ exposed' = exposed \cup inbox[n]
    /\ UNCHANGED <<inbox, pc, scan, target, letter, drainVars, polls, crashes, to, handled,
                   again, spoilt, stuck, shared>>

\* What the threads of n had is gone.
Dropped(f, n) == [t \in Threads |-> IF NodeOf(t) = n THEN {} ELSE f[t]]

\* The process ends, with what its calls had in hand.  A server that is started
\* again has a new id, hence is another node; a daemon keeps its name.
Crash(n) ==
    /\ \E t \in Threads : NodeOf(t) = n /\ pc[t] # "down"
    /\ crashes < MaxCrashes
    /\ crashes' = crashes + 1
    /\ scan' = Dropped(scan, n)
    /\ target' = [t \in Threads |-> IF NodeOf(t) = n THEN Nobody ELSE target[t]]
    /\ letter' = Dropped(letter, n)
    /\ mail' = Dropped(mail, n)
    /\ file' = Dropped(file, n)
    /\ hand' = Dropped(hand, n)
    /\ polls' = [d \in Daemons |-> IF d = n THEN 0 ELSE polls[d]]
    /\ exposed' = exposed \cup {m \in Messages :
                      m \notin inbox[n] /\ \E t \in Threads : NodeOf(t) = n /\ m \in hand[t]}
    /\ pc' = [t \in Threads |-> IF NodeOf(t) # n THEN pc[t]
                                ELSE IF n \in Servers THEN "down" ELSE "idle"]
    /\ UNCHANGED <<diskVars, to, handled, again, spoilt, stuck, shared>>

\* What a call or a tick does by itself once it has begun.
Work(t) ==
    \/ SendWrite(t)
    \/ SendError(t)
    \/ \E k \in Nodes : ListRead(t, k)
    \/ Prune(t)
    \/ PruneInbox(t)
    \/ Drain(t)
    \/ RemoveMail(t)
    \/ ListReturn(t)
    \/ DispatchBegin(t)
    \/ DispatchEnd(t)
    \/ \E m \in Messages : ReadMail(t, m) \/ Dispatch(t, m)

Next ==
    \/ \E t \in Threads :
        \/ Work(t)
        \/ Poll(t)
        \/ Announce(t)
        \/ ListBegin(t)
        \/ \E r \in Nodes, m \in Messages : SendCheck(t, r, m)
    \/ \E n \in Nodes : Expire(n) \/ Crash(n)

Safety == Init /\ [][Next]_vars

\* A call that has begun is finished and the interval of a daemon keeps ticking;
\* nobody has to call the tools.
Spec == Safety /\ \A t \in Threads : WF_vars(Work(t)) /\ WF_vars(Poll(t))

-----------------------------------------------------------------------------

\* A delivered message is in its recipient's inbox, in the hands of one of its
\* calls or handled, whatever listers prune, senders write and other calls drain.
\* It is lost only if its file could not be read, if it lay in the inbox or was
\* put there while the recipient was stale or under removal, or if the process
\* ended with it.
PresentNodeLosesNoMail ==
    \A m \in Messages : \A n \in Nodes :
        to[m] = n /\ m \notin exposed \cup spoilt =>
            \/ m \in inbox[n] \cup handled
            \/ \E t \in Threads : NodeOf(t) = n /\ m \in hand[t]

\* drain_inbox hands out a message twice only if its file could not be removed,
\* or if two calls of one server read it before either had removed it: a daemon,
\* whose loop is alone, dispatches nothing twice, also over restarts.
MailIsHandledOnce ==
    /\ again \subseteq stuck \cup shared
    /\ \A m \in shared : to[m] \in Servers

\* A message delivered to a daemon is eventually dispatched, unless one of the
\* losses of PresentNodeLosesNoMail befalls it.
DaemonHandlesItsMail ==
    \A m \in Messages : \A n \in Daemons :
        to[m] = n ~> m \in handled \cup exposed \cup spoilt
=============================================================================
