--------------------------- MODULE InterfaceProxy ---------------------------
(***************************************************************************)
(* CPVInterfaceProxy: an engine runs in a thread of its own ("pv") and is  *)
(* used from an application thread ("app").  Clients send commands, which  *)
(* the handler, an AO of the pv thread, gives to the interface's server;   *)
(* servers send notifications, which the notifier, an AO of the app thread *)
(* if that has a scheduler, gives to the client.  A queue is under its own *)
(* lock, and so is the list of interfaces.                                 *)
(*                                                                         *)
(* The two queues and their AOs have the same code: they are indexed by    *)
(* the AO's side, "handler" or "notifier".                                 *)
(***************************************************************************)
EXTENDS Naturals, Sequences, FiniteSets

CONSTANTS
    NumInterfaces, \* bound: how many interfaces are registered in all
    NumMessages,   \* bound: how many messages are sent in all
    Uses,          \* how the proxy is used
    NoMsg          \* "no message"

(* A use bounds the registrations, the messages and the starts of the pv   *)
(* thread, and says whether the app thread has a scheduler, whether        *)
(* messages are cancelled and interfaces unregistered, and whether         *)
(* HandleCommand may leave.                                                *)
ASSUME BoundsAssumption ==
    /\ NumInterfaces \in Nat /\ NumMessages \in Nat
    /\ Uses \subseteq [interfaces : 0 .. NumInterfaces, messages : 0 .. NumMessages,
                      starts : Nat, appScheduler : BOOLEAN, cancels : BOOLEAN,
                      unregisters : BOOLEAN, leaves : BOOLEAN]
    /\ NoMsg \notin [id : Nat, proxy : Nat]

VARIABLES
    iProxyIdCounter,
    slots,      \* the memory of iProxyList
    size,       \* its size
    iProxyListCrit,
    iCommandIdCounter,
    queue,      \* iCommandQueue and iNotificationQueue
    crit,       \* iHandlerQueueCrit and iNotifierQueueCrit
    added,      \* whether the AO is added to a scheduler
    req,        \* its request, as in ActiveObjects
    use,        \* chosen once
    starts,     \* how often the thread was started
    iStopped,
    stopping,   \* the pv scheduler was told to stop
    iExitedSem,
    pc,         \* where each thread is
    msg,        \* the message a thread took out of its queue
    ptr,        \* what FindInterface returned to it, an index of slots
    arg,        \* what its call is about
    handled,    \* the messages given to HandleCommand, HandleNotification
    cleaned,    \* those given to CleanupCommand, CleanupNotification
    lost        \* those given to neither

list == <<iProxyIdCounter, slots, size>>
sent == <<iCommandIdCounter, queue>>
locks == <<iProxyListCrit, crit>>
aos == <<added, req>>
life == <<use, starts, iStopped, stopping, iExitedSem>>
calls == <<msg, ptr, arg>>
fates == <<handled, cleaned, lost>>
vars == <<list, sent, locks, aos, life, pc, calls, fates>>

Side == {"handler", "notifier"}
Thread == {"app", "pv"}
Sender(s) == IF s = "handler" THEN "app" ELSE "pv"
Runner(s) == IF s = "handler" THEN "pv" ELSE "app"
Free == "free"   \* a lock nobody holds
All == 0         \* aAll of CleanupCommands and CleanupNotifications

Interface == 1 .. NumInterfaces
Ids(q) == {q[i].id : i \in DOMAIN q}
Registered == {slots[i] : i \in 1 .. size}

(* Interfaces are registered before the thread is started, and later.      *)
Init == /\ iProxyIdCounter = 0
        /\ slots = <<>>
        /\ size = 0
        /\ iProxyListCrit = Free
        /\ iCommandIdCounter = 0
        /\ queue = [s \in Side |-> <<>>]
        /\ crit = [s \in Side |-> Free]
        /\ added = [s \in Side |-> FALSE]
        /\ req = [s \in Side |-> "idle"]
        /\ use \in Uses
        /\ starts = 0
        /\ iStopped = TRUE
        /\ stopping = FALSE
        /\ iExitedSem = 0
        /\ pc = [t \in Thread |-> IF t = "app" THEN "idle" ELSE "none"]
        /\ msg = [t \in Thread |-> NoMsg]
        /\ ptr = [t \in Thread |-> 0]
        /\ arg = [t \in Thread |-> All]
        /\ handled = [s \in Side |-> <<>>]
        /\ cleaned = {}
        /\ lost = {}

Goto(t, label) == pc' = [pc EXCEPT ![t] = label]

(* FindInterface: the interfaces are distinct, so it is a lookup.          *)
Find(p) == CHOOSE i \in 1 .. size : slots[i] = p

(* Where a thread runs the code of the application or of the engine.       *)
Calling(t) == pc[t] \in {"idle", "handle"} \cup {"start", "logoff"}
-----------------------------------------------------------------------------
(* The interfaces.                                                         *)

RegisterProxiedInterface ==
    /\ pc["app"] = "idle"
    /\ iProxyListCrit = Free
    /\ iProxyIdCounter < use.interfaces
    /\ iProxyIdCounter' = iProxyIdCounter + 1
    /\ size' = size + 1
    /\ slots' = SubSeq(slots, 1, size) \o <<iProxyIdCounter'>>
                \o SubSeq(slots, size + 2, Len(slots))
    /\ UNCHANGED <<locks, sent, aos, life, pc, calls, fates>>

Erased(m, p, id) == m.proxy = p /\ id \in {All, m.id}

(* Mutant: the index is not stepped back after a message is removed.       *)
Left_NoStepBack(q, p, id) ==
    LET gone[i \in 0 .. Len(q)] == i > 0 /\ Erased(q[i], p, id) /\ ~gone[i - 1]
        kept == {i \in DOMAIN q : ~gone[i]}
    IN  SelectSeq(q, LAMBDA m : \E i \in kept : q[i] = m)

(* The messages of queue q that are not erased.                            *)
Left(q, p, id) ==
    LET left[i \in 0 .. Len(q)] ==
            IF i = 0 THEN <<>>
            ELSE IF Erased(q[i], p, id) THEN left[i - 1]
            ELSE Append(left[i - 1], q[i])
    IN  left[Len(q)]

(* Mutant: the cleanup routine is not called.                              *)
Cleanup_Forgets(s, i, id) ==
    /\ crit[s] = Free
    /\ queue' = [queue EXCEPT ![s] = Left(@, slots[i], id)]
    /\ UNCHANGED cleaned

(* CleanupCommands and CleanupNotifications, of the interface that the     *)
(* pointer i now points to.                                                *)
Cleanup(s, i, id) ==
    /\ crit[s] = Free
    /\ queue' = [queue EXCEPT ![s] = Left(@, slots[i], id)]
    /\ cleaned' = cleaned \cup (Ids(queue[s]) \ Ids(queue'[s]))

Unregister(p) ==
    /\ use.unregisters
    /\ pc["app"] = "idle"
    /\ iProxyListCrit = Free
    /\ p \in Registered
    /\ iProxyListCrit' = "app"
    /\ ptr' = [ptr EXCEPT !["app"] = Find(p)]
    /\ Goto("app", "uncommand")
    /\ UNCHANGED <<list, sent, crit, aos, life, msg, arg, fates>>

UnregisterCommands ==
    /\ pc["app"] = "uncommand"
    /\ Cleanup("handler", ptr["app"], All)
    /\ Goto("app", "unnotify")
    /\ UNCHANGED <<list, locks, iCommandIdCounter, aos, life, calls, handled,
                   lost>>

(* The erased element's memory keeps its last value.  No step can come     *)
(* between the cleanup and the erase that could not come after both: the   *)
(* list stays locked, and who sends does not read it.                      *)
UnregisterNotifications ==
    /\ pc["app"] = "unnotify"
    /\ Cleanup("notifier", ptr["app"], All)
    /\ slots' = [i \in DOMAIN slots |->
                    IF i \in ptr["app"] .. size - 1 THEN slots[i + 1]
                    ELSE slots[i]]
    /\ size' = size - 1
    /\ iProxyListCrit' = Free
    /\ Goto("app", "idle")
    /\ UNCHANGED <<iProxyIdCounter, iCommandIdCounter, crit, aos, life, calls,
                   handled, lost>>
-----------------------------------------------------------------------------
(* Sending and cancelling.                                                 *)

(* A client knows whether its interface is registered, and uses it between *)
(* the start and the stop of the thread; a server learns that it is not    *)
(* only by not getting commands.                                           *)
MaySend(s, p) ==
    /\ Calling(Sender(s))
    /\ s = "handler" => ~iStopped
    /\ \/ p \in Registered
       \/ s = "notifier" /\ pc["pv"] = "handle" /\ msg["pv"].proxy = p

(* Mutant: the AO is signalled for the second message.                     *)
Signals_Second(s) == Len(queue[s]) = 1

Signals(s) == queue[s] = <<>> /\ (s = "notifier" => added[s])

(* PendComplete leaves, with the lock held, if no request is pending.      *)
Send(s, p) ==
    /\ MaySend(s, p)
    /\ crit[s] = Free
    /\ iCommandIdCounter < use.messages
    /\ iCommandIdCounter' = iCommandIdCounter + 1
    /\ queue' = [queue EXCEPT ![s] =
                    Append(@, [id |-> iCommandIdCounter', proxy |-> p])]
    /\ IF Signals(s)
       THEN IF req[s] = "pending"
            THEN req' = [req EXCEPT ![s] = "ready"] /\ UNCHANGED crit
            ELSE crit' = [crit EXCEPT ![s] = Sender(s)] /\ UNCHANGED req
       ELSE UNCHANGED <<req, crit>>
    /\ UNCHANGED <<list, iProxyListCrit, added, life, pc, calls, fates>>

(* CancelCommand(s), CancelAllCommands, CancelNotification, ...            *)
Cancel(s, p, id) ==
    LET t == Sender(s)
    IN  /\ use.cancels
        /\ pc[t] = "idle"
        /\ iProxyListCrit = Free
        /\ p \in Registered
        /\ ptr' = [ptr EXCEPT ![t] = Find(p)]
        /\ arg' = [arg EXCEPT ![t] = id]
        /\ Goto(t, "cancel")
        /\ UNCHANGED <<list, locks, sent, aos, life, msg, fates>>

CancelCleanup(s) ==
    LET t == Sender(s)
    IN  /\ pc[t] = "cancel"
        /\ Cleanup(s, ptr[t], arg[t])
        /\ Goto(t, "idle")
        /\ UNCHANGED <<list, locks, iCommandIdCounter, aos, life, calls,
                       handled, lost>>
-----------------------------------------------------------------------------
(* Run of the handler and the notifier.                                    *)

RunBegins(s) ==
    /\ pc[Runner(s)] = "idle"
    /\ req[s] = "ready"
    /\ req' = [req EXCEPT ![s] = "idle"]
    /\ Goto(Runner(s), "run")
    /\ UNCHANGED <<list, locks, sent, added, life, calls, fates>>

(* Mutant: the newest message is taken.                                    *)
TakeFirst_Last(s, t) ==
    /\ queue[s] # <<>>
    /\ msg' = [msg EXCEPT ![t] = queue[s][Len(queue[s])]]
    /\ queue' = [queue EXCEPT ![s] = SubSeq(@, 1, Len(@) - 1)]
    /\ Goto(t, "find")

TakeFirst(s, t) ==
    /\ queue[s] # <<>>
    /\ msg' = [msg EXCEPT ![t] = Head(queue[s])]
    /\ queue' = [queue EXCEPT ![s] = Tail(@)]
    /\ Goto(t, "find")

NextRequest(rest) == IF rest = <<>> THEN "pending" ELSE "ready"

RunTakes(s) ==
    LET t == Runner(s)
    IN  /\ pc[t] = "run"
        /\ crit[s] = Free
        /\ \/ TakeFirst(s, t)
           \/ queue[s] = <<>> /\ Goto(t, "idle") /\ UNCHANGED <<queue, msg>>
        /\ req' = [req EXCEPT ![s] = NextRequest(queue'[s])]
        /\ UNCHANGED <<list, locks, iCommandIdCounter, added, life, ptr, arg,
                       fates>>

(* An app thread without a scheduler polls.                                *)
DeliverNotifications ==
    /\ ~use.appScheduler
    /\ pc["app"] = "idle"
    /\ crit["notifier"] = Free
    /\ TakeFirst("notifier", "app")
    /\ UNCHANGED <<list, locks, iCommandIdCounter, aos, life, ptr, arg, fates>>

(* An interface that is not found is a debug assertion, and nothing in a   *)
(* release build.                                                          *)
FindInterface(t) ==
    /\ pc[t] = "find"
    /\ iProxyListCrit = Free
    /\ IF msg[t].proxy \in Registered
       THEN /\ ptr' = [ptr EXCEPT ![t] = Find(msg[t].proxy)]
            /\ Goto(t, "call")
            /\ UNCHANGED <<msg, lost>>
       ELSE /\ lost' = lost \cup {msg[t].id}
            /\ msg' = [msg EXCEPT ![t] = NoMsg]
            /\ Goto(t, "idle")
            /\ UNCHANGED ptr
    /\ UNCHANGED <<list, locks, sent, aos, life, arg, handled, cleaned>>

(* HandleCommand, HandleNotification.                                      *)
Handle(s) ==
    LET t == Runner(s)
    IN  /\ pc[t] = "call"
        /\ handled' = [handled EXCEPT ![s] = Append(@, msg[t].id)]
        /\ Goto(t, "handle")
        /\ UNCHANGED <<list, locks, sent, aos, life, calls, cleaned, lost>>

HandleReturns(t) ==
    /\ pc[t] = "handle"
    /\ msg' = [msg EXCEPT ![t] = NoMsg]
    /\ Goto(t, "idle")
    /\ UNCHANGED <<list, locks, sent, aos, life, ptr, arg, fates>>
-----------------------------------------------------------------------------
(* Start and stop of the pv thread, by the app thread.                     *)

StartPVThread ==
    /\ pc["app"] = "idle"
    /\ iStopped
    /\ starts < use.starts
    /\ starts' = starts + 1
    /\ iStopped' = FALSE
    /\ added' = [added EXCEPT !["notifier"] = use.appScheduler]
    /\ req' = [req EXCEPT !["notifier"] =
                 IF use.appScheduler THEN "pending" ELSE "idle"]
    /\ pc' = [pc EXCEPT !["app"] = "startwait", !["pv"] = "start"]
    /\ UNCHANGED <<list, locks, sent, use, stopping, iExitedSem, calls,
                   fates>>

(* InThread up to the loop: the logon is in "start".                       *)
InThread ==
    /\ pc["pv"] = "start"
    /\ added' = [added EXCEPT !["handler"] = TRUE]
    /\ req' = [req EXCEPT !["handler"] = "pending"]
    /\ pc' = [pc EXCEPT !["app"] = "idle", !["pv"] = "idle"]
    /\ UNCHANGED <<list, locks, sent, life, calls, fates>>

StopPVThread ==
    /\ pc["app"] = "idle"
    /\ ~iStopped
    /\ crit["notifier"] = Free
    /\ added' = [added EXCEPT !["notifier"] = FALSE]
    /\ req' = [req EXCEPT !["notifier"] = "idle"]
    /\ stopping' = TRUE
    /\ Goto("app", "stopwait")
    /\ UNCHANGED <<list, locks, sent, use, starts, iStopped, iExitedSem,
                   calls, fates>>

StopReturns ==
    /\ pc["app"] = "stopwait"
    /\ iExitedSem > 0
    /\ iExitedSem' = iExitedSem - 1
    /\ iStopped' = TRUE
    /\ stopping' = FALSE
    /\ Goto("app", "idle")
    /\ UNCHANGED <<list, locks, sent, aos, use, starts, calls, fates>>

(* The loop ends when it is stopped, or because a Run leaves.              *)
LoopEnds ==
    /\ \/ pc["pv"] = "idle" /\ stopping
       \/ pc["pv"] = "handle" /\ use.leaves
    /\ msg' = [msg EXCEPT !["pv"] = NoMsg]
    /\ Goto("pv", "lock")
    /\ UNCHANGED <<list, locks, sent, aos, life, ptr, arg, fates>>

CleanupPVThreadQueues ==
    /\ pc["pv"] = "lock"
    /\ crit["notifier"] = Free
    /\ crit' = [crit EXCEPT !["notifier"] = "pv"]
    /\ Goto("pv", "clean")
    /\ UNCHANGED <<list, iProxyListCrit, sent, aos, life, calls, fates>>

CleanupMore == queue["notifier"] # <<>>

(* Mutant: the notification is not erased.                                 *)
CleanupOne_Keeps ==
    /\ pc["pv"] = "clean"
    /\ CleanupMore
    /\ iProxyListCrit = Free
    /\ cleaned' = cleaned \cup {Head(queue["notifier"]).id}
    /\ UNCHANGED <<list, locks, sent, aos, life, pc, calls, handled, lost>>

CleanupOne ==
    /\ pc["pv"] = "clean"
    /\ CleanupMore
    /\ iProxyListCrit = Free
    /\ LET m == Head(queue["notifier"])
       IN  IF m.proxy \in Registered
           THEN cleaned' = cleaned \cup {m.id} /\ UNCHANGED lost
           ELSE lost' = lost \cup {m.id} /\ UNCHANGED cleaned
    /\ queue' = [queue EXCEPT !["notifier"] = Tail(@)]
    /\ UNCHANGED <<list, locks, iCommandIdCounter, aos, life, pc, calls,
                   handled>>

CleanupEnds ==
    /\ pc["pv"] = "clean"
    /\ ~CleanupMore
    /\ crit' = [crit EXCEPT !["notifier"] = Free]
    /\ Goto("pv", "logoff")
    /\ UNCHANGED <<list, iProxyListCrit, sent, aos, life, calls, fates>>

(* After the logoff the handler is removed and the thread exits.           *)
ThreadExits ==
    /\ pc["pv"] = "logoff"
    /\ crit["handler"] = Free
    /\ added' = [added EXCEPT !["handler"] = FALSE]
    /\ req' = [req EXCEPT !["handler"] = "idle"]
    /\ iExitedSem' = iExitedSem + 1
    /\ Goto("pv", "none")
    /\ UNCHANGED <<list, locks, sent, use, starts, iStopped, stopping,
                   calls, fates>>

(* The destructor, after StopPVThread: CleanupAppThreadQueues.             *)
Delete ==
    /\ pc["app"] = "idle"
    /\ iStopped
    /\ crit["handler"] = Free /\ iProxyListCrit = Free
    /\ LET known == {i \in DOMAIN queue["handler"] :
                        queue["handler"][i].proxy \in Registered}
       IN  cleaned' = cleaned \cup {queue["handler"][i].id : i \in known}
    /\ queue' = [queue EXCEPT !["handler"] = <<>>]
    /\ lost' = lost \cup (Ids(queue["handler"]) \ cleaned')
    /\ size' = 0
    /\ Goto("app", "deleted")
    /\ UNCHANGED <<iProxyIdCounter, slots, locks, iCommandIdCounter, aos, life,
                   calls, handled>>
-----------------------------------------------------------------------------
(* What the threads do once a call or a Run has begun.                     *)
AppStep == \/ UnregisterCommands
           \/ UnregisterNotifications
           \/ CancelCleanup("handler")
           \/ RunBegins("notifier")
           \/ RunTakes("notifier")
           \/ FindInterface("app")
           \/ Handle("notifier")
           \/ HandleReturns("app")
           \/ StopReturns

PVStep == \/ CancelCleanup("notifier")
          \/ RunBegins("handler")
          \/ RunTakes("handler")
          \/ FindInterface("pv")
          \/ Handle("handler")
          \/ HandleReturns("pv")
          \/ InThread
          \/ LoopEnds
          \/ CleanupPVThreadQueues
          \/ CleanupOne
          \/ CleanupEnds
          \/ ThreadExits

Next == \/ RegisterProxiedInterface
        \/ \E p \in Interface :
              \/ Unregister(p)
              \/ \E s \in Side :
                    \/ Send(s, p)
                    \/ \E id \in {All} \cup Ids(queue[s]) : Cancel(s, p, id)
        \/ DeliverNotifications
        \/ StartPVThread
        \/ StopPVThread
        \/ Delete
        \/ AppStep
        \/ PVStep

Spec == Init /\ [][Next]_vars

(* Both threads run, and so do the schedulers' loops in them; nobody has   *)
(* to make a call.                                                         *)
FairSpec == Spec /\ WF_vars(AppStep) /\ WF_vars(PVStep)
-----------------------------------------------------------------------------
Message == [id : 1 .. NumMessages, proxy : Interface]

TypeOK ==
    /\ use \in Uses
    /\ iProxyIdCounter \in 0 .. use.interfaces /\ iCommandIdCounter \in 0 .. use.messages
    /\ slots \in Seq(Interface) /\ size \in 0 .. Len(slots)
    /\ iProxyListCrit \in {Free, "app"}
    /\ crit \in [Side -> {Free, "app", "pv"}]
    /\ queue \in [Side -> Seq(Message)]
    /\ added \in [Side -> BOOLEAN] /\ req \in [Side -> {"idle", "pending", "ready"}]
    /\ starts \in 0 .. use.starts
    /\ iStopped \in BOOLEAN /\ stopping \in BOOLEAN /\ iExitedSem \in {0, 1}
    /\ DOMAIN pc = Thread
    /\ pc["app"] \in {"idle", "uncommand", "unnotify", "cancel", "run", "find", "call",
                      "handle", "startwait", "stopwait", "deleted"}
    /\ pc["pv"] \in {"none", "start", "idle", "cancel", "run", "find", "call", "handle",
                     "lock", "clean", "logoff"}
    /\ msg \in [Thread -> Message \cup {NoMsg}]
    /\ ptr \in [Thread -> Nat] /\ arg \in [Thread -> 0 .. NumMessages]
    /\ handled \in [Side -> Seq(1 .. NumMessages)]
    /\ cleaned \subseteq 1 .. NumMessages /\ lost \subseteq 1 .. NumMessages

Held(s) == IF msg[Runner(s)] = NoMsg \/ pc[Runner(s)] = "handle" THEN <<>>
           ELSE <<msg[Runner(s)].id>>

(* Every message is in one place: queued, taken by Run, given to Handle-   *)
(* Command or HandleNotification, or given to the cleanup routine, however *)
(* cancels, unregistrations and the stop race with Run.                    *)
Accounted ==
    \A id \in 1 .. iCommandIdCounter :
        LET In(S) == IF id \in S THEN 1 ELSE 0
            Times(q) == Cardinality({i \in DOMAIN q : q[i] = id})
            On(s) == In(Ids(queue[s])) + Times(handled[s]) + Times(Held(s))
        IN  On("handler") + On("notifier") + In(cleaned) + In(lost) = 1

(* The messages of a side are handled in the order sent, those that are    *)
(* cancelled left out.                                                     *)
InOrder ==
    \A s \in Side :
        LET ids == handled[s] \o Held(s)
                   \o [i \in DOMAIN queue[s] |-> queue[s][i].id]
        IN  \A i, j \in DOMAIN ids : i < j => ids[i] < ids[j]

(* "de-queue all undelivered messages belonging to this interface": an     *)
(* interface that was unregistered has no command queued.                  *)
CommandsAreRegistered ==
    \A i \in DOMAIN queue["handler"] :
        queue["handler"][i].proxy \in Registered

Undisturbed == ~use.cancels /\ ~use.unregisters

(* A message that is queued for an AO is handled or cleaned up, unless the *)
(* thread is stopped or left; a scheduler that is not there takes nothing  *)
(* out.  A cancel may leave a lock held, see Primed.                       *)
MessagesAreSettled ==
    \A id \in 1 .. NumMessages, s \in Side :
        Undisturbed /\ ~use.leaves /\ id \in Ids(queue[s]) /\ added[s] /\ starts = 1
            ~> stopping \/ iStopped \/ id \notin Ids(queue[s])

(* StopPVThread returns, whatever the pv thread does meanwhile.            *)
StopsReturn == Undisturbed /\ pc["app"] = "stopwait" ~> pc["app"] = "idle"
-----------------------------------------------------------------------------
(* What the code does not keep: the formulas below are violated, see the   *)
(* README.                                                                 *)

(* The comment in SendCommand and SendNotification: "when the queue is     *)
(* empty it is safe to assume the handler AO has a request pending": not   *)
(* when a cancel emptied it while the handler is ready, and then           *)
(* PendComplete leaves with the lock held.                                 *)
Primed == \A s \in Side :
             added[s] /\ crit[s] = Free /\ starts = 1 =>
                 (queue[s] = <<>> <=> req[s] = "pending")

(* The comment in DeliverNotifications: "since messages are cleaned up     *)
(* when interfaces get unregistered, we should not get here".              *)
NothingIsLost == lost = {}

(* "Interfaces may be un-registered at any time": the interface found for  *)
(* a message is still the message's interface when it is called.           *)
HandledByItsInterface ==
    \A t \in Thread : pc[t] = "call" =>
        ptr[t] \in 1 .. size /\ slots[ptr[t]] = msg[t].proxy

(* StopPVThread: "all un-sent messages are automatically cleaned up".      *)
StopCleansUp ==
    pc["app"] = "idle" /\ iStopped => \A s \in Side : queue[s] = <<>>

(* UnregisterProxiedInterface returns, although the pv thread cleans up at *)
(* the same time.                                                          *)
UnregistersReturn ==
    pc["app"] \in {"uncommand", "unnotify"} ~> pc["app"] = "idle"
=============================================================================
