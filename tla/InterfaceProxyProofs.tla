-------------------------- MODULE InterfaceProxyProofs --------------------------
(***************************************************************************)
(* Theorems about the interface proxy, for every number of interfaces and  *)
(* messages and all the ways it is used: the messages are accounted for,   *)
(* handled in the order sent, and none is queued for an interface that was *)
(* unregistered.                                                           *)
(***************************************************************************)
EXTENDS InterfaceProxy, FiniteSetTheorems, SequenceTheorems, TLAPS

(* Induction over the numbers to n, of a set: from the least number that   *)
(* is missing.                                                             *)
LEMMA UpTo ==
    ASSUME NEW n \in Nat, NEW S \in SUBSET (0 .. n), 0 \in S,
           \A i \in 0 .. n : i + 1 \in 0 .. n /\ i \in S => i + 1 \in S
    PROVE  n \in S
<1> SUFFICES ASSUME (0 .. n) \ S # {}
             PROVE  FALSE
    OBVIOUS
<1> DEFINE R == OpToRel(<, Nat)
           T == (0 .. n) \ S
<1>1. T \subseteq Nat /\ T # {}
    OBVIOUS
<1>2. IsWellFoundedOn(R, Nat)
    BY NatLessThanWellFounded, Zenon DEF R
<1>3. \A i \in Nat : <<i, i + 1>> \in R
    BY DEF OpToRel
<1> HIDE DEF R
<1>4. PICK m \in T : \A y \in T : ~(<<y, m>> \in R)
    <2> HIDE DEF T
    <2> QED
        BY <1>1, <1>2, WFMin
<1>5. m # 0 /\ m - 1 \in 0 .. n /\ m = (m - 1) + 1
    OBVIOUS
<1>6. m - 1 \in S
    <2>1. <<m - 1, m>> \in R
        BY <1>3, <1>5
    <2> QED
        BY <1>4, <1>5, <2>1
<1> QED
    BY <1>5, <1>6
-----------------------------------------------------------------------------
(* The loop of CleanupCommands and CleanupNotifications.                   *)
LEMMA LeftRecursion ==
    ASSUME NEW q \in Seq(Message), NEW p, NEW id
    PROVE  \E f : /\ f[0] = <<>>
                  /\ \A i \in 1 .. Len(q) :
                        f[i] = IF Erased(q[i], p, id) THEN f[i - 1] ELSE Append(f[i - 1], q[i])
                  /\ Left(q, p, id) = f[Len(q)]
<1> DEFINE Body(g, i) == IF i = 0 THEN <<>>
                         ELSE IF Erased(q[i], p, id) THEN g[i - 1]
                         ELSE Append(g[i - 1], q[i])
           Solved(g, n) == g = [i \in 0 .. n |-> Body(g, i)]
           S == {n \in 0 .. Len(q) : \E g : Solved(g, n)}
           left == CHOOSE g : Solved(g, Len(q))
<1>1. Len(q) \in Nat
    OBVIOUS
<1>2. 0 \in S
    <2> DEFINE g == [i \in 0 .. 0 |-> <<>>]
    <2>1. Solved(g, 0)
        OBVIOUS
    <2> HIDE DEF g, Solved
    <2> QED
        BY <1>1, <2>1
<1>3. ASSUME NEW n \in 0 .. Len(q), n + 1 \in 0 .. Len(q), n \in S
      PROVE  n + 1 \in S
    <2>1. PICK g : Solved(g, n)
        BY <1>3
    <2> DEFINE h == [i \in 0 .. n + 1 |-> IF i = n + 1 THEN Body(g, i) ELSE g[i]]
    <2>2. ASSUME NEW i \in 0 .. n + 1
          PROVE  h[i] = Body(h, i)
        <3>1. i - 1 \in 0 .. n \/ i = 0
            OBVIOUS
        <3>2. i # 0 => h[i - 1] = g[i - 1]
            BY <3>1
        <3>3. Body(h, i) = Body(g, i)
            BY <3>2
        <3>4. i \in 0 .. n => g[i] = Body(g, i)
            <4> HIDE DEF Body
            <4> QED
                BY <2>1
        <3>5. i \in 0 .. n \/ i = n + 1
            OBVIOUS
        <3>6. h[i] = Body(g, i)
            <4> HIDE DEF Body
            <4> QED
                BY <3>4, <3>5
        <3> QED
            BY <3>3, <3>6
    <2>3. Solved(h, n + 1)
        <3> HIDE DEF Body
        <3> QED
            BY <2>2
    <2> HIDE DEF h, Solved
    <2> QED
        BY <1>3, <2>3
<1> HIDE DEF S, Solved, Body
<1>4. Len(q) \in S
    <2>1. S \in SUBSET (0 .. Len(q))
        BY DEF S
    <2> QED
        BY <1>1, <1>2, <1>3, <2>1, UpTo
<1>5. Solved(left, Len(q))
    BY <1>4 DEF S
<1>6. Left(q, p, id) = left[Len(q)]
    BY DEF Left, Solved, Body
<1> HIDE DEF left
<1>7. \A i \in 0 .. Len(q) : left[i] = Body(left, i)
    BY <1>5 DEF Solved
<1>8. left[0] = <<>>
    BY <1>1, <1>7 DEF Body
<1>9. \A i \in 1 .. Len(q) :
        left[i] = IF Erased(q[i], p, id) THEN left[i - 1] ELSE Append(left[i - 1], q[i])
    <2>1. \A i \in 1 .. Len(q) : i \in 0 .. Len(q) /\ i # 0
        OBVIOUS
    <2> QED
        BY <1>7, <2>1 DEF Body
<1> QED
    BY <1>6, <1>8, <1>9

Increasing(q) == \A i, j \in DOMAIN q : i < j => q[i].id < q[j].id

(* What is left are messages of the queue that were not to be erased, in   *)
(* the same order.                                                         *)
LEMMA LeftOf ==
    ASSUME NEW q \in Seq(Message), NEW p, NEW id
    PROVE  /\ Left(q, p, id) \in Seq(Message)
           /\ \A k \in DOMAIN Left(q, p, id) :
                \E i \in DOMAIN q : Left(q, p, id)[k] = q[i] /\ ~Erased(q[i], p, id)
           /\ Increasing(q) => Increasing(Left(q, p, id))
<1>1. PICK f : /\ f[0] = <<>>
               /\ \A i \in 1 .. Len(q) :
                    f[i] = IF Erased(q[i], p, id) THEN f[i - 1] ELSE Append(f[i - 1], q[i])
               /\ Left(q, p, id) = f[Len(q)]
    BY LeftRecursion
<1> DEFINE From(r, n) == \A k \in DOMAIN r :
                            \E i \in 1 .. n : r[k] = q[i] /\ ~Erased(q[i], p, id)
           S == {n \in 0 .. Len(q) : /\ f[n] \in Seq(Message) /\ From(f[n], n)
                                     /\ Increasing(q) => Increasing(f[n])}
<1>2. 0 \in S
    <2>1. f[0] = <<>> /\ f[0] \in Seq(Message) /\ DOMAIN f[0] = {} /\ 0 \in 0 .. Len(q)
        BY <1>1
    <2> QED
        BY <2>1 DEF Increasing
<1>3. ASSUME NEW n \in 0 .. Len(q), n + 1 \in 0 .. Len(q), n \in S
      PROVE  n + 1 \in S
    <2> DEFINE r == f[n]
               m == q[n + 1]
    <2>1. /\ r \in Seq(Message) /\ From(r, n) /\ (Increasing(q) => Increasing(r))
          /\ m \in Message /\ n + 1 \in 1 .. Len(q)
          /\ f[n + 1] = IF Erased(m, p, id) THEN r ELSE Append(r, m)
        BY <1>1, <1>3
    <2>2. CASE Erased(m, p, id)
        BY <2>1, <2>2
    <2>3. CASE ~Erased(m, p, id)
        <3> HIDE DEF r
        <3>1. f[n + 1] = Append(r, m) /\ Append(r, m) \in Seq(Message)
            BY <2>1, <2>3
        <3>2. /\ DOMAIN Append(r, m) = 1 .. Len(r) + 1 /\ DOMAIN r = 1 .. Len(r)
              /\ \A k \in 1 .. Len(r) : Append(r, m)[k] = r[k]
              /\ Append(r, m)[Len(r) + 1] = m /\ Len(r) \in Nat
            BY <2>1
        <3>3. From(Append(r, m), n + 1)
            BY <2>1, <2>3, <3>2
        <3>4. Increasing(q) => Increasing(Append(r, m))
            <4> SUFFICES ASSUME Increasing(q), NEW i \in 1 .. Len(r) + 1, NEW j \in 1 .. Len(r) + 1,
                                i < j
                         PROVE  Append(r, m)[i].id < Append(r, m)[j].id
                BY <3>2 DEF Increasing
            <4>1. i \in 1 .. Len(r)
                BY <3>2
            <4>2. CASE j \in 1 .. Len(r)
                BY <2>1, <3>2, <4>1, <4>2 DEF Increasing
            <4>3. CASE j = Len(r) + 1
                <5>1. PICK k \in 1 .. n : r[i] = q[k]
                    BY <2>1, <3>2, <4>1
                <5>2. q[k].id < m.id
                    BY <2>1 DEF Increasing
                <5> QED
                    BY <3>2, <4>1, <4>3, <5>1, <5>2
            <4> QED
                BY <3>2, <4>2, <4>3
        <3>5. f[n + 1] \in Seq(Message) /\ From(f[n + 1], n + 1)
              /\ (Increasing(q) => Increasing(f[n + 1]))
            <4> HIDE DEF From
            <4> QED
                BY <3>1, <3>3, <3>4
        <3> QED
            <4> HIDE DEF From
            <4> QED
                BY <1>3, <3>5
    <2> QED
        BY <2>2, <2>3
<1>4. Len(q) \in S
    <2>1. S \in SUBSET (0 .. Len(q)) /\ Len(q) \in Nat
        OBVIOUS
    <2> HIDE DEF S
    <2> QED
        BY <1>2, <1>3, <2>1, UpTo
<1> QED
    BY <1>1, <1>4
-----------------------------------------------------------------------------
(* Where the threads are.  No step of the pv thread comes before its start *)
(* or after its exit; a thread has a message in hand from taking it until  *)
(* the handler returns; the list is locked while an interface goes, which  *)
(* is in the list until then.                                              *)
Taking == {"find", "call"}

Life == /\ iStopped => pc["pv"] = "none" /\ iExitedSem = 0
        /\ iExitedSem > 0 => pc["pv"] = "none"
        /\ pc["pv"] = "start" => pc["app"] = "startwait"

MessagesInHand == \A t \in Thread : msg[t] # NoMsg <=> pc[t] \in Taking \cup {"handle"}

ListLocked == /\ iProxyListCrit = "app" <=> pc["app"] \in {"uncommand", "unnotify"}
              /\ iProxyListCrit = "app" => ptr["app"] \in 1 .. size

Threads == TypeOK /\ Life /\ MessagesInHand /\ ListLocked

LEMMA UseTyped ==
    ASSUME use \in Uses
    PROVE  /\ use.interfaces \in 0 .. NumInterfaces /\ use.messages \in 0 .. NumMessages
           /\ use.starts \in Nat /\ use.appScheduler \in BOOLEAN
           /\ NumInterfaces \in Nat /\ NumMessages \in Nat
BY BoundsAssumption

LEMMA MessageTyped ==
    /\ NoMsg \notin Message
    /\ \A m \in Message : m.id \in 1 .. NumMessages /\ m.proxy \in Interface
BY BoundsAssumption DEF Message, Interface

LEMMA Sides ==
    /\ \A s \in Side : Sender(s) \in Thread /\ Runner(s) \in Thread
    /\ Runner("handler") = "pv" /\ Runner("notifier") = "app"
    /\ Sender("handler") = "app" /\ Sender("notifier") = "pv"
BY DEF Side, Thread, Sender, Runner

LEMMA FindTyped ==
    ASSUME TypeOK, NEW p \in Registered
    PROVE  Find(p) \in 1 .. size /\ Find(p) \in Nat /\ slots[Find(p)] = p
<1>1. \E i \in 1 .. size : slots[i] = p
    BY DEF Registered
<1>2. Find(p) \in 1 .. size /\ slots[Find(p)] = p
    <2> DEFINE S == 1 .. size
    <2> HIDE DEF S
    <2> QED
        BY <1>1 DEF Find, S
<1>3. size \in Nat
    BY DEF TypeOK
<1> QED
    BY <1>2, <1>3

LEMMA RegisteredTyped ==
    ASSUME TypeOK
    PROVE  Registered \subseteq Interface
BY DEF TypeOK, Registered

LEMMA InitThreads == Init => Threads
<1> SUFFICES ASSUME Init
             PROVE  Threads
    OBVIOUS
<1>1. use \in Uses /\ use.interfaces \in Nat /\ use.messages \in Nat /\ use.starts \in Nat
      /\ NumMessages \in Nat
    BY UseTyped DEF Init
<1>2. /\ slots = <<>> /\ slots \in Seq(Interface) /\ size \in 0 .. Len(slots)
      /\ queue \in [Side -> Seq(Message)] /\ handled \in [Side -> Seq(1 .. NumMessages)]
    BY DEF Init
<1>3. DOMAIN pc = Thread /\ pc["app"] = "idle" /\ pc["pv"] = "none"
    BY DEF Init, Thread
<1>4. TypeOK
    <2>1. /\ iProxyIdCounter \in 0 .. use.interfaces /\ iCommandIdCounter \in 0 .. use.messages
          /\ starts \in 0 .. use.starts
        BY <1>1 DEF Init
    <2>2. /\ crit \in [Side -> {Free, "app", "pv"}] /\ added \in [Side -> BOOLEAN]
          /\ req \in [Side -> {"idle", "pending", "ready"}]
        BY DEF Init
    <2>3. msg \in [Thread -> Message \cup {NoMsg}] /\ ptr \in [Thread -> Nat]
          /\ arg \in [Thread -> 0 .. NumMessages]
        BY <1>1 DEF Init, All
    <2>4. /\ iProxyListCrit = Free /\ iStopped = TRUE /\ stopping = FALSE /\ iExitedSem = 0
          /\ cleaned = {} /\ lost = {}
        BY DEF Init
    <2> QED
        BY <1>1, <1>2, <1>3, <2>1, <2>2, <2>3, <2>4 DEF TypeOK
<1>5. Life /\ MessagesInHand /\ ListLocked
    BY DEF Init, Life, MessagesInHand, ListLocked, Thread, Taking, Free
<1> QED
    BY <1>4, <1>5 DEF Threads

LEMMA RegisterThreads ==
    ASSUME Threads, RegisterProxiedInterface
    PROVE  /\ Threads' /\ Registered \subseteq Registered'
<1> DEFINE n == iProxyIdCounter + 1
           a == SubSeq(slots, 1, size)
           b == SubSeq(slots, size + 2, Len(slots))
<1>1. /\ slots \in Seq(Interface) /\ size \in 0 .. Len(slots) /\ Len(slots) \in Nat
      /\ n \in Interface /\ n \in 0 .. use.interfaces
    <2>1. /\ slots \in Seq(Interface) /\ size \in 0 .. Len(slots) /\ use \in Uses
          /\ iProxyIdCounter \in 0 .. use.interfaces /\ iProxyIdCounter < use.interfaces
        BY DEF Threads, TypeOK, RegisterProxiedInterface
    <2>2. use.interfaces \in 0 .. NumInterfaces /\ NumInterfaces \in Nat
        BY <2>1, UseTyped
    <2> QED
        BY <2>1, <2>2 DEF Interface
<1>2. slots' = a \o <<n>> \o b /\ size' = size + 1 /\ iProxyIdCounter' = n
    BY DEF RegisterProxiedInterface
<1>3. a \in Seq(Interface) /\ Len(a) = size /\ \A i \in 1 .. size : a[i] = slots[i]
    BY <1>1
<1>4. b \in Seq(Interface)
    BY <1>1
<1> HIDE DEF n, a, b
<1>5. /\ slots' \in Seq(Interface) /\ Len(slots') >= size + 1 /\ Len(slots') \in Nat
      /\ \A i \in 1 .. size : slots'[i] = slots[i]
    BY <1>1, <1>2, <1>3, <1>4
<1>6. Registered \subseteq Registered'
    <2> SUFFICES ASSUME NEW i \in 1 .. size
                 PROVE  i \in 1 .. size' /\ slots[i] = slots'[i]
        BY DEF Registered
    <2> QED
        BY <1>1, <1>2, <1>5
<1>7. size' \in 0 .. Len(slots')
    BY <1>1, <1>2, <1>5
<1>8. Threads'
    BY <1>1, <1>2, <1>5, <1>7 DEF Threads, TypeOK, Life, MessagesInHand, ListLocked,
        RegisterProxiedInterface, locks, sent, aos, life, calls, fates, Free
<1> QED
    BY <1>6, <1>8

LEMMA UnregisterThreads ==
    ASSUME Threads, NEW p \in Interface, Unregister(p)
    PROVE  Threads'
<1>1. Find(p) \in 1 .. size /\ Find(p) \in Nat
    BY FindTyped DEF Unregister, Threads
<1> QED
    BY <1>1 DEF Unregister, Threads, TypeOK, Life, MessagesInHand, ListLocked, Taking, Goto, locks, sent, aos, life, calls, fates, list, Free, Side, Thread

LEMMA CleanupTyped ==
    ASSUME TypeOK, NEW s \in Side, NEW i, NEW id, Cleanup(s, i, id)
    PROVE  /\ queue' \in [Side -> Seq(Message)] /\ cleaned' \subseteq 1 .. NumMessages
           /\ queue' = [queue EXCEPT ![s] = Left(queue[s], slots[i], id)]
           /\ cleaned' = cleaned \cup (Ids(queue[s]) \ Ids(queue'[s]))
<1>1. queue[s] \in Seq(Message) /\ queue \in [Side -> Seq(Message)]
    BY DEF TypeOK
<1>2. Ids(queue[s]) \subseteq 1 .. NumMessages
    BY <1>1, MessageTyped DEF Ids
<1>3. queue' = [queue EXCEPT ![s] = Left(queue[s], slots[i], id)]
    BY DEF Cleanup
<1>4. Left(queue[s], slots[i], id) \in Seq(Message)
    BY <1>1, LeftOf
<1> QED
    BY <1>1, <1>2, <1>3, <1>4 DEF TypeOK, Cleanup

LEMMA UnregisterCommandsThreads ==
    ASSUME Threads, UnregisterCommands
    PROVE  Threads'
<1>1. queue' \in [Side -> Seq(Message)] /\ cleaned' \subseteq 1 .. NumMessages
    BY CleanupTyped DEF UnregisterCommands, Threads, Side
<1> QED
    BY <1>1 DEF UnregisterCommands, Threads, TypeOK, Life, MessagesInHand, ListLocked, Taking, Goto, locks, sent, aos, life, calls, fates, list, Free, Side, Thread

LEMMA UnregisterNotificationsThreads ==
    ASSUME Threads, UnregisterNotifications
    PROVE  /\ Threads'
           /\ Registered \ {slots[ptr["app"]]} \subseteq Registered'
<1> DEFINE k == ptr["app"]
<1>1. queue' \in [Side -> Seq(Message)] /\ cleaned' \subseteq 1 .. NumMessages
    BY CleanupTyped DEF UnregisterNotifications, Threads, Side
<1>2. /\ slots \in Seq(Interface) /\ Len(slots) \in Nat /\ DOMAIN slots = 1 .. Len(slots)
      /\ size \in 1 .. Len(slots) /\ k \in 1 .. size /\ size' = size - 1
    BY DEF Threads, TypeOK, ListLocked, UnregisterNotifications
<1>3. slots' = [i \in DOMAIN slots |-> IF i \in k .. size - 1 THEN slots[i + 1] ELSE slots[i]]
    BY DEF UnregisterNotifications
<1> HIDE DEF k
<1>4. slots' \in [1 .. Len(slots) -> Interface]
    <2>1. \A i \in 1 .. Len(slots) : slots[i] \in Interface
        BY <1>2
    <2>2. \A i \in 1 .. Len(slots) : i \in k .. size - 1 => i + 1 \in 1 .. Len(slots)
        BY <1>2
    <2> QED
        BY <1>2, <1>3, <2>1, <2>2
<1>5. slots' \in Seq(Interface) /\ Len(slots') = Len(slots)
    BY <1>2, <1>4, IsASeq
<1>6. size' \in 0 .. Len(slots')
    BY <1>2, <1>5
<1>7. Registered \ {slots[k]} \subseteq Registered'
    <2> SUFFICES ASSUME NEW i \in 1 .. size, i # k
                 PROVE  \E j \in 1 .. size' : slots'[j] = slots[i]
        BY DEF Registered
    <2>1. CASE i < k
        <3>1. i \in 1 .. size' /\ i \in 1 .. Len(slots) /\ i \notin k .. size - 1
            BY <1>2, <2>1
        <3> QED
            BY <1>2, <1>3, <3>1
    <2>2. CASE i > k
        <3>1. i - 1 \in 1 .. size' /\ i - 1 \in 1 .. Len(slots) /\ i - 1 \in k .. size - 1
              /\ (i - 1) + 1 = i
            BY <1>2, <2>2
        <3> QED
            BY <1>2, <1>3, <3>1
    <2> QED
        BY <1>2, <2>1, <2>2
<1>8. Threads'
    BY <1>1, <1>5, <1>6 DEF UnregisterNotifications, Threads, TypeOK, Life, MessagesInHand, ListLocked, Taking, Goto, locks, sent, aos, life, calls, fates, list, Free, Side, Thread
<1> QED
    BY <1>7, <1>8 DEF k

LEMMA SendThreads ==
    ASSUME Threads, NEW s \in Side, NEW p \in Interface, Send(s, p)
    PROVE  /\ Threads'
           /\ iCommandIdCounter' = iCommandIdCounter + 1 /\ iCommandIdCounter \in Nat
           /\ LET m == [id |-> iCommandIdCounter', proxy |-> p]
              IN  m \in Message /\ queue' = [queue EXCEPT ![s] = Append(queue[s], m)]
<1> DEFINE n == iCommandIdCounter + 1
           m == [id |-> n, proxy |-> p]
<1>1. n \in 1 .. NumMessages /\ n \in 0 .. use.messages /\ iCommandIdCounter \in Nat
    <2>1. /\ iCommandIdCounter \in 0 .. use.messages /\ iCommandIdCounter < use.messages
          /\ use \in Uses
        BY DEF Threads, TypeOK, Send
    <2>2. use.messages \in 0 .. NumMessages /\ NumMessages \in Nat
        BY <2>1, UseTyped
    <2> QED
        BY <2>1, <2>2
<1>2. iCommandIdCounter' = n /\ queue' = [queue EXCEPT ![s] = Append(queue[s], m)]
    BY DEF Send
<1>3. m \in Message
    BY <1>1 DEF Message
<1> HIDE DEF n, m
<1>4. queue' \in [Side -> Seq(Message)]
    BY <1>2, <1>3 DEF Threads, TypeOK
<1>5. req' \in [Side -> {"idle", "pending", "ready"}] /\ crit' \in [Side -> {Free, "app", "pv"}]
    BY DEF Send, Threads, TypeOK, Sender
<1>6. UNCHANGED <<list, iProxyListCrit, added, life, pc, calls, fates>>
    BY DEF Send, locks
<1>7. TypeOK'
    <2>1. TypeOK
        BY DEF Threads
    <2>2. UNCHANGED <<iProxyIdCounter, slots, size, iProxyListCrit, added, use, starts, iStopped,
                      stopping, iExitedSem, pc, msg, ptr, arg, handled, cleaned, lost>>
        BY <1>6 DEF list, life, calls, fates
    <2>3. iCommandIdCounter' \in 0 .. use'.messages
        BY <1>1, <1>2, <2>2
    <2>4. /\ use' \in Uses /\ iProxyIdCounter' \in 0 .. use'.interfaces
          /\ slots' \in Seq(Interface) /\ size' \in 0 .. Len(slots')
          /\ iProxyListCrit' \in {Free, "app"} /\ added' \in [Side -> BOOLEAN]
        BY <2>1, <2>2 DEF TypeOK
    <2> QED
        BY <1>4, <1>5, <2>1, <2>2, <2>3, <2>4 DEF TypeOK
<1>8. Life' /\ MessagesInHand' /\ ListLocked'
    BY <1>6 DEF Threads, Life, MessagesInHand, ListLocked, life, calls, list
<1>9. Threads'
    BY <1>7, <1>8 DEF Threads
<1> QED
    BY <1>1, <1>2, <1>3, <1>9 DEF n, m

LEMMA CancelThreads ==
    ASSUME Threads, NEW s \in Side, NEW p \in Interface,
           NEW id \in {All} \cup Ids(queue[s]), Cancel(s, p, id)
    PROVE  Threads'
<1>1. Find(p) \in Nat
    BY FindTyped DEF Cancel, Threads
<1>2. id \in 0 .. NumMessages
    <2>1. queue[s] \in Seq(Message) /\ NumMessages \in Nat
        BY BoundsAssumption DEF Threads, TypeOK
    <2> QED
        BY <2>1, MessageTyped DEF Ids, All
<1> QED
    BY <1>1, <1>2, Sides DEF Cancel, Threads, TypeOK, Life, MessagesInHand, ListLocked, Taking, Goto, locks, sent, aos, life, calls, fates, list, Free, Side, Thread

LEMMA CancelCleanupThreads ==
    ASSUME Threads, NEW s \in Side, CancelCleanup(s)
    PROVE  Threads'
<1>1. queue' \in [Side -> Seq(Message)] /\ cleaned' \subseteq 1 .. NumMessages
    BY CleanupTyped DEF CancelCleanup, Threads
<1> QED
    BY <1>1, Sides DEF CancelCleanup, Threads, TypeOK, Life, MessagesInHand, ListLocked, Taking, Goto, locks, sent, aos, life, calls, fates, list, Free, Side, Thread

LEMMA TakeFirstTyped ==
    ASSUME TypeOK, NEW s \in Side, NEW t, TakeFirst(s, t)
    PROVE  /\ queue[s] \in Seq(Message) /\ queue[s] # <<>> /\ Head(queue[s]) \in Message
           /\ queue' = [queue EXCEPT ![s] = Tail(queue[s])]
           /\ queue' \in [Side -> Seq(Message)]
           /\ msg' = [msg EXCEPT ![t] = Head(queue[s])]
           /\ pc' = [pc EXCEPT ![t] = "find"]
BY DEF TypeOK, TakeFirst, Goto

LEMMA RunTakesThreads ==
    ASSUME Threads, NEW s \in Side, RunTakes(s)
    PROVE  Threads'
<1> DEFINE t == Runner(s)
<1>1. t \in Thread /\ pc[t] = "run"
    BY Sides DEF RunTakes
<1>2. req' \in [Side -> {"idle", "pending", "ready"}]
    BY DEF RunTakes, NextRequest, Threads, TypeOK
<1> HIDE DEF t
<1>3. CASE TakeFirst(s, t)
    <2> DEFINE m == Head(queue[s])
    <2>1. /\ m \in Message /\ queue' \in [Side -> Seq(Message)]
          /\ msg' = [msg EXCEPT ![t] = m] /\ pc' = [pc EXCEPT ![t] = "find"]
        BY <1>3, TakeFirstTyped DEF Threads
    <2>2. m # NoMsg
        BY <2>1, MessageTyped
    <2> HIDE DEF m
    <2>3. TypeOK'
        BY <1>1, <1>2, <2>1, <2>2 DEF RunTakes, Threads, TypeOK, Taking, Goto, locks, sent, aos, life, calls, fates, list, Free, Side, Thread
    <2>4. Life'
        BY <1>1, <1>2, <2>1, <2>2 DEF RunTakes, Threads, TypeOK, Life, Goto, locks, sent, aos, life, calls, fates, list, Free, Side, Thread
    <2>5. MessagesInHand'
        BY <1>1, <1>2, <2>1, <2>2 DEF RunTakes, Threads, TypeOK, MessagesInHand, Taking, Goto, locks, sent, aos, life, calls, fates, list, Free, Side, Thread
    <2>6. ListLocked'
        BY <1>1, <1>2, <2>1, <2>2 DEF RunTakes, Threads, TypeOK, ListLocked, Goto, locks, sent, aos, life, calls, fates, list, Free, Side, Thread
    <2> QED
        BY <2>3, <2>4, <2>5, <2>6 DEF Threads
<1>4. CASE pc' = [pc EXCEPT ![t] = "idle"] /\ UNCHANGED <<queue, msg>>
    BY <1>1, <1>2, <1>4 DEF RunTakes, Threads, TypeOK, Life, MessagesInHand, ListLocked, Taking, Goto, locks, sent, aos, life, calls, fates, list, Free, Side, Thread
<1> QED
    BY <1>3, <1>4 DEF RunTakes, Goto, t

LEMMA DeliverNotificationsThreads ==
    ASSUME Threads, DeliverNotifications
    PROVE  Threads'
<1>1. TakeFirst("notifier", "app") /\ "notifier" \in Side /\ pc["app"] = "idle"
    BY DEF DeliverNotifications, Side
<1> DEFINE m == Head(queue["notifier"])
<1>2. /\ m \in Message /\ queue' \in [Side -> Seq(Message)]
      /\ msg' = [msg EXCEPT !["app"] = m] /\ pc' = [pc EXCEPT !["app"] = "find"]
    BY <1>1, TakeFirstTyped DEF Threads
<1>3. m # NoMsg
    BY <1>2, MessageTyped
<1> HIDE DEF m
<1>4. TypeOK'
    BY <1>1, <1>2, <1>3 DEF DeliverNotifications, Threads, TypeOK, Taking, Goto, locks, sent, aos, life, calls, fates, list, Free, Side, Thread
<1>5. Life'
    BY <1>1, <1>2, <1>3 DEF DeliverNotifications, Threads, TypeOK, Life, Goto, locks, sent, aos, life, calls, fates, list, Free, Side, Thread
<1>6. MessagesInHand'
    BY <1>1, <1>2, <1>3 DEF DeliverNotifications, Threads, TypeOK, MessagesInHand, Taking, Goto, locks, sent, aos, life, calls, fates, list, Free, Side, Thread
<1>7. ListLocked'
    BY <1>1, <1>2, <1>3 DEF DeliverNotifications, Threads, TypeOK, ListLocked, Goto, locks, sent, aos, life, calls, fates, list, Free, Side, Thread
<1> QED
    BY <1>4, <1>5, <1>6, <1>7 DEF Threads

LEMMA FindInterfaceThreads ==
    ASSUME Threads, NEW t \in Thread, FindInterface(t)
    PROVE  /\ Threads'
           /\ msg[t] \in Message
<1>1. msg[t] \in Message
    BY DEF FindInterface, Threads, TypeOK, MessagesInHand, Taking
<1>2. msg[t].id \in 1 .. NumMessages /\ msg[t] # NoMsg
    BY <1>1, MessageTyped
<1>3. /\ ptr' \in [Thread -> Nat] /\ lost' \subseteq 1 .. NumMessages
      /\ iProxyListCrit = Free /\ pc[t] = "find"
      /\ UNCHANGED <<list, locks, sent, aos, life, arg, handled, cleaned>>
    <2>1. msg[t].proxy \in Registered => Find(msg[t].proxy) \in Nat
        BY FindTyped DEF Threads
    <2>2. ptr \in [Thread -> Nat] /\ lost \subseteq 1 .. NumMessages
        BY DEF Threads, TypeOK
    <2>3. CASE msg[t].proxy \in Registered
        BY <2>1, <2>2, <2>3 DEF FindInterface
    <2>4. CASE msg[t].proxy \notin Registered
        BY <1>2, <2>2, <2>4 DEF FindInterface
    <2> QED
        BY <2>3, <2>4
<1>4. \/ pc' = [pc EXCEPT ![t] = "call"] /\ msg' = msg
      \/ pc' = [pc EXCEPT ![t] = "idle"] /\ msg' = [msg EXCEPT ![t] = NoMsg]
    BY DEF FindInterface, Goto
<1>5. TypeOK'
    <2>1. /\ DOMAIN pc' = Thread
          /\ pc'["app"] \in {pc["app"], "call", "idle"}
          /\ pc'["pv"] \in {pc["pv"], "call", "idle"}
        BY <1>4 DEF Threads, TypeOK, Thread
    <2>2. msg' \in [Thread -> Message \cup {NoMsg}]
        BY <1>4 DEF Threads, TypeOK
    <2>3. /\ pc["app"] \in {"idle", "uncommand", "unnotify", "cancel", "run", "find", "call",
                            "handle", "startwait", "stopwait", "deleted"}
          /\ pc["pv"] \in {"none", "start", "idle", "cancel", "run", "find", "call", "handle",
                           "lock", "clean", "logoff"}
        BY DEF Threads, TypeOK
    <2>4. /\ pc'["app"] \in {"idle", "uncommand", "unnotify", "cancel", "run", "find", "call",
                             "handle", "startwait", "stopwait", "deleted"}
          /\ pc'["pv"] \in {"none", "start", "idle", "cancel", "run", "find", "call", "handle",
                            "lock", "clean", "logoff"}
        BY <2>1, <2>3
    <2> QED
        BY <1>3, <2>1, <2>2, <2>4 DEF Threads, TypeOK, locks, sent, aos, life, list
<1>6. Life' /\ ListLocked'
    BY <1>3, <1>4 DEF Threads, TypeOK, Life, ListLocked, locks, sent, aos, life, calls, fates, list, Free, Side, Thread
<1>7. MessagesInHand'
    BY <1>1, <1>2, <1>3, <1>4 DEF Threads, TypeOK, MessagesInHand, Taking, Thread
<1> QED
    BY <1>1, <1>5, <1>6, <1>7 DEF Threads

LEMMA HandleThreads ==
    ASSUME Threads, NEW s \in Side, Handle(s)
    PROVE  /\ Threads'
           /\ msg[Runner(s)] \in Message /\ handled[s] \in Seq(1 .. NumMessages)
           /\ handled' = [handled EXCEPT ![s] = Append(handled[s], msg[Runner(s)].id)]
<1> DEFINE t == Runner(s)
<1>1. t \in Thread /\ pc[t] = "call" /\ msg[t] \in Message
    BY Sides DEF Handle, Threads, TypeOK, MessagesInHand, Taking
<1>2. msg[t].id \in 1 .. NumMessages
    BY <1>1, MessageTyped
<1> HIDE DEF t
<1>3. handled[s] \in Seq(1 .. NumMessages)
      /\ handled' = [handled EXCEPT ![s] = Append(handled[s], msg[t].id)]
    BY DEF Threads, TypeOK, Handle, t
<1>4. handled' \in [Side -> Seq(1 .. NumMessages)]
    BY <1>2, <1>3 DEF Threads, TypeOK
<1>5. pc' = [pc EXCEPT ![t] = "handle"]
    BY DEF Handle, Goto, t
<1>6. Threads'
    BY <1>1, <1>4, <1>5 DEF Handle, Threads, TypeOK, Life, MessagesInHand, ListLocked, Taking, Goto, locks, sent, aos, life, calls, fates, list, Free, Side, Thread
<1> QED
    BY <1>1, <1>3, <1>6 DEF t

LEMMA RunBeginsThreads ==
    ASSUME Threads, NEW s \in Side, RunBegins(s)
    PROVE  Threads'
BY Sides DEF RunBegins, Threads, TypeOK, Life, MessagesInHand, ListLocked, Taking, Goto, locks, sent, aos, life, calls, fates, list, Free, Side, Thread

LEMMA HandleReturnsThreads ==
    ASSUME Threads, NEW t \in Thread, HandleReturns(t)
    PROVE  Threads'
<1>1. TypeOK'
    BY Sides DEF HandleReturns, Threads, TypeOK, Taking, Goto, locks, sent, aos, life, calls, fates, list, Free, Side, Thread
<1>2. Life'
    BY Sides DEF HandleReturns, Threads, TypeOK, Life, Goto, locks, sent, aos, life, calls, fates, list, Free, Side, Thread
<1>3. MessagesInHand'
    BY Sides DEF HandleReturns, Threads, TypeOK, MessagesInHand, Taking, Goto, locks, sent, aos, life, calls, fates, list, Free, Side, Thread
<1>4. ListLocked'
    BY Sides DEF HandleReturns, Threads, TypeOK, ListLocked, Goto, locks, sent, aos, life, calls, fates, list, Free, Side, Thread
<1> QED
    BY <1>1, <1>2, <1>3, <1>4 DEF Threads

LEMMA StartPVThreadThreads ==
    ASSUME Threads, StartPVThread
    PROVE  Threads'
<1>5. starts' \in 0 .. use.starts
    <2>1. starts' = starts + 1 /\ starts < use.starts /\ starts \in 0 .. use.starts
          /\ use.starts \in Nat
        BY UseTyped DEF StartPVThread, Threads, TypeOK
    <2> QED
        BY <2>1
<1>1. /\ added' \in [Side -> BOOLEAN] /\ req' \in [Side -> {"idle", "pending", "ready"}]
    BY UseTyped DEF StartPVThread, Threads, TypeOK
<1>2. TypeOK'
    BY <1>1, <1>5 DEF StartPVThread, Threads, TypeOK, locks, sent, aos, life, calls, fates, list, Free, Side, Thread
<1>3. Life' /\ ListLocked'
    BY DEF StartPVThread, Threads, TypeOK, Life, ListLocked, locks, sent, aos, life, calls, fates, list, Free, Side, Thread
<1>4. MessagesInHand'
    BY DEF StartPVThread, Threads, TypeOK, Life, MessagesInHand, Taking, locks, sent, aos, life, calls, fates, list, Free, Side, Thread
<1> QED
    BY <1>2, <1>3, <1>4 DEF Threads

LEMMA InThreadThreads ==
    ASSUME Threads, InThread
    PROVE  Threads'
<1>1. TypeOK'
    BY DEF InThread, Threads, TypeOK, locks, sent, aos, life, calls, fates, list, Free, Side, Thread
<1>2. Life' /\ ListLocked'
    BY DEF InThread, Threads, TypeOK, Life, ListLocked, locks, sent, aos, life, calls, fates, list, Free, Side, Thread
<1>3. MessagesInHand'
    BY DEF InThread, Threads, TypeOK, Life, MessagesInHand, Taking, locks, sent, aos, life, calls, fates, list, Free, Side, Thread
<1> QED
    BY <1>1, <1>2, <1>3 DEF Threads

LEMMA StopPVThreadThreads ==
    ASSUME Threads, StopPVThread
    PROVE  Threads'
<1>1. TypeOK'
    BY Sides DEF StopPVThread, Threads, TypeOK, Taking, Goto, locks, sent, aos, life, calls, fates, list, Free, Side, Thread
<1>2. Life'
    BY Sides DEF StopPVThread, Threads, TypeOK, Life, Goto, locks, sent, aos, life, calls, fates, list, Free, Side, Thread
<1>3. MessagesInHand'
    BY Sides DEF StopPVThread, Threads, TypeOK, MessagesInHand, Taking, Goto, locks, sent, aos, life, calls, fates, list, Free, Side, Thread
<1>4. ListLocked'
    BY Sides DEF StopPVThread, Threads, TypeOK, ListLocked, Goto, locks, sent, aos, life, calls, fates, list, Free, Side, Thread
<1> QED
    BY <1>1, <1>2, <1>3, <1>4 DEF Threads

LEMMA StopReturnsThreads ==
    ASSUME Threads, StopReturns
    PROVE  Threads'
<1>1. TypeOK'
    <2>1. iExitedSem' = 0
        BY DEF StopReturns, Threads, TypeOK
    <2> QED
        BY <2>1 DEF StopReturns, Threads, TypeOK, Goto, locks, sent, aos, life, calls, fates, list, Free, Side, Thread
<1>2. Life'
    BY Sides DEF StopReturns, Threads, TypeOK, Life, Goto, locks, sent, aos, life, calls, fates, list, Free, Side, Thread
<1>3. MessagesInHand'
    BY Sides DEF StopReturns, Threads, TypeOK, MessagesInHand, Taking, Goto, locks, sent, aos, life, calls, fates, list, Free, Side, Thread
<1>4. ListLocked'
    BY Sides DEF StopReturns, Threads, TypeOK, ListLocked, Goto, locks, sent, aos, life, calls, fates, list, Free, Side, Thread
<1> QED
    BY <1>1, <1>2, <1>3, <1>4 DEF Threads

LEMMA LoopEndsThreads ==
    ASSUME Threads, LoopEnds
    PROVE  Threads'
<1>1. TypeOK'
    BY Sides DEF LoopEnds, Threads, TypeOK, Taking, Goto, locks, sent, aos, life, calls, fates, list, Free, Side, Thread
<1>2. Life'
    BY Sides DEF LoopEnds, Threads, TypeOK, Life, Goto, locks, sent, aos, life, calls, fates, list, Free, Side, Thread
<1>3. MessagesInHand'
    BY Sides DEF LoopEnds, Threads, TypeOK, MessagesInHand, Taking, Goto, locks, sent, aos, life, calls, fates, list, Free, Side, Thread
<1>4. ListLocked'
    BY Sides DEF LoopEnds, Threads, TypeOK, ListLocked, Goto, locks, sent, aos, life, calls, fates, list, Free, Side, Thread
<1> QED
    BY <1>1, <1>2, <1>3, <1>4 DEF Threads

LEMMA CleanupPVThreadQueuesThreads ==
    ASSUME Threads, CleanupPVThreadQueues
    PROVE  Threads'
BY Sides DEF CleanupPVThreadQueues, Threads, TypeOK, Life, MessagesInHand, ListLocked, Taking, Goto, locks, sent, aos, life, calls, fates, list, Free, Side, Thread

LEMMA CleanupEndsThreads ==
    ASSUME Threads, CleanupEnds
    PROVE  Threads'
BY Sides DEF CleanupEnds, Threads, TypeOK, Life, MessagesInHand, ListLocked, Taking, Goto, locks, sent, aos, life, calls, fates, list, Free, Side, Thread

LEMMA ThreadExitsThreads ==
    ASSUME Threads, ThreadExits
    PROVE  Threads'
<1>1. /\ pc["pv"] = "logoff" /\ pc' = [pc EXCEPT !["pv"] = "none"]
      /\ DOMAIN pc = Thread /\ Thread = {"app", "pv"}
    BY DEF ThreadExits, Goto, Threads, TypeOK, Thread
<1>2. /\ pc'["pv"] = "none" /\ pc'["app"] = pc["app"] /\ DOMAIN pc' = Thread
    BY <1>1
<1>3. /\ UNCHANGED <<list, locks, sent, use, starts, iStopped, stopping, calls, fates>>
      /\ iExitedSem' = iExitedSem + 1 /\ iExitedSem = 0 /\ ~iStopped
    BY <1>1 DEF ThreadExits, Threads, TypeOK, Life
<1>4. /\ added' \in [Side -> BOOLEAN] /\ req' \in [Side -> {"idle", "pending", "ready"}]
    BY Sides DEF ThreadExits, Threads, TypeOK
<1>5. TypeOK'
    BY <1>2, <1>3, <1>4 DEF Threads, TypeOK, list, locks, sent, calls, fates
<1>6. Life'
    BY <1>2, <1>3 DEF Life
<1>7. MessagesInHand'
    BY <1>1, <1>2, <1>3 DEF Threads, MessagesInHand, Taking, calls
<1>8. ListLocked'
    BY <1>2, <1>3 DEF Threads, ListLocked, list, locks, calls
<1> QED
    BY <1>5, <1>6, <1>7, <1>8 DEF Threads

LEMMA CleanupOneThreads ==
    ASSUME Threads, CleanupOne
    PROVE  /\ Threads'
           /\ queue["notifier"] \in Seq(Message) /\ queue["notifier"] # <<>>
           /\ queue' = [queue EXCEPT !["notifier"] = Tail(queue["notifier"])]
<1>1. queue["notifier"] \in Seq(Message) /\ queue["notifier"] # <<>>
      /\ queue' = [queue EXCEPT !["notifier"] = Tail(queue["notifier"])]
    BY DEF Threads, TypeOK, CleanupOne, CleanupMore, Side
<1>2. Head(queue["notifier"]).id \in 1 .. NumMessages
    BY <1>1, MessageTyped
<1>3. queue' \in [Side -> Seq(Message)]
    <2>1. Tail(queue["notifier"]) \in Seq(Message) /\ queue \in [Side -> Seq(Message)]
        BY <1>1 DEF Threads, TypeOK
    <2> HIDE DEF Threads
    <2> QED
        BY <1>1, <2>1
<1>4. cleaned' \subseteq 1 .. NumMessages /\ lost' \subseteq 1 .. NumMessages
    BY <1>2 DEF Threads, TypeOK, CleanupOne
<1>5. Threads'
    BY <1>3, <1>4 DEF CleanupOne, Threads, TypeOK, Life, MessagesInHand, ListLocked, Taking, Goto, locks, sent, aos, life, calls, fates, list, Free, Side, Thread
<1> QED
    BY <1>1, <1>5

LEMMA DeleteThreads ==
    ASSUME Threads, Delete
    PROVE  Threads'
<1>1. queue["handler"] \in Seq(Message)
    BY DEF Threads, TypeOK, Side
<1>2. Ids(queue["handler"]) \subseteq 1 .. NumMessages
      /\ \A i \in DOMAIN queue["handler"] : queue["handler"][i].id \in 1 .. NumMessages
    BY <1>1, MessageTyped DEF Ids
<1>3. cleaned' \subseteq 1 .. NumMessages /\ lost' \subseteq 1 .. NumMessages
    BY <1>2 DEF Threads, TypeOK, Delete
<1>4. queue' \in [Side -> Seq(Message)]
    <2>1. <<>> \in Seq(Message) /\ queue \in [Side -> Seq(Message)]
        BY DEF Threads, TypeOK
    <2>2. queue' = [queue EXCEPT !["handler"] = <<>>]
        BY DEF Delete
    <2> QED
        BY <2>1, <2>2
<1>5. size' \in 0 .. Len(slots')
    BY DEF Threads, TypeOK, Delete
<1> QED
    BY <1>3, <1>4, <1>5 DEF Delete, Threads, TypeOK, Life, MessagesInHand, ListLocked, Taking, Goto, locks, sent, aos, life, calls, fates, list, Free, Side, Thread
-----------------------------------------------------------------------------
(* Commands are queued for registered interfaces.  When the notifications  *)
(* of an interface that goes are cleaned up, its commands are gone, and    *)
(* the app thread cannot send others.                                      *)
Commands ==
    /\ CommandsAreRegistered
    /\ pc["app"] = "unnotify" =>
        \A i \in DOMAIN queue["handler"] : queue["handler"][i].proxy # slots[ptr["app"]]

From(r, q) == \A k \in DOMAIN r : \E i \in DOMAIN q : r[k] = q[i]

LEMMA InitCommands == Init => Commands
BY DEF Init, Commands, CommandsAreRegistered, Side

LEMMA CommandsKept ==
    ASSUME Commands, Registered \subseteq Registered',
           From(queue'["handler"], queue["handler"]),
           pc'["app"] = "unnotify" => /\ pc["app"] = "unnotify"
                                      /\ slots'[ptr'["app"]] = slots[ptr["app"]]
    PROVE  Commands'
<1>1. \A i \in DOMAIN queue'["handler"] : queue'["handler"][i].proxy \in Registered'
    BY DEF From, Commands, CommandsAreRegistered
<1>2. pc'["app"] = "unnotify" =>
        \A i \in DOMAIN queue'["handler"] : queue'["handler"][i].proxy # slots'[ptr'["app"]]
    BY DEF From, Commands
<1> QED
    BY <1>1, <1>2 DEF Commands, CommandsAreRegistered

LEMMA FromItself == \A q : From(q, q)
BY DEF From

LEMMA FromTail ==
    ASSUME NEW q \in Seq(Message), q # <<>>
    PROVE  From(Tail(q), q)
BY DEF From

LEMMA CleanupFrom ==
    ASSUME TypeOK, NEW s \in Side, NEW i, NEW id, Cleanup(s, i, id)
    PROVE  \A x \in Side : From(queue'[x], queue[x])
<1>1. queue[s] \in Seq(Message) /\ queue \in [Side -> Seq(Message)]
    BY DEF TypeOK
<1>2. queue' = [queue EXCEPT ![s] = Left(queue[s], slots[i], id)]
    BY CleanupTyped
<1>3. From(Left(queue[s], slots[i], id), queue[s])
    BY <1>1, LeftOf DEF From
<1> QED
    BY <1>1, <1>2, <1>3, FromItself

LEMMA SendCommands ==
    ASSUME Threads, Commands, NEW s \in Side, NEW p \in Interface, Send(s, p)
    PROVE  Commands'
<1> DEFINE m == [id |-> iCommandIdCounter', proxy |-> p]
           q == queue["handler"]
<1>1. UNCHANGED <<slots, size, pc, ptr>> /\ Registered' = Registered
    BY DEF Send, list, calls, Registered
<1>2. CASE s = "handler"
    <2>1. pc["app"] # "unnotify" /\ p \in Registered
        BY <1>2 DEF Send, MaySend, Calling, Sender
    <2>2. q \in Seq(Message) /\ m \in Message /\ queue'["handler"] = Append(q, m)
        <3>1. queue \in [Side -> Seq(Message)] /\ "handler" \in Side
            BY DEF Threads, TypeOK, Side
        <3>2. m \in Message /\ queue' = [queue EXCEPT !["handler"] = Append(queue["handler"], m)]
            BY <1>2, SendThreads
        <3> HIDE DEF m
        <3> QED
            BY <3>1, <3>2
    <2>3. m.proxy = p
        OBVIOUS
    <2> HIDE DEF m, q
    <2>4. \A i \in DOMAIN Append(q, m) : Append(q, m)[i].proxy \in Registered
        <3>1. \A i \in DOMAIN q : q[i].proxy \in Registered
            BY DEF Commands, CommandsAreRegistered, q
        <3> QED
            BY <2>1, <2>2, <2>3, <3>1
    <2> QED
        BY <1>1, <2>1, <2>2, <2>4 DEF Commands, CommandsAreRegistered
<1>3. CASE s # "handler"
    <2>1. queue'["handler"] = queue["handler"]
        BY <1>3, SendThreads DEF Threads, TypeOK, Side
    <2> QED
        BY <1>1, <2>1, FromItself, CommandsKept
<1> QED
    BY <1>2, <1>3

LEMMA UnregisterCommandsCommands ==
    ASSUME Threads, Commands, UnregisterCommands
    PROVE  Commands'
<1> DEFINE p == slots[ptr["app"]]
           q == queue["handler"]
<1>1. UNCHANGED <<slots, size, ptr>> /\ Registered' = Registered
      /\ Cleanup("handler", ptr["app"], All)
    BY DEF UnregisterCommands, list, calls, Registered
<1>2. q \in Seq(Message) /\ queue'["handler"] = Left(q, p, All)
    BY <1>1, CleanupTyped DEF Threads, TypeOK, Side
<1>3. From(Left(q, p, All), q) /\ \A k \in DOMAIN Left(q, p, All) : Left(q, p, All)[k].proxy # p
    BY <1>2, LeftOf DEF From, Erased
<1>4. \A k \in DOMAIN Left(q, p, All) : Left(q, p, All)[k].proxy \in Registered
    BY <1>3 DEF From, Commands, CommandsAreRegistered
<1> QED
    BY <1>1, <1>2, <1>3, <1>4 DEF Commands, CommandsAreRegistered

LEMMA UnregisterNotificationsCommands ==
    ASSUME Threads, Commands, UnregisterNotifications
    PROVE  Commands'
<1> DEFINE p == slots[ptr["app"]]
<1>1. pc["app"] = "unnotify" /\ pc'["app"] = "idle"
    BY DEF UnregisterNotifications, Goto, Threads, TypeOK, Thread
<1>2. Registered \ {p} \subseteq Registered'
    BY UnregisterNotificationsThreads
<1>3. queue'["handler"] = queue["handler"]
    BY CleanupTyped DEF UnregisterNotifications, Threads, TypeOK, Side
<1>4. \A i \in DOMAIN queue["handler"] : queue["handler"][i].proxy \in Registered \ {p}
    BY <1>1 DEF Commands, CommandsAreRegistered
<1> QED
    BY <1>1, <1>2, <1>3, <1>4 DEF Commands, CommandsAreRegistered

(* What the steps that touch neither the queues nor the messages do.       *)
Elsewhere ==
    \/ RegisterProxiedInterface
    \/ \E p \in Interface : Unregister(p)
    \/ \E p \in Interface, s \in Side : \E id \in {All} \cup Ids(queue[s]) : Cancel(s, p, id)
    \/ \E s \in Side : RunBegins(s)
    \/ \E t \in Thread : HandleReturns(t)
    \/ StartPVThread \/ InThread \/ StopPVThread \/ StopReturns
    \/ LoopEnds \/ CleanupPVThreadQueues \/ CleanupEnds \/ ThreadExits

Named ==
    \/ Elsewhere
    \/ \E s \in Side, p \in Interface : Send(s, p)
    \/ UnregisterCommands \/ UnregisterNotifications
    \/ \E s \in Side : CancelCleanup(s) \/ RunTakes(s) \/ Handle(s)
    \/ DeliverNotifications
    \/ \E t \in Thread : FindInterface(t)
    \/ CleanupOne \/ Delete

LEMMA NextNamed == Next => Named
BY DEF Next, AppStep, PVStep, Named, Elsewhere, Side, Thread

LEMMA ElsewhereThreads ==
    ASSUME Threads, Elsewhere
    PROVE  Threads'
BY RegisterThreads, UnregisterThreads, CancelThreads, RunBeginsThreads, HandleReturnsThreads,
   StartPVThreadThreads, InThreadThreads, StopPVThreadThreads, StopReturnsThreads,
   LoopEndsThreads, CleanupPVThreadQueuesThreads, CleanupEndsThreads, ThreadExitsThreads
   DEF Elsewhere

LEMMA NextThreads ==
    ASSUME Threads, Named
    PROVE  Threads'
BY ElsewhereThreads, SendThreads, UnregisterCommandsThreads, UnregisterNotificationsThreads,
   CancelCleanupThreads, RunTakesThreads, HandleThreads, DeliverNotificationsThreads,
   FindInterfaceThreads, CleanupOneThreads, DeleteThreads
   DEF Named

(* Who is in the middle of an unregistration got there from its start.     *)
LEMMA ElsewhereCommands ==
    ASSUME Threads, Commands, Elsewhere
    PROVE  Commands'
<1> DEFINE Same == /\ UNCHANGED <<queue, slots, size>>
                   /\ pc'["app"] = "unnotify" => pc["app"] = "unnotify" /\ ptr'["app"] = ptr["app"]
<1>1. ASSUME Same
      PROVE  Commands'
    BY <1>1, FromItself, CommandsKept DEF Registered
<1>2. DOMAIN pc = Thread /\ ptr \in [Thread -> Nat] /\ "app" \in Thread /\ "pv" \in Thread /\ "app" # "pv"
    BY DEF Threads, TypeOK, Thread
<1>3. ASSUME RegisterProxiedInterface
      PROVE  Commands'
    <2>1. Registered \subseteq Registered'
        BY <1>3, RegisterThreads
    <2>2. UNCHANGED <<queue, pc, ptr>>
        BY <1>3 DEF RegisterProxiedInterface, sent, calls
    <2>3. pc["app"] # "unnotify"
        BY <1>3 DEF RegisterProxiedInterface
    <2> QED
        BY <2>1, <2>2, <2>3, FromItself, CommandsKept
<1>4. ASSUME NEW p \in Interface, Unregister(p)
      PROVE  Same
    BY <1>2, <1>4 DEF Unregister, Goto, list, sent
<1>5. ASSUME NEW p \in Interface, NEW s \in Side, NEW id, Cancel(s, p, id)
      PROVE  Same
    BY <1>2, <1>5, Sides DEF Cancel, Goto, list, sent
<1>6. ASSUME NEW s \in Side, RunBegins(s)
      PROVE  Same
    BY <1>2, <1>6, Sides DEF RunBegins, Goto, list, sent, calls
<1>7. ASSUME NEW t \in Thread, HandleReturns(t)
      PROVE  Same
    BY <1>2, <1>7 DEF HandleReturns, Goto, list, sent
<1>8. ASSUME StartPVThread \/ InThread \/ StopPVThread \/ StopReturns
      PROVE  Same
    BY <1>2, <1>8 DEF StartPVThread, InThread, StopPVThread, StopReturns, Goto, list, sent, calls
<1>9. ASSUME LoopEnds \/ CleanupPVThreadQueues \/ CleanupEnds \/ ThreadExits
      PROVE  Same
    BY <1>2, <1>9 DEF LoopEnds, CleanupPVThreadQueues, CleanupEnds, ThreadExits, Goto, list, sent, calls
<1> HIDE DEF Same
<1> QED
    BY <1>1, <1>3, <1>4, <1>5, <1>6, <1>7, <1>8, <1>9 DEF Elsewhere

LEMMA NextCommands ==
    ASSUME Threads, Commands, Named
    PROVE  Commands'
<1> DEFINE Fewer == /\ UNCHANGED <<slots, size, ptr>>
                    /\ From(queue'["handler"], queue["handler"])
                    /\ pc'["app"] = "unnotify" => pc["app"] = "unnotify"
<1>1. ASSUME Fewer
      PROVE  Commands'
    BY <1>1, CommandsKept DEF Registered
<1>2. /\ DOMAIN pc = Thread /\ "app" \in Thread /\ "pv" \in Thread /\ "app" # "pv"
      /\ queue \in [Side -> Seq(Message)] /\ "handler" \in Side /\ "handler" # "notifier"
    BY DEF Threads, TypeOK, Thread, Side
<1>3. ASSUME NEW s \in Side, CancelCleanup(s)
      PROVE  Fewer
    <2>1. From(queue'["handler"], queue["handler"])
        BY <1>2, <1>3, CleanupFrom DEF Threads, CancelCleanup
    <2> QED
        BY <1>2, <1>3, <2>1, Sides DEF CancelCleanup, Goto, list, calls
<1>4. ASSUME NEW s \in Side, NEW t \in Thread, TakeFirst(s, t)
      PROVE  From(queue'["handler"], queue["handler"]) /\ pc' = [pc EXCEPT ![t] = "find"]
    <2>1. /\ queue[s] \in Seq(Message) /\ queue[s] # <<>>
          /\ queue' = [queue EXCEPT ![s] = Tail(queue[s])]
          /\ pc' = [pc EXCEPT ![t] = "find"]
        BY <1>4, TakeFirstTyped DEF Threads
    <2>2. From(Tail(queue[s]), queue[s])
        BY <2>1, FromTail
    <2> QED
        BY <1>2, <2>1, <2>2, FromItself
<1>5. ASSUME NEW s \in Side, RunTakes(s)
      PROVE  Fewer
    <2>1. CASE TakeFirst(s, Runner(s))
        BY <1>2, <1>4, <1>5, <2>1, Sides DEF RunTakes, list
    <2>2. CASE pc' = [pc EXCEPT ![Runner(s)] = "idle"] /\ UNCHANGED queue
        BY <1>2, <1>5, <2>2, Sides, FromItself DEF RunTakes, list
    <2> QED
        BY <1>5, <2>1, <2>2 DEF RunTakes, Goto
<1>6. ASSUME DeliverNotifications
      PROVE  Fewer
    <2>1. TakeFirst("notifier", "app") /\ "notifier" \in Side
        BY <1>6 DEF DeliverNotifications, Side
    <2> QED
        BY <1>2, <1>4, <1>6, <2>1 DEF DeliverNotifications, list
<1>7. ASSUME NEW s \in Side, Handle(s)
      PROVE  Fewer
    BY <1>2, <1>7, Sides, FromItself DEF Handle, Goto, list, sent, calls
<1>8. ASSUME NEW t \in Thread, FindInterface(t)
      PROVE  Commands'
    <2>1. UNCHANGED <<queue, slots, size>>
        BY <1>8 DEF FindInterface, list, sent
    <2>2. pc'["app"] = "unnotify" => pc["app"] = "unnotify" /\ ptr'["app"] = ptr["app"]
        BY <1>2, <1>8 DEF FindInterface, Goto, Threads, TypeOK
    <2> QED
        BY <2>1, <2>2, FromItself, CommandsKept DEF Registered
<1>9. ASSUME CleanupOne
      PROVE  Fewer
    <2>1. queue'["handler"] = queue["handler"]
        BY <1>2, <1>9, CleanupOneThreads
    <2> QED
        BY <1>9, <2>1, FromItself DEF CleanupOne, list, calls
<1>10. ASSUME Delete
       PROVE  Commands'
    <2>1. queue'["handler"] = <<>> /\ pc'["app"] = "deleted"
        BY <1>2, <1>10 DEF Delete, Goto
    <2> QED
        BY <2>1 DEF Commands, CommandsAreRegistered
<1> HIDE DEF Fewer
<1> QED
    BY <1>1, <1>3, <1>5, <1>6, <1>7, <1>8, <1>9, <1>10, ElsewhereCommands, SendCommands,
       UnregisterCommandsCommands, UnregisterNotificationsCommands DEF Named
-----------------------------------------------------------------------------
(* Where the messages are: given to a side's HandleCommand or Handle-      *)
(* Notification, in the hand of its Run, or queued, lined up in that order *)
(* by when they were sent; and every message sent is in one place.         *)
Given(s) == {handled[s][i] : i \in DOMAIN handled[s]}
Hand(s) == IF pc[Runner(s)] \in Taking THEN {msg[Runner(s)].id} ELSE {}
Place(s) == Given(s) \cup Hand(s) \cup Ids(queue[s])

Lined(h, x, q) ==
    /\ \A i, j \in DOMAIN h : i < j => h[i] < h[j]
    /\ Increasing(q)
    /\ \A i \in DOMAIN h, n \in x : h[i] < n
    /\ \A i \in DOMAIN q, n \in x : n < q[i].id
    /\ \A i \in DOMAIN h, j \in DOMAIN q : h[i] < q[j].id

Ordered == \A s \in Side : Lined(handled[s], Hand(s), queue[s])

Settled ==
    /\ 1 .. iCommandIdCounter = Place("handler") \cup Place("notifier") \cup cleaned \cup lost
    /\ Place("handler") \cap Place("notifier") = {}
    /\ \A s \in Side : Place(s) \cap (cleaned \cup lost) = {}
    /\ cleaned \cap lost = {}

(* A line moves up: Run takes the first message, its handler gets the one  *)
(* in hand or none does, a message is queued at the end, some are removed. *)
LEMMA LineTake ==
    ASSUME NEW h, NEW q \in Seq(Message), q # <<>>, Lined(h, {}, q)
    PROVE  /\ Lined(h, {Head(q).id}, Tail(q))
           /\ Ids(q) = {Head(q).id} \cup Ids(Tail(q))
           /\ Head(q).id \notin Ids(Tail(q))
           /\ \A i \in DOMAIN h : h[i] # Head(q).id
<1> DEFINE r == Tail(q)
<1>1. /\ r \in Seq(Message) /\ Len(q) \in Nat \ {0} /\ DOMAIN q = 1 .. Len(q)
      /\ DOMAIN r = 1 .. Len(q) - 1 /\ Head(q) = q[1]
      /\ \A i \in 1 .. Len(q) - 1 : r[i] = q[i + 1]
    OBVIOUS
<1>2. \A i \in DOMAIN q : q[i].id \in Nat
    BY MessageTyped, BoundsAssumption
<1> HIDE DEF r
<1>3. \A i, j \in DOMAIN q : i < j => q[i].id < q[j].id
    BY DEF Lined, Increasing
<1>4. ASSUME NEW i \in DOMAIN r, NEW j \in DOMAIN r, i < j
      PROVE  r[i].id < r[j].id
    <2>1. /\ i + 1 \in DOMAIN q /\ j + 1 \in DOMAIN q /\ i + 1 < j + 1
          /\ r[i] = q[i + 1] /\ r[j] = q[j + 1]
        BY <1>1, <1>4
    <2> QED
        BY <1>3, <2>1
<1>5. ASSUME NEW i \in DOMAIN r
      PROVE  q[1].id < r[i].id
    <2>1. 1 \in DOMAIN q /\ i + 1 \in DOMAIN q /\ 1 < i + 1 /\ r[i] = q[i + 1]
        BY <1>1
    <2> QED
        BY <1>3, <2>1
<1>6. \A i \in DOMAIN h : h[i] < q[1].id
    BY <1>1 DEF Lined
<1>7. \A i \in DOMAIN h, j \in DOMAIN r : h[i] < r[j].id
    BY <1>1 DEF Lined
<1>8. Lined(h, {q[1].id}, r)
    BY <1>4, <1>5, <1>6, <1>7 DEF Lined, Increasing
<1>9. Ids(q) = {q[1].id} \cup Ids(r)
    <2>1. \A i \in DOMAIN q : i = 1 \/ (i - 1 \in DOMAIN r /\ r[i - 1] = q[i])
        BY <1>1
    <2>2. 1 \in DOMAIN q /\ \A i \in DOMAIN r : i + 1 \in DOMAIN q
        BY <1>1
    <2> QED
        BY <1>1, <2>1, <2>2 DEF Ids
<1>10. q[1].id \notin Ids(r)
    BY <1>1, <1>2, <1>5 DEF Ids
<1>11. \A i \in DOMAIN h : h[i] # q[1].id
    BY <1>1, <1>2, <1>6
<1> QED
    BY <1>1, <1>8, <1>9, <1>10, <1>11 DEF r

LEMMA LineHandle ==
    ASSUME NEW h \in Seq(Nat), NEW n \in Nat, NEW q \in Seq(Message), Lined(h, {n}, q)
    PROVE  /\ Lined(Append(h, n), {}, q)
           /\ {Append(h, n)[i] : i \in DOMAIN Append(h, n)} = {h[i] : i \in DOMAIN h} \cup {n}
<1> DEFINE g == Append(h, n)
<1>1. /\ DOMAIN h = 1 .. Len(h) /\ DOMAIN g = 1 .. Len(h) + 1 /\ Len(h) \in Nat
      /\ \A i \in 1 .. Len(h) : g[i] = h[i]
      /\ g[Len(h) + 1] = n
    OBVIOUS
<1> HIDE DEF g
<1>2. \A i, j \in DOMAIN g : i < j => g[i] < g[j]
    BY <1>1 DEF Lined
<1>3. \A i \in DOMAIN g, j \in DOMAIN q : g[i] < q[j].id
    BY <1>1 DEF Lined
<1>4. Lined(g, {}, q)
    BY <1>2, <1>3 DEF Lined
<1>5. {g[i] : i \in DOMAIN g} = {h[i] : i \in DOMAIN h} \cup {n}
    <2>1. \A i \in DOMAIN g : i = Len(h) + 1 \/ (i \in DOMAIN h /\ g[i] = h[i])
        BY <1>1
    <2>2. Len(h) + 1 \in DOMAIN g /\ \A i \in DOMAIN h : i \in DOMAIN g
        BY <1>1
    <2> QED
        BY <1>1, <2>1, <2>2
<1> QED
    BY <1>4, <1>5 DEF g

LEMMA LineSend ==
    ASSUME NEW h, NEW x, NEW q \in Seq(Message), NEW m \in Message, Lined(h, x, q),
           \A i \in DOMAIN h : h[i] < m.id,
           \A n \in x : n < m.id,
           \A i \in DOMAIN q : q[i].id < m.id
    PROVE  Lined(h, x, Append(q, m)) /\ Ids(Append(q, m)) = Ids(q) \cup {m.id}
<1> DEFINE g == Append(q, m)
<1>1. /\ DOMAIN q = 1 .. Len(q) /\ DOMAIN g = 1 .. Len(q) + 1 /\ Len(q) \in Nat
      /\ \A i \in 1 .. Len(q) : g[i] = q[i]
      /\ g[Len(q) + 1] = m
    OBVIOUS
<1> HIDE DEF g
<1>2. Increasing(g)
    BY <1>1 DEF Lined, Increasing
<1>3. Lined(h, x, g)
    BY <1>1, <1>2 DEF Lined
<1>4. Ids(g) = Ids(q) \cup {m.id}
    BY <1>1 DEF Ids
<1> QED
    BY <1>3, <1>4 DEF g

LEMMA LineFewer ==
    ASSUME NEW h, NEW x, NEW q, NEW r, Lined(h, x, q), From(r, q), Increasing(r)
    PROVE  Lined(h, x, r) /\ Ids(r) \subseteq Ids(q)
BY DEF Lined, From, Ids

LEMMA InitAccount == Init => Ordered /\ Settled
<1> SUFFICES ASSUME Init
             PROVE  Ordered /\ Settled
    OBVIOUS
<1>1. \A s \in Side : /\ handled[s] = <<>> /\ queue[s] = <<>> /\ Hand(s) = {}
                      /\ DOMAIN handled[s] = {} /\ DOMAIN queue[s] = {}
    BY Sides DEF Init, Hand, Taking
<1>2. \A s \in Side : Place(s) = {}
    BY <1>1 DEF Place, Given, Ids
<1>3. 1 .. iCommandIdCounter = {} /\ cleaned = {} /\ lost = {}
    BY DEF Init
<1> QED
    BY <1>1, <1>2, <1>3 DEF Ordered, Settled, Lined, Increasing, Side

(* One side's messages move, and some of them leave it: they are cleaned   *)
(* up or lost.                                                             *)
LEMMA Settle ==
    ASSUME Ordered, Settled, NEW s \in Side, NEW C, NEW L,
           iCommandIdCounter' = iCommandIdCounter,
           \A x \in Side \ {s} : Lined(handled'[x], Hand(x)', queue'[x]) /\ Place(x)' = Place(x),
           Lined(handled'[s], Hand(s)', queue'[s]),
           Place(s) = Place(s)' \cup C \cup L, Place(s)' \cap (C \cup L) = {}, C \cap L = {},
           cleaned' = cleaned \cup C, lost' = lost \cup L
    PROVE  Ordered' /\ Settled'
<1>1. Ordered'
    BY DEF Ordered
<1>2. C \subseteq Place(s) /\ L \subseteq Place(s)
    OBVIOUS
<1>3. cleaned' \cap lost' = {}
    BY <1>2 DEF Settled
<1>4. \A x \in Side : Place(x)' \subseteq Place(x)
    OBVIOUS
<1>5. Place("handler")' \cap Place("notifier")' = {}
    BY <1>4 DEF Settled, Side
<1>6. \A x \in Side : Place(x)' \cap (cleaned' \cup lost') = {}
    <2> SUFFICES ASSUME NEW x \in Side
                 PROVE  Place(x)' \cap (cleaned' \cup lost') = {}
        OBVIOUS
    <2>1. Place(x)' \cap (cleaned \cup lost) = {}
        BY <1>4 DEF Settled
    <2>2. Place(x)' \cap (C \cup L) = {}
        <3>1. CASE x = s
            BY <3>1
        <3>2. CASE x # s
            BY <1>2, <1>4, <3>2 DEF Settled, Side
        <3> QED
            BY <3>1, <3>2
    <2> QED
        BY <2>1, <2>2
<1>7. 1 .. iCommandIdCounter' = Place("handler")' \cup Place("notifier")' \cup cleaned' \cup lost'
    <2>1. CASE s = "handler"
        BY <2>1 DEF Settled, Side
    <2>2. CASE s = "notifier"
        BY <2>2 DEF Settled, Side
    <2> QED
        BY <2>1, <2>2 DEF Side
<1>8. Settled'
    BY <1>3, <1>5, <1>6, <1>7 DEF Settled
<1> QED
    BY <1>1, <1>8

LEMMA OneSideMoves ==
    ASSUME Ordered, Settled, NEW s \in Side,
           UNCHANGED <<iCommandIdCounter, cleaned, lost>>,
           \A x \in Side \ {s} : Lined(handled'[x], Hand(x)', queue'[x]) /\ Place(x)' = Place(x),
           Lined(handled'[s], Hand(s)', queue'[s]), Place(s)' = Place(s)
    PROVE  Ordered' /\ Settled'
<1> DEFINE None == {}
<1>1. /\ Place(s) = Place(s)' \cup None \cup None
      /\ Place(s)' \cap (None \cup None) = {} /\ None \cap None = {}
      /\ cleaned' = cleaned \cup None /\ lost' = lost \cup None
    OBVIOUS
<1> HIDE DEF None
<1> QED
    BY <1>1, Settle

(* Nothing moves.                                                          *)
LEMMA NothingMoves ==
    ASSUME Ordered, Settled, UNCHANGED <<iCommandIdCounter, queue, fates>>,
           \A s \in Side : Hand(s)' = Hand(s)
    PROVE  Ordered' /\ Settled'
<1>1. UNCHANGED <<iCommandIdCounter, queue, handled, cleaned, lost>>
    BY DEF fates
<1>2. \A s \in Side : Place(s)' = Place(s)
    BY <1>1 DEF Place, Given, Ids
<1>3. Ordered'
    BY <1>1 DEF Ordered, Lined, Increasing
<1>4. Settled'
    BY <1>1, <1>2 DEF Settled, Side
<1> QED
    BY <1>3, <1>4

(* The actions.                                                            *)
LEMMA HandTyped ==
    ASSUME Threads, NEW s \in Side
    PROVE  /\ queue[s] \in Seq(Message) /\ handled[s] \in Seq(Nat)
           /\ Hand(s) \subseteq Nat
           /\ queue \in [Side -> Seq(Message)] /\ DOMAIN handled = Side
           /\ DOMAIN msg = Thread /\ DOMAIN pc = Thread /\ Runner(s) \in Thread
           /\ \A x \in Side \ {s} : Runner(x) # Runner(s)
<1>1. queue[s] \in Seq(Message) /\ queue \in [Side -> Seq(Message)] /\ DOMAIN handled = Side
      /\ DOMAIN msg = Thread /\ DOMAIN pc = Thread
    BY DEF Threads, TypeOK
<1>2. handled[s] \in Seq(Nat)
    <2>1. handled[s] \in Seq(1 .. NumMessages) /\ 1 .. NumMessages \subseteq Nat
        BY BoundsAssumption DEF Threads, TypeOK
    <2> QED
        BY <2>1, SeqMonotonic
<1>3. Hand(s) \subseteq Nat
    BY Sides, MessageTyped, BoundsAssumption DEF Hand, Threads, TypeOK, MessagesInHand
<1>4. Runner(s) \in Thread /\ \A x \in Side \ {s} : Runner(x) # Runner(s)
    BY Sides DEF Side
<1> QED
    BY <1>1, <1>2, <1>3, <1>4

(* The ids of a line's parts differ.                                       *)
LEMMA Apart ==
    ASSUME Threads, NEW s \in Side, Lined(handled[s], Hand(s), queue[s])
    PROVE  /\ (Given(s) \cup Hand(s)) \cap Ids(queue[s]) = {}
           /\ Given(s) \cap Hand(s) = {}
<1>1. \A i \in DOMAIN queue[s] : queue[s][i].id \in Nat
    BY HandTyped, MessageTyped, BoundsAssumption
<1>2. \A i \in DOMAIN handled[s] : handled[s][i] \in Nat
    BY HandTyped
<1>3. Hand(s) \subseteq Nat
    BY HandTyped
<1>4. Given(s) \cap Ids(queue[s]) = {}
    BY <1>1, <1>2 DEF Lined, Given, Ids
<1>5. Hand(s) \cap Ids(queue[s]) = {}
    BY <1>1, <1>3 DEF Lined, Ids
<1>6. Given(s) \cap Hand(s) = {}
    BY <1>2, <1>3 DEF Lined, Given
<1> QED
    BY <1>4, <1>5, <1>6

LEMMA ElsewhereAccount ==
    ASSUME Threads, Ordered, Settled, Elsewhere
    PROVE  Ordered' /\ Settled'
<1> DEFINE Same == /\ UNCHANGED <<iCommandIdCounter, queue, fates>>
                   /\ \A t \in Thread : /\ pc'[t] \in Taking <=> pc[t] \in Taking
                                        /\ pc[t] \in Taking => msg'[t] = msg[t]
<1>1. ASSUME Same
      PROVE  Ordered' /\ Settled'
    <2>1. \A s \in Side : Hand(s)' = Hand(s)
        BY <1>1, Sides DEF Hand
    <2> QED
        BY <1>1, <2>1, NothingMoves
<1>2. DOMAIN pc = Thread /\ DOMAIN msg = Thread
    BY DEF Threads, TypeOK
<1>3. ASSUME RegisterProxiedInterface
      PROVE  Same
    BY <1>3 DEF RegisterProxiedInterface, sent, calls
<1>4. ASSUME NEW p \in Interface, Unregister(p)
      PROVE  Same
    BY <1>2, <1>4 DEF Unregister, Goto, list, sent, Taking
<1>5. ASSUME NEW p \in Interface, NEW s \in Side, NEW id, Cancel(s, p, id)
      PROVE  Same
    BY <1>2, <1>5, Sides DEF Cancel, Goto, list, sent, Taking
<1>6. ASSUME NEW s \in Side, RunBegins(s)
      PROVE  Same
    BY <1>2, <1>6, Sides DEF RunBegins, Goto, list, sent, calls, Taking
<1>7. ASSUME NEW t \in Thread, HandleReturns(t)
      PROVE  Same
    BY <1>2, <1>7 DEF HandleReturns, Goto, list, sent, Taking
<1>8. ASSUME StartPVThread
      PROVE  Same
    <2>1. pc["pv"] = "none"
        BY <1>8 DEF StartPVThread, Threads, Life
    <2> QED
        BY <1>2, <1>8, <2>1 DEF StartPVThread, list, sent, calls, Taking, Thread
<1>9. ASSUME InThread
      PROVE  Same
    <2>1. pc["app"] = "startwait"
        BY <1>9 DEF InThread, Threads, Life
    <2> QED
        BY <1>2, <1>9, <2>1 DEF InThread, list, sent, calls, Taking, Thread
<1>10. ASSUME StopPVThread \/ StopReturns
       PROVE  Same
    BY <1>2, <1>10 DEF StopPVThread, StopReturns, Goto, list, sent, calls, Taking
<1>11. ASSUME LoopEnds
       PROVE  Same
    BY <1>2, <1>11 DEF LoopEnds, Goto, list, sent, Taking
<1>12. ASSUME CleanupPVThreadQueues \/ CleanupEnds \/ ThreadExits
       PROVE  Same
    BY <1>2, <1>12 DEF CleanupPVThreadQueues, CleanupEnds, ThreadExits, Goto, list, sent, calls, Taking
<1> HIDE DEF Same
<1> QED
    BY <1>1, <1>3, <1>4, <1>5, <1>6, <1>7, <1>8, <1>9, <1>10, <1>11, <1>12 DEF Elsewhere

LEMMA SendAccount ==
    ASSUME Threads, Ordered, Settled, NEW s \in Side, NEW p \in Interface, Send(s, p)
    PROVE  Ordered' /\ Settled'
<1> DEFINE n == iCommandIdCounter
           m == [id |-> n + 1, proxy |-> p]
<1>1. n \in Nat /\ n' = n + 1 /\ m \in Message
      /\ queue' = [queue EXCEPT ![s] = Append(queue[s], m)]
    BY SendThreads
<1>2. m.id = n + 1
    OBVIOUS
<1>3. UNCHANGED <<pc, msg, handled, cleaned, lost>>
    BY DEF Send, calls, fates
<1> HIDE DEF m
<1>4. \A x \in Side : Place(x) \subseteq 1 .. n /\ Hand(x)' = Hand(x) /\ Given(x)' = Given(x)
    BY <1>3 DEF Settled, Hand, Given, Side
<1>5. \A x \in Side \ {s} : queue'[x] = queue[x] /\ Place(x)' = Place(x)
    BY <1>1, <1>4, HandTyped DEF Place
<1>6. /\ \A i \in DOMAIN handled[s] : handled[s][i] < m.id
      /\ \A k \in Hand(s) : k < m.id
      /\ \A i \in DOMAIN queue[s] : queue[s][i].id < m.id
    <2>1. \A k \in 1 .. n : k < n + 1
        BY <1>1
    <2> HIDE DEF n
    <2> QED
        BY <1>2, <1>4, <2>1 DEF Place, Given, Ids
<1>7. /\ queue'[s] = Append(queue[s], m)
      /\ Lined(handled[s], Hand(s), queue'[s]) /\ Ids(queue'[s]) = Ids(queue[s]) \cup {m.id}
    <2>1. queue[s] \in Seq(Message) /\ queue'[s] = Append(queue[s], m)
        BY <1>1, HandTyped
    <2>2. Lined(handled[s], Hand(s), queue[s])
        BY DEF Ordered
    <2> QED
        BY <1>1, <1>6, <2>1, <2>2, LineSend
<1>8. Ordered'
    BY <1>3, <1>4, <1>5, <1>7 DEF Ordered
<1>9. Place(s)' = Place(s) \cup {n + 1}
    BY <1>2, <1>4, <1>7 DEF Place
<1>10. 1 .. n + 1 = (1 .. n) \cup {n + 1} /\ n + 1 \notin 1 .. n
    BY <1>1
<1> HIDE DEF n
<1>11. Settled'
    <2>1. 1 .. n' = Place("handler")' \cup Place("notifier")' \cup cleaned' \cup lost'
        BY <1>1, <1>3, <1>5, <1>9, <1>10 DEF Settled, Side, n
    <2>2. n + 1 \notin cleaned \cup lost /\ \A x \in Side : n + 1 \notin Place(x)
        BY <1>10 DEF Settled, n, Side
    <2>3. Place("handler")' \cap Place("notifier")' = {}
        BY <1>5, <1>9, <2>2 DEF Settled, Side
    <2>4. \A x \in Side : Place(x)' \cap (cleaned' \cup lost') = {}
        BY <1>3, <1>5, <1>9, <2>2 DEF Settled
    <2>5. cleaned' \cap lost' = {}
        BY <1>3 DEF Settled
    <2> QED
        BY <2>1, <2>3, <2>4, <2>5 DEF Settled, n
<1> QED
    BY <1>8, <1>11

LEMMA CleanupAccount ==
    ASSUME Threads, Ordered, Settled, NEW s \in Side, NEW i, NEW id, Cleanup(s, i, id),
           UNCHANGED <<iCommandIdCounter, handled, lost, msg>>,
           \A t \in Thread : pc'[t] \in Taking <=> pc[t] \in Taking
    PROVE  Ordered' /\ Settled'
<1> DEFINE r == Left(queue[s], slots[i], id)
           C == Ids(queue[s]) \ Ids(r)
<1>1. \A x \in Side : Hand(x)' = Hand(x) /\ Given(x)' = Given(x)
    BY Sides DEF Hand, Given
<1>2. queue' = [queue EXCEPT ![s] = r] /\ queue[s] \in Seq(Message) /\ DOMAIN queue = Side
    BY CleanupTyped, HandTyped DEF Threads
<1>3. From(r, queue[s]) /\ Increasing(r)
    BY <1>2, LeftOf DEF Ordered, Lined, From
<1>4. cleaned' = cleaned \cup C /\ lost' = lost \cup {}
    BY <1>2, CleanupTyped DEF Threads
<1> HIDE DEF r
<1>5. Lined(handled[s], Hand(s), queue[s])
    BY DEF Ordered
<1>6. Lined(handled[s], Hand(s), r) /\ Ids(r) \subseteq Ids(queue[s])
    BY <1>3, <1>5, LineFewer
<1>7. Place(s)' = Given(s) \cup Hand(s) \cup Ids(r)
    BY <1>1, <1>2 DEF Place
<1>8. (Given(s) \cup Hand(s)) \cap Ids(queue[s]) = {}
    BY <1>5, Apart
<1>9. Place(s) = Place(s)' \cup C \cup {} /\ Place(s)' \cap (C \cup {}) = {}
    BY <1>6, <1>7, <1>8 DEF Place
<1>10. \A x \in Side \ {s} :
         Lined(handled'[x], Hand(x)', queue'[x]) /\ Place(x)' = Place(x)
    BY <1>1, <1>2 DEF Ordered, Place
<1>11. Lined(handled'[s], Hand(s)', queue'[s])
    BY <1>1, <1>2, <1>6
<1> HIDE DEF C
<1> QED
    BY <1>4, <1>9, <1>10, <1>11, Settle

LEMMA TakeAccount ==
    ASSUME Threads, Ordered, Settled, NEW s \in Side, TakeFirst(s, Runner(s)),
           pc[Runner(s)] \notin Taking,
           UNCHANGED <<iCommandIdCounter, fates>>
    PROVE  Ordered' /\ Settled'
<1> DEFINE q == queue[s]
           t == Runner(s)
<1>1. /\ q \in Seq(Message) /\ q # <<>> /\ queue' = [queue EXCEPT ![s] = Tail(q)]
      /\ msg' = [msg EXCEPT ![t] = Head(q)] /\ pc' = [pc EXCEPT ![t] = "find"]
    BY TakeFirstTyped DEF Threads
<1>2. UNCHANGED <<iCommandIdCounter, handled, cleaned, lost>>
    BY DEF fates
<1>3. Hand(s) = {} /\ Hand(s)' = {Head(q).id} /\ queue'[s] = Tail(q)
    BY <1>1, HandTyped DEF Hand, Taking
<1>4. Lined(handled[s], {}, q)
    BY <1>3 DEF Ordered
<1>5. Lined(handled[s], {Head(q).id}, Tail(q)) /\ Ids(q) = {Head(q).id} \cup Ids(Tail(q))
    BY <1>1, <1>4, LineTake
<1>6. Place(s)' = Place(s)
    BY <1>2, <1>3, <1>5 DEF Place, Given
<1>7. \A x \in Side \ {s} : Hand(x)' = Hand(x) /\ queue'[x] = queue[x]
    BY <1>1, HandTyped DEF Hand
<1>8. \A x \in Side \ {s} :
        Lined(handled'[x], Hand(x)', queue'[x]) /\ Place(x)' = Place(x)
    BY <1>2, <1>7 DEF Ordered, Place, Given
<1>9. Lined(handled'[s], Hand(s)', queue'[s])
    BY <1>2, <1>3, <1>5
<1> HIDE DEF q, t
<1> QED
    BY <1>2, <1>6, <1>8, <1>9, OneSideMoves

LEMMA RunTakesAccount ==
    ASSUME Threads, Ordered, Settled, NEW s \in Side, RunTakes(s)
    PROVE  Ordered' /\ Settled'
<1>1. pc[Runner(s)] = "run" /\ UNCHANGED <<iCommandIdCounter, fates>>
    BY DEF RunTakes
<1>2. CASE TakeFirst(s, Runner(s))
    BY <1>1, <1>2, TakeAccount DEF Taking
<1>3. CASE pc' = [pc EXCEPT ![Runner(s)] = "idle"] /\ UNCHANGED <<queue, msg>>
    <2>1. \A x \in Side : Hand(x)' = Hand(x)
        BY <1>1, <1>3, HandTyped DEF Hand, Taking
    <2> QED
        BY <1>1, <1>3, <2>1, NothingMoves
<1> QED
    BY <1>2, <1>3 DEF RunTakes, Goto

LEMMA HandleAccount ==
    ASSUME Threads, Ordered, Settled, NEW s \in Side, Handle(s)
    PROVE  Ordered' /\ Settled'
<1> DEFINE t == Runner(s)
           n == msg[t].id
           h == handled[s]
<1>1. /\ n \in Nat /\ h \in Seq(Nat) /\ queue[s] \in Seq(Message)
      /\ handled' = [handled EXCEPT ![s] = Append(h, n)] /\ DOMAIN handled = Side
    BY HandleThreads, HandTyped, MessageTyped, BoundsAssumption
<1>2. pc[t] = "call" /\ pc' = [pc EXCEPT ![t] = "handle"]
      /\ UNCHANGED <<iCommandIdCounter, queue, msg, cleaned, lost>>
    BY DEF Handle, Goto, sent, calls
<1>3. Hand(s) = {n} /\ Hand(s)' = {}
    BY <1>2, HandTyped DEF Hand, Taking
<1>4. \A x \in Side \ {s} : Hand(x)' = Hand(x) /\ handled'[x] = handled[x]
    BY <1>1, <1>2, HandTyped DEF Hand
<1>5. handled'[s] = Append(h, n)
    BY <1>1
<1>6. Lined(h, {n}, queue[s])
    BY <1>3 DEF Ordered
<1> HIDE DEF n, h, t
<1>7. Lined(Append(h, n), {}, queue[s])
      /\ {Append(h, n)[i] : i \in DOMAIN Append(h, n)} = {h[i] : i \in DOMAIN h} \cup {n}
    BY <1>1, <1>6, LineHandle
<1>8. Given(s)' = Given(s) \cup {n}
    BY <1>5, <1>7 DEF Given, h
<1>9. Place(s)' = Place(s)
    BY <1>2, <1>3, <1>8 DEF Place
<1>10. \A x \in Side \ {s} :
         Lined(handled'[x], Hand(x)', queue'[x]) /\ Place(x)' = Place(x)
    BY <1>2, <1>4 DEF Ordered, Place, Given
<1>11. Lined(handled'[s], Hand(s)', queue'[s])
    BY <1>2, <1>3, <1>5, <1>7
<1> QED
    BY <1>2, <1>9, <1>10, <1>11, OneSideMoves

LEMMA FindInterfaceAccount ==
    ASSUME Threads, Ordered, Settled, NEW t \in Thread, FindInterface(t)
    PROVE  Ordered' /\ Settled'
<1>1. pc[t] = "find" /\ UNCHANGED <<iCommandIdCounter, queue, handled, cleaned>>
    BY DEF FindInterface, sent
<1>2. CASE pc' = [pc EXCEPT ![t] = "call"] /\ UNCHANGED <<msg, lost>>
    <2>1. \A x \in Side : Hand(x)' = Hand(x)
        BY <1>1, <1>2, HandTyped DEF Hand, Taking
    <2> QED
        BY <1>1, <1>2, <2>1, NothingMoves DEF fates
<1>3. CASE lost' = lost \cup {msg[t].id} /\ pc' = [pc EXCEPT ![t] = "idle"]
           /\ msg' = [msg EXCEPT ![t] = NoMsg]
    <2>1. PICK s \in Side : t = Runner(s)
        BY Sides DEF Side, Thread
    <2> DEFINE n == msg[t].id
    <2>2. Hand(s) = {n} /\ Hand(s)' = {}
        BY <1>1, <1>3, <2>1, HandTyped DEF Hand, Taking
    <2>3. \A x \in Side \ {s} : Hand(x)' = Hand(x)
        BY <1>3, <2>1, HandTyped DEF Hand
    <2> HIDE DEF n
    <2>4. Lined(handled[s], {n}, queue[s])
        BY <2>2 DEF Ordered
    <2>5. Lined(handled'[s], Hand(s)', queue'[s])
        BY <1>1, <2>2, <2>4 DEF Lined
    <2>6. n \notin Given(s) \cup Ids(queue[s])
        BY <2>2, <2>4, Apart
    <2>7. Place(s) = Place(s)' \cup {} \cup {n} /\ Place(s)' \cap ({} \cup {n}) = {}
        BY <1>1, <2>2, <2>6 DEF Place, Given
    <2>8. cleaned' = cleaned \cup {} /\ lost' = lost \cup {n} /\ {} \cap {n} = {}
        BY <1>1, <1>3 DEF n
    <2>9. \A x \in Side \ {s} :
            Lined(handled'[x], Hand(x)', queue'[x]) /\ Place(x)' = Place(x)
        BY <1>1, <2>3 DEF Ordered, Place, Given
    <2> QED
        BY <1>1, <2>5, <2>7, <2>8, <2>9, Settle
<1> QED
    BY <1>2, <1>3 DEF FindInterface, Goto

LEMMA CleanupOneAccount ==
    ASSUME Threads, Ordered, Settled, CleanupOne
    PROVE  Ordered' /\ Settled'
<1> DEFINE q == queue["notifier"]
           n == Head(q).id
<1>1. /\ q \in Seq(Message) /\ q # <<>> /\ queue' = [queue EXCEPT !["notifier"] = Tail(q)]
      /\ DOMAIN queue = Side
    BY CleanupOneThreads DEF Threads, TypeOK
<1>2. UNCHANGED <<iCommandIdCounter, handled, pc, msg>> /\ "notifier" \in Side
    BY DEF CleanupOne, calls, Side
<1>3. \A x \in Side : Hand(x)' = Hand(x) /\ Given(x)' = Given(x)
    BY <1>2 DEF Hand, Given
<1>4. Lined(handled["notifier"], Hand("notifier"), q)
    BY <1>2 DEF Ordered
<1>5. /\ Lined(handled["notifier"], Hand("notifier"), Tail(q))
      /\ Ids(q) = {n} \cup Ids(Tail(q)) /\ n \notin Ids(Tail(q))
    <2> DEFINE h == handled["notifier"]
    <2>1. Lined(h, {}, q)
        BY <1>4 DEF Lined
    <2>2. /\ Lined(h, {n}, Tail(q)) /\ Ids(q) = {n} \cup Ids(Tail(q))
          /\ n \notin Ids(Tail(q))
        BY <1>1, <2>1, LineTake
    <2>3. Increasing(Tail(q)) /\ From(Tail(q), q)
        BY <1>1, <2>2, FromTail DEF Lined
    <2> HIDE DEF n, q, h
    <2> QED
        BY <1>4, <2>2, <2>3, LineFewer DEF h
<1>6. (Given("notifier") \cup Hand("notifier")) \cap Ids(q) = {}
    BY <1>2, <1>4, Apart
<1> HIDE DEF n
<1>7. queue'["notifier"] = Tail(q) /\ \A x \in Side \ {"notifier"} : queue'[x] = queue[x]
    BY <1>1, <1>2
<1>8. Place("notifier") = Place("notifier")' \cup {n} /\ n \notin Place("notifier")'
    BY <1>2, <1>3, <1>5, <1>6, <1>7 DEF Place
<1>9. \A x \in Side \ {"notifier"} :
        Lined(handled'[x], Hand(x)', queue'[x]) /\ Place(x)' = Place(x)
    BY <1>2, <1>3, <1>7 DEF Ordered, Place
<1>10. Lined(handled'["notifier"], Hand("notifier")', queue'["notifier"])
    BY <1>2, <1>3, <1>5, <1>7
<1>11. CASE cleaned' = cleaned \cup {n} /\ lost' = lost
    <2> DEFINE C == {n}
               L == {}
    <2>1. /\ Place("notifier") = Place("notifier")' \cup C \cup L
          /\ Place("notifier")' \cap (C \cup L) = {} /\ C \cap L = {}
          /\ cleaned' = cleaned \cup C /\ lost' = lost \cup L
        BY <1>8, <1>11
    <2> HIDE DEF C, L
    <2> QED
        BY <1>2, <1>9, <1>10, <2>1, Settle
<1>12. CASE lost' = lost \cup {n} /\ cleaned' = cleaned
    <2> DEFINE C == {}
               L == {n}
    <2>1. /\ Place("notifier") = Place("notifier")' \cup C \cup L
          /\ Place("notifier")' \cap (C \cup L) = {} /\ C \cap L = {}
          /\ cleaned' = cleaned \cup C /\ lost' = lost \cup L
        BY <1>8, <1>12
    <2> HIDE DEF C, L
    <2> QED
        BY <1>2, <1>9, <1>10, <2>1, Settle
<1> QED
    BY <1>11, <1>12 DEF CleanupOne, n

LEMMA DeleteAccount ==
    ASSUME Threads, Ordered, Settled, Delete
    PROVE  Ordered' /\ Settled'
<1> DEFINE q == queue["handler"]
           C == {q[i].id : i \in {i \in DOMAIN q : q[i].proxy \in Registered}}
           L == Ids(q) \ C
<1>1. /\ "handler" \in Side /\ DOMAIN queue = Side /\ DOMAIN pc = Thread
      /\ queue' = [queue EXCEPT !["handler"] = <<>>]
      /\ UNCHANGED <<iCommandIdCounter, handled, msg>>
      /\ pc' = [pc EXCEPT !["app"] = "deleted"] /\ pc["app"] = "idle"
    BY DEF Delete, Goto, calls, Side, Threads, TypeOK
<1>2. \A x \in Side : Hand(x)' = Hand(x) /\ Given(x)' = Given(x)
    BY <1>1, HandTyped DEF Hand, Given, Taking
<1>3. Lined(handled["handler"], Hand("handler"), q)
    BY <1>1 DEF Ordered
<1>4. (Given("handler") \cup Hand("handler")) \cap Ids(q) = {}
    BY <1>1, <1>3, Apart
<1>5. C \subseteq Ids(q)
    BY DEF Ids
<1>6. cleaned' = cleaned \cup C /\ lost' = lost \cup L
    <2>1. cleaned' = cleaned \cup C /\ lost' = lost \cup (Ids(q) \ cleaned')
        BY DEF Delete
    <2>2. Ids(q) \cap cleaned = {}
        BY <1>1 DEF Settled, Place
    <2> HIDE DEF C, q
    <2> QED
        BY <2>1, <2>2
<1>7. queue'["handler"] = <<>> /\ \A x \in Side \ {"handler"} : queue'[x] = queue[x]
    BY <1>1
<1>8. Ids(queue'["handler"]) = {} /\ Lined(handled'["handler"], Hand("handler")', queue'["handler"])
    BY <1>1, <1>2, <1>3, <1>7 DEF Ids, Lined, Increasing
<1>9. \A x \in Side \ {"handler"} :
        Lined(handled'[x], Hand(x)', queue'[x]) /\ Place(x)' = Place(x)
    BY <1>1, <1>2, <1>7 DEF Ordered, Place
<1> HIDE DEF C
<1>10. /\ Place("handler") = Place("handler")' \cup C \cup L
       /\ Place("handler")' \cap (C \cup L) = {} /\ C \cap L = {}
    <2>1. Place("handler") = Given("handler") \cup Hand("handler") \cup Ids(q)
        BY DEF Place
    <2>2. Place("handler")' = Given("handler") \cup Hand("handler")
        BY <1>1, <1>2, <1>8 DEF Place
    <2> HIDE DEF q
    <2> QED
        BY <1>4, <1>5, <2>1, <2>2
<1> HIDE DEF L, q
<1> QED
    BY <1>1, <1>6, <1>8, <1>9, <1>10, Settle

LEMMA NextAccount ==
    ASSUME Threads, Ordered, Settled, Named
    PROVE  Ordered' /\ Settled'
<1>1. ASSUME UnregisterCommands
      PROVE  Ordered' /\ Settled'
    <2>1. "handler" \in Side /\ Cleanup("handler", ptr["app"], All)
          /\ UNCHANGED <<iCommandIdCounter, handled, lost, msg>>
        BY <1>1 DEF UnregisterCommands, Side, calls
    <2>2. \A t \in Thread : pc'[t] \in Taking <=> pc[t] \in Taking
        BY <1>1 DEF UnregisterCommands, Goto, Taking, Threads, TypeOK
    <2> QED
        BY <2>1, <2>2, CleanupAccount
<1>2. ASSUME UnregisterNotifications
      PROVE  Ordered' /\ Settled'
    <2>1. "notifier" \in Side /\ Cleanup("notifier", ptr["app"], All)
          /\ UNCHANGED <<iCommandIdCounter, handled, lost, msg>>
        BY <1>2 DEF UnregisterNotifications, Side, calls
    <2>2. \A t \in Thread : pc'[t] \in Taking <=> pc[t] \in Taking
        BY <1>2 DEF UnregisterNotifications, Goto, Taking, Threads, TypeOK
    <2> QED
        BY <2>1, <2>2, CleanupAccount
<1>3. ASSUME NEW s \in Side, CancelCleanup(s)
      PROVE  Ordered' /\ Settled'
    <2>1. Cleanup(s, ptr[Sender(s)], arg[Sender(s)])
          /\ UNCHANGED <<iCommandIdCounter, handled, lost, msg>>
        BY <1>3 DEF CancelCleanup, calls
    <2>2. \A t \in Thread : pc'[t] \in Taking <=> pc[t] \in Taking
        BY <1>3 DEF CancelCleanup, Goto, Taking, Threads, TypeOK
    <2> QED
        BY <2>1, <2>2, CleanupAccount
<1>4. ASSUME DeliverNotifications
      PROVE  Ordered' /\ Settled'
    BY <1>4, TakeAccount, Sides DEF DeliverNotifications, Taking, Side
<1> QED
    BY <1>1, <1>2, <1>3, <1>4, ElsewhereAccount, SendAccount, RunTakesAccount, HandleAccount,
       FindInterfaceAccount, CleanupOneAccount, DeleteAccount DEF Named
-----------------------------------------------------------------------------
(* What the invariants say of the counts and of the line as a sequence.    *)
LEMMA CountOf ==
    ASSUME NEW q, \A i, j \in DOMAIN q : q[i] = q[j] => i = j, NEW id
    PROVE  Cardinality({i \in DOMAIN q : q[i] = id})
             = IF id \in {q[i] : i \in DOMAIN q} THEN 1 ELSE 0
<1>1. CASE id \in {q[i] : i \in DOMAIN q}
    <2>1. PICK k \in DOMAIN q : q[k] = id
        BY <1>1
    <2>2. {i \in DOMAIN q : q[i] = id} = {k}
        BY <2>1
    <2> QED
        BY <1>1, <2>2, FS_Singleton
<1>2. CASE id \notin {q[i] : i \in DOMAIN q}
    <2>1. {i \in DOMAIN q : q[i] = id} = {}
        BY <1>2
    <2> QED
        BY <1>2, <2>1, FS_EmptySet
<1> QED
    BY <1>1, <1>2

LEMMA HeldIs ==
    ASSUME Threads, NEW s \in Side
    PROVE  \/ Held(s) = <<>> /\ Hand(s) = {}
           \/ Held(s) = <<msg[Runner(s)].id>> /\ Hand(s) = {msg[Runner(s)].id}
BY Sides DEF Held, Hand, Threads, MessagesInHand, Taking

LEMMA LineInOrder ==
    ASSUME NEW h \in Seq(Nat), NEW x \in Seq(Nat), NEW q \in Seq(Message), Len(x) <= 1,
           Lined(h, {x[i] : i \in DOMAIN x}, q)
    PROVE  LET ids == h \o x \o [i \in DOMAIN q |-> q[i].id]
           IN  \A i, j \in DOMAIN ids : i < j => ids[i] < ids[j]
<1> DEFINE g == [i \in DOMAIN q |-> q[i].id]
           hx == h \o x
           ids == hx \o g
<1>1. g \in Seq(Nat) /\ Len(g) = Len(q) /\ \A i \in DOMAIN g : g[i] = q[i].id /\ i \in DOMAIN q
    <2>1. DOMAIN q = 1 .. Len(q) /\ Len(q) \in Nat /\ \A i \in DOMAIN q : q[i].id \in Nat
        BY MessageTyped, BoundsAssumption
    <2>2. g \in [1 .. Len(q) -> Nat]
        BY <2>1
    <2>3. g \in Seq(Nat) /\ Len(g) = Len(q)
        BY <2>1, <2>2, IsASeq
    <2> QED
        BY <2>3
<1> HIDE DEF g
<1>2. /\ hx \in Seq(Nat) /\ Len(hx) = Len(h) + Len(x) /\ Len(h) \in Nat /\ Len(x) \in Nat
      /\ \A i \in 1 .. Len(h) : hx[i] = h[i]
      /\ \A i \in Len(h) + 1 .. Len(hx) : hx[i] = x[i - Len(h)] /\ i - Len(h) \in 1 .. Len(x)
      /\ DOMAIN h = 1 .. Len(h) /\ DOMAIN x = 1 .. Len(x) /\ DOMAIN hx = 1 .. Len(hx)
    OBVIOUS
<1> HIDE DEF hx
<1>3. \A i, j \in DOMAIN hx : i < j => hx[i] < hx[j]
    <2> SUFFICES ASSUME NEW i \in DOMAIN hx, NEW j \in DOMAIN hx, i < j
                 PROVE  hx[i] < hx[j]
        OBVIOUS
    <2>1. i \in 1 .. Len(h)
        BY <1>2
    <2>2. CASE j \in 1 .. Len(h)
        BY <1>2, <2>1, <2>2 DEF Lined
    <2>3. CASE j \in Len(h) + 1 .. Len(hx)
        BY <1>2, <2>1, <2>3 DEF Lined
    <2> QED
        BY <1>2, <2>2, <2>3
<1>4. \A i \in DOMAIN hx, j \in DOMAIN g : hx[i] < g[j]
    <2> SUFFICES ASSUME NEW i \in DOMAIN hx, NEW j \in DOMAIN g
                 PROVE  hx[i] < g[j]
        OBVIOUS
    <2>1. CASE i \in 1 .. Len(h)
        BY <1>1, <1>2, <2>1 DEF Lined
    <2>2. CASE i \in Len(h) + 1 .. Len(hx)
        BY <1>1, <1>2, <2>2 DEF Lined
    <2> QED
        BY <1>2, <2>1, <2>2
<1>5. \A i, j \in DOMAIN g : i < j => g[i] < g[j]
    BY <1>1 DEF Lined, Increasing
<1>6. /\ DOMAIN ids = 1 .. Len(hx) + Len(g) /\ Len(hx) \in Nat /\ Len(g) \in Nat
      /\ DOMAIN hx = 1 .. Len(hx) /\ DOMAIN g = 1 .. Len(g)
      /\ \A i \in 1 .. Len(hx) : ids[i] = hx[i]
      /\ \A i \in Len(hx) + 1 .. Len(hx) + Len(g) : ids[i] = g[i - Len(hx)]
    <2>1. hx \in Seq(Nat) /\ g \in Seq(Nat)
        BY <1>1, <1>2
    <2> QED
        BY <2>1
<1> HIDE DEF ids
<1> DEFINE a == Len(hx)
           b == Len(g)
<1>7. /\ a \in Nat /\ b \in Nat /\ DOMAIN hx = 1 .. a /\ DOMAIN g = 1 .. b
      /\ DOMAIN ids = 1 .. a + b
      /\ \A i \in 1 .. a : ids[i] = hx[i]
      /\ \A i \in a + 1 .. a + b : ids[i] = g[i - a]
    BY <1>6
<1> HIDE DEF a, b
<1>8. ASSUME NEW i \in 1 .. a + b, NEW j \in 1 .. a + b, i < j
      PROVE  ids[i] < ids[j]
    <2>1. CASE j \in 1 .. a
        <3>1. i \in 1 .. a
            BY <1>7, <1>8, <2>1
        <3> QED
            BY <1>3, <1>7, <1>8, <2>1, <3>1
    <2>2. CASE i \in 1 .. a /\ j \in a + 1 .. a + b
        <3>1. j - a \in 1 .. b
            BY <1>7, <2>2
        <3> QED
            BY <1>4, <1>7, <2>2, <3>1
    <2>3. CASE i \in a + 1 .. a + b /\ j \in a + 1 .. a + b
        <3>1. j - a \in 1 .. b /\ i - a \in 1 .. b /\ i - a < j - a
            BY <1>7, <1>8, <2>3
        <3> QED
            BY <1>5, <1>7, <2>3, <3>1
    <2> QED
        BY <1>7, <1>8, <2>1, <2>2, <2>3
<1> QED
    BY <1>7, <1>8 DEF ids, hx, g
-----------------------------------------------------------------------------
IInv == Threads /\ Commands /\ Ordered /\ Settled

(* The inductive invariant holds in every reachable state.                 *)
THEOREM Invariance == Spec => []IInv
<1>1. Init => IInv
    BY InitThreads, InitCommands, InitAccount DEF IInv
<1>2. IInv /\ [Next]_vars => IInv'
    <2>1. ASSUME IInv, Next
          PROVE  IInv'
        BY <2>1, NextNamed, NextThreads, NextCommands, NextAccount DEF IInv
    <2>2. ASSUME IInv, UNCHANGED vars
          PROVE  IInv'
        <3>1. UNCHANGED <<list, sent, locks, aos, life, pc, calls, fates>>
            BY <2>2 DEF vars
        <3>2. Threads'
            BY <2>2, <3>1 DEF IInv, Threads, TypeOK, Life, MessagesInHand, ListLocked,
                list, sent, locks, aos, life, calls, fates
        <3>3. Commands'
            BY <2>2, <3>1 DEF IInv, Commands, CommandsAreRegistered, Registered, list, sent, calls
        <3>4. \A s \in Side : Hand(s)' = Hand(s)
            BY <3>1 DEF Hand, calls
        <3>5. Ordered' /\ Settled'
            BY <2>2, <3>1, <3>4, NothingMoves DEF IInv, sent
        <3> QED
            BY <3>2, <3>3, <3>5 DEF IInv
    <2> QED
        BY <2>1, <2>2
<1> QED
    BY <1>1, <1>2, PTL DEF Spec

(* The variables have their types, the locks and the threads among them.   *)
THEOREM TypeCorrect == Spec => []TypeOK
<1>1. IInv => TypeOK
    BY DEF IInv, Threads
<1> QED
    BY <1>1, Invariance, PTL

(* UnregisterProxiedInterface leaves no command of the interface queued,   *)
(* and none comes after it: the handler never meets a command of an        *)
(* interface that is not in iProxyList when the command is queued.         *)
THEOREM CommandsHaveAnInterface == Spec => []CommandsAreRegistered
<1>1. IInv => CommandsAreRegistered
    BY DEF IInv, Commands
<1> QED
    BY <1>1, Invariance, PTL

(* HandleCommand and HandleNotification get their messages in the order    *)
(* sent, whatever is cancelled or cleaned up in between.                   *)
THEOREM HandledInOrder == Spec => []InOrder
<1>1. IInv => InOrder
    <2> SUFFICES ASSUME IInv, NEW s \in Side
                 PROVE  LET ids == handled[s] \o Held(s)
                                     \o [i \in DOMAIN queue[s] |-> queue[s][i].id]
                        IN  \A i, j \in DOMAIN ids : i < j => ids[i] < ids[j]
        BY DEF InOrder
    <2>1. handled[s] \in Seq(Nat) /\ queue[s] \in Seq(Message) /\ Hand(s) \subseteq Nat
        BY HandTyped DEF IInv
    <2>2. Held(s) \in Seq(Nat) /\ Len(Held(s)) <= 1
          /\ Hand(s) = {Held(s)[i] : i \in DOMAIN Held(s)}
        <3>1. CASE Held(s) = <<>> /\ Hand(s) = {}
            BY <3>1
        <3>2. CASE Held(s) = <<msg[Runner(s)].id>> /\ Hand(s) = {msg[Runner(s)].id}
            BY <2>1, <3>2
        <3> QED
            BY <3>1, <3>2, HeldIs DEF IInv
    <2>3. Lined(handled[s], {Held(s)[i] : i \in DOMAIN Held(s)}, queue[s])
        BY <2>2 DEF IInv, Ordered
    <2> QED
        BY <2>1, <2>2, <2>3, LineInOrder
<1> QED
    BY <1>1, Invariance, PTL

(* Every message sent is in exactly one place: none is handled twice, none *)
(* is both handled and cleaned up, and none disappears.                    *)
THEOREM MessagesAccounted == Spec => []Accounted
<1>1. IInv => Accounted
    <2> SUFFICES ASSUME IInv, NEW id \in 1 .. iCommandIdCounter
                 PROVE  LET In(S) == IF id \in S THEN 1 ELSE 0
                            Times(q) == Cardinality({i \in DOMAIN q : q[i] = id})
                            On(s) == In(Ids(queue[s])) + Times(handled[s]) + Times(Held(s))
                        IN  On("handler") + On("notifier") + In(cleaned) + In(lost) = 1
        BY DEF Accounted
    <2> DEFINE In(S) == IF id \in S THEN 1 ELSE 0
               Times(q) == Cardinality({i \in DOMAIN q : q[i] = id})
               On(s) == In(Ids(queue[s])) + Times(handled[s]) + Times(Held(s))
    <2>1. ASSUME NEW s \in Side
          PROVE  On(s) = In(Place(s))
        <3>1. Lined(handled[s], Hand(s), queue[s])
            BY DEF IInv, Ordered
        <3>2. Times(handled[s]) = In(Given(s))
            <4>1. handled[s] \in Seq(Nat)
                BY HandTyped DEF IInv
            <4>2. \A i, j \in DOMAIN handled[s] : handled[s][i] = handled[s][j] => i = j
                BY <3>1, <4>1 DEF Lined
            <4> QED
                BY <4>2, CountOf DEF Given
        <3>3. Times(Held(s)) = In(Hand(s))
            <4>1. CASE Held(s) = <<>> /\ Hand(s) = {}
                <5>1. DOMAIN Held(s) = {}
                    BY <4>1
                <5> QED
                    BY <4>1, <5>1, FS_EmptySet
            <4>2. CASE Held(s) = <<msg[Runner(s)].id>> /\ Hand(s) = {msg[Runner(s)].id}
                <5>1. DOMAIN Held(s) = {1} /\ Held(s)[1] = msg[Runner(s)].id
                    BY <4>2
                <5>2. /\ \A i, j \in DOMAIN Held(s) : Held(s)[i] = Held(s)[j] => i = j
                      /\ Hand(s) = {Held(s)[i] : i \in DOMAIN Held(s)}
                    BY <4>2, <5>1
                <5>3. Times(Held(s)) = IF id \in {Held(s)[i] : i \in DOMAIN Held(s)} THEN 1 ELSE 0
                    BY <5>2, CountOf
                <5> QED
                    BY <5>2, <5>3
            <4> QED
                BY <4>1, <4>2, HeldIs DEF IInv
        <3>4. /\ (Given(s) \cup Hand(s)) \cap Ids(queue[s]) = {}
              /\ Given(s) \cap Hand(s) = {}
            BY <3>1, Apart DEF IInv
        <3> HIDE DEF Times
        <3> QED
            BY <3>2, <3>3, <3>4 DEF Place
    <2> HIDE DEF On
    <2>2. On("handler") = In(Place("handler")) /\ On("notifier") = In(Place("notifier"))
        BY <2>1 DEF Side
    <2>3. On("handler") + On("notifier") + In(cleaned) + In(lost) = 1
        BY <2>2 DEF IInv, Settled, Side
    <2> QED
        BY <2>3 DEF On
<1> QED
    BY <1>1, Invariance, PTL
================================================================================
