------------------------------- MODULE SrpProofs -------------------------------
(***************************************************************************)
(* Theorems about SRP: the types, the commands in flight, the order of     *)
(* what is passed up, what a response says, and that a packet that waits   *)
(* has a timer, for every window, modulus, number of repetitions and use.  *)
(*                                                                         *)
(* The invariant IInv says of every end that its commands in flight are    *)
(* the first of its queue (First), and of every direction what the two     *)
(* ends and the frames between them have to do with each other (Ready,     *)
(* From).  The handlers are operators on records: each is shown to keep    *)
(* First, and to send nothing but frames of a set F that offers what the   *)
(* queue holds, for all Frames and for those that are From the sender.     *)
(* The invariant RInv is about the timers: what a terminal holds, given    *)
(* the last packet it has sent as SRP (Runs), is backed by what is on its  *)
(* way from it and to it (ToPeer, FromPeer).                               *)
(***************************************************************************)
EXTENDS Srp, FiniteSetTheorems, SequenceTheorems, TLAPS

LEMMA ConstantsTyped ==
    /\ SeqModulus \in Nat \ {0, 1} /\ TxWindow \in Nat \ {0} /\ RxWindow \in Nat \ {0}
    /\ RxWindow < SeqModulus /\ NumTxMsgs \in Nat \ {0} /\ NumTxMsgs < SeqModulus
    /\ N400Max \in Nat /\ N402Max \in Nat /\ LinkCapacity \in Nat
BY SrpAssumption

LEMMA Peers ==
    ASSUME NEW t \in Terminals
    PROVE  /\ Peer(t) \in Terminals \ {t}
           /\ Terminals = {t, Peer(t)}
           /\ Peer(Peer(t)) = t
<1>1. Terminals # {t}
    BY FS_Singleton, SrpAssumption
<1>2. Peer(t) \in Terminals /\ Peer(t) # t
    BY <1>1 DEF Peer
<1>3. Terminals = {t, Peer(t)}
    <2>1. Cardinality(Terminals \ {t}) = 1
        BY FS_RemoveElement, SrpAssumption
    <2>2. PICK x : Terminals \ {t} = {x}
        BY <2>1, FS_Singleton, FS_RemoveElement, SrpAssumption
    <2> QED
        BY <1>2, <2>2
<1> QED
    BY <1>2, <1>3 DEF Peer

LEMMA Modulo ==
    /\ \A i \in Int : i % SeqModulus \in 0..(SeqModulus - 1)
    /\ \A i \in 0..(SeqModulus - 1) : i % SeqModulus = i
BY ConstantsTyped

LEMMA SeqNumTyped ==
    /\ \A n \in Nat : SeqNum(n) \in 0..(SeqModulus - 1)
    /\ \A n \in 1..SeqModulus : SeqNum(n) = n - 1
<1>1. \A n \in Nat : n - 1 \in Int
    OBVIOUS
<1>2. \A n \in 1..SeqModulus : n - 1 \in 0..(SeqModulus - 1)
    BY ConstantsTyped
<1>3. \A n \in Nat : SeqNum(n) = (n - 1) % SeqModulus
    BY DEF SeqNum
<1>4. 1..SeqModulus \subseteq Nat
    BY ConstantsTyped
<1> QED
    BY <1>1, <1>2, <1>3, <1>4, Modulo
-----------------------------------------------------------------------------
(* Sequences.                                                              *)

LEMMA Least ==
    ASSUME NEW T, T \subseteq Nat, T # {}
    PROVE  \E m \in T : \A i \in T : m <= i
<1> DEFINE R == OpToRel(<, Nat)
<1>1. IsWellFoundedOn(R, Nat)
    BY NatLessThanWellFounded, Zenon DEF R
<1>2. \A i, j \in Nat : i < j => <<i, j>> \in R
    BY DEF OpToRel
<1> HIDE DEF R
<1>3. T \subseteq Nat /\ T # {}
    OBVIOUS
<1>4. PICK m \in T : \A i \in T : ~(<<i, m>> \in R)
    BY <1>1, <1>3, WFMin
<1>5. ASSUME NEW i \in T
      PROVE  m <= i
    <2>1. m \in Nat /\ i \in Nat
        BY <1>3
    <2>2. ~(i < m)
        BY <1>2, <1>4, <2>1
    <2> QED
        BY <2>1, <2>2
<1> QED
    BY <1>5

LEMMA LeastOf ==
    ASSUME NEW T, T \subseteq Nat, T # {}
    PROVE  Min(T) \in T /\ \A i \in T : Min(T) <= i
BY Least DEF Min

LEMMA ToSetOf ==
    ASSUME NEW T, NEW q \in Seq(T)
    PROVE  /\ \A n : n \in ToSet(q) <=> \E i \in 1..Len(q) : n = q[i]
           /\ \A i \in 1..Len(q) : q[i] \in ToSet(q)
           /\ ToSet(q) \subseteq T
BY DEF ToSet

(* What SelectInSeq finds: the first of the places I, 0 if there are none. *)
IsFirst(i, I) == \/ i = 0 /\ I = {}
                 \/ i \in I /\ \A j \in I : i <= j

Matches(q, seq) == {j \in 1..Len(q) : SeqNum(q[j]) = seq}
Running(a, seq) == {j \in 1..Len(a) : SeqNum(a[j].pkt) = seq}

LEMMA ActiveIndexFinds ==
    ASSUME NEW s, NEW seq, NEW T, s.iActiveWnsrpCommandSave \in Seq(T)
    PROVE  IsFirst(ActiveIndex(s, seq), Running(s.iActiveWnsrpCommandSave, seq))
<1> DEFINE a == s.iActiveWnsrpCommandSave
           I == {j \in 1..Len(a) : SeqNum(a[j].pkt) = seq}
<1>1. ActiveIndex(s, seq) = IF I # {} THEN Min(I) ELSE 0
    BY DEF ActiveIndex, SelectInSeq
<1>2. I \subseteq Nat
    OBVIOUS
<1>3. I # {} => Min(I) \in I /\ \A i \in I : Min(I) <= i
    BY <1>2, LeastOf
<1> HIDE DEF I
<1> QED
    BY <1>1, <1>3 DEF IsFirst, I, Running

(* A packet that is queued behind those that are not greater.              *)
LEMMA AddPendingRxFragTyped ==
    ASSUME NEW T, NEW list \in Seq(T), NEW n \in T
    PROVE  LET l == AddPendingRxFrag(list, n)
           IN  l \in Seq(T) /\ ToSet(l) = ToSet(list) \cup {n}
<1> DEFINE I == {j \in 1..Len(list) : SeqNum(list[j]) > SeqNum(n)}
           g == IF I # {} THEN Min(I) ELSE 0
<1>1. AddPendingRxFrag(list, n) = IF g = 0 THEN Append(list, n) ELSE InsertAt(list, g, n)
    BY DEF AddPendingRxFrag, SelectInSeq
<1>2. I \subseteq 1..Len(list) /\ I \subseteq Nat
    OBVIOUS
<1>3. g \in 0..Len(list)
    <2>1. I # {} => Min(I) \in I
        BY <1>2, LeastOf
    <2>2. Len(list) \in Nat
        OBVIOUS
    <2> HIDE DEF I
    <2>3. I # {} => g \in 1..Len(list)
        BY <1>2, <2>1
    <2>4. I = {} => g = 0
        OBVIOUS
    <2> HIDE DEF g
    <2> QED
        BY <2>2, <2>3, <2>4
<1> HIDE DEF g
<1>4. CASE g = 0
    BY <1>1, <1>4, AppendProperties DEF ToSet
<1>5. CASE g \in 1..Len(list)
    <2> DEFINE p == SubSeq(list, 1, g - 1)
               r == SubSeq(list, g, Len(list))
               l == InsertAt(list, g, n)
    <2>1. /\ p \in Seq(T) /\ Len(p) = g - 1 /\ \A i \in 1..(g - 1) : p[i] = list[i]
          /\ r \in Seq(T) /\ Len(r) = Len(list) - g + 1
          /\ \A i \in 1..Len(r) : r[i] = list[g + i - 1]
        BY <1>5, SubSeqProperties
    <2>2. l = p \o <<n>> \o r
        BY DEF InsertAt
    <2>3. /\ l \in Seq(T) /\ Len(l) = Len(list) + 1
          /\ \A i \in 1..Len(l) : l[i] = IF i < g THEN list[i]
                                         ELSE IF i = g THEN n ELSE list[i - 1]
        <3> HIDE DEF p, r, l
        <3>1. <<n>> \in Seq(T) /\ Len(<<n>>) = 1 /\ <<n>>[1] = n
            OBVIOUS
        <3>2. /\ p \o <<n>> \in Seq(T) /\ Len(p \o <<n>>) = g
              /\ \A i \in 1..g : (p \o <<n>>)[i] = IF i < g THEN list[i] ELSE n
            BY <1>5, <2>1, <3>1, ConcatProperties
        <3> DEFINE pn == p \o <<n>>
        <3> HIDE DEF pn
        <3>5. /\ pn \in Seq(T) /\ Len(pn) = g /\ Len(r) = Len(list) - g + 1
              /\ r \in Seq(T) /\ Len(list) \in Nat
            BY <2>1, <3>2 DEF pn
        <3>6. pn \o r \in Seq(T) /\ Len(pn \o r) = Len(list) + 1
            BY <1>5, <3>5
        <3>3. /\ pn \o r \in Seq(T) /\ Len(pn \o r) = Len(list) + 1
              /\ \A i \in 1..(Len(list) + 1) :
                    (pn \o r)[i] = IF i <= g THEN pn[i] ELSE r[i - g]
            BY <1>5, <3>5, <3>6
        <3>4. \A i \in 1..(Len(list) + 1) : i > g => r[i - g] = list[i - 1]
            BY <1>5, <2>1
        <3> QED
            BY <1>5, <2>2, <3>2, <3>3, <3>4 DEF pn
    <2>4. \A j \in 1..Len(list) : list[j] \in ToSet(l)
        <3> TAKE j \in 1..Len(list)
        <3>1. CASE j < g
            BY <3>1, <2>3 DEF ToSet
        <3>2. CASE j >= g
            <4>1. j + 1 \in 1..Len(l) /\ l[j + 1] = list[j]
                BY <1>5, <2>3, <3>2
            <4> QED
                BY <2>3, <4>1 DEF ToSet
        <3> QED
            BY <1>5, <3>1, <3>2
    <2>5. n \in ToSet(l)
        BY <1>5, <2>3 DEF ToSet
    <2>6. ToSet(l) \subseteq ToSet(list) \cup {n}
        <3> SUFFICES ASSUME NEW i \in 1..Len(l)
                     PROVE  l[i] \in ToSet(list) \cup {n}
            BY <2>3 DEF ToSet
        <3>1. i > g => i - 1 \in 1..Len(list)
            BY <1>5, <2>3
        <3>2. i < g => i \in 1..Len(list)
            BY <1>5, <2>3
        <3> HIDE DEF l
        <3> QED
            BY <1>5, <2>3, <3>1, <3>2 DEF ToSet
    <2>7. ToSet(list) \subseteq ToSet(l)
        BY <2>4 DEF ToSet
    <2>8. l = AddPendingRxFrag(list, n)
        BY <1>1, <1>5
    <2> HIDE DEF l
    <2> QED
        BY <2>3, <2>5, <2>6, <2>7, <2>8
<1> QED
    BY <1>3, <1>4, <1>5

LEMMA RemoveAtTyped ==
    ASSUME NEW T, NEW q \in Seq(T), NEW i \in 1..Len(q)
    PROVE  LET r == RemoveAt(q, i)
           IN  /\ r \in Seq(T) /\ Len(r) = Len(q) - 1
               /\ \A j \in 1..Len(r) : r[j] = IF j < i THEN q[j] ELSE q[j + 1]
               /\ ToSet(r) \subseteq ToSet(q)
               /\ ToSet(q) \subseteq ToSet(r) \cup {q[i]}
<1> DEFINE p == SubSeq(q, 1, i - 1)
           u == SubSeq(q, i + 1, Len(q))
           r == p \o u
<1>1. Len(q) \in Nat
    OBVIOUS
<1>2. /\ p \in Seq(T) /\ Len(p) = i - 1 /\ \A j \in 1..(i - 1) : p[j] = q[j]
      /\ u \in Seq(T) /\ Len(u) = Len(q) - i
      /\ \A j \in 1..(Len(q) - i) : u[j] = q[i + j]
    <2>1. /\ p \in Seq(T) /\ Len(p) = i - 1 /\ \A j \in 1..(i - 1) : p[j] = q[j]
        BY <1>1, SubSeqProperties
    <2>2. u \in Seq(T) /\ Len(u) = Len(q) - i
        BY <1>1, SubSeqProperties
    <2>3. \A j \in 1..(Len(q) - i) : u[j] = q[i + j]
        BY <1>1, SubSeqProperties
    <2> QED
        BY <2>1, <2>2, <2>3
<1>3. RemoveAt(q, i) = r
    BY DEF RemoveAt
<1> HIDE DEF p, u
<1>4. /\ r \in Seq(T) /\ Len(r) = Len(q) - 1
      /\ \A j \in 1..Len(r) : r[j] = IF j < i THEN p[j] ELSE u[j - i + 1]
    <2>1. /\ r \in Seq(T) /\ Len(r) = Len(p) + Len(u)
          /\ \A j \in 1..(Len(p) + Len(u)) :
                 r[j] = IF j <= Len(p) THEN p[j] ELSE u[j - Len(p)]
        BY <1>2, ConcatProperties
    <2> HIDE DEF r
    <2>2. Len(p) + Len(u) = Len(q) - 1 /\ i \in Nat
        BY <1>1, <1>2
    <2>3. ASSUME NEW j \in 1..Len(r)
          PROVE  r[j] = IF j < i THEN p[j] ELSE u[j - i + 1]
        <3>1. (j <= Len(p) <=> j < i) /\ j - Len(p) = j - i + 1
            BY <1>1, <1>2, <2>1, <2>2
        <3> QED
            BY <2>1, <3>1
    <2> QED
        BY <2>1, <2>2, <2>3
<1> HIDE DEF r
<1>5. \A j \in 1..Len(r) : r[j] = IF j < i THEN q[j] ELSE q[j + 1]
    <2> TAKE j \in 1..Len(r)
    <2>1. CASE j < i
        <3>1. j \in 1..(i - 1) /\ r[j] = p[j]
            BY <1>4, <2>1
        <3> QED
            BY <1>2, <2>1, <3>1
    <2>2. CASE j >= i
        <3>1. j - i + 1 \in 1..(Len(q) - i) /\ i + (j - i + 1) = j + 1
            BY <1>1, <1>4, <2>2
        <3> QED
            BY <1>1, <1>2, <1>4, <2>2, <3>1
    <2> QED
        BY <2>1, <2>2, <1>1, <1>4
<1>6. \A j \in 1..Len(r) : r[j] \in ToSet(q)
    <2> TAKE j \in 1..Len(r)
    <2>1. j \in 1..Len(q) /\ j + 1 \in 1..Len(q)
        BY <1>1, <1>4
    <2> QED
        BY <1>5, <2>1 DEF ToSet
<1>7. \A j \in 1..Len(q) : q[j] \in ToSet(r) \cup {q[i]}
    <2> TAKE j \in 1..Len(q)
    <2>1. CASE j < i
        <3>1. j \in 1..Len(r) /\ r[j] = q[j]
            BY <1>1, <1>4, <1>5, <2>1
        <3> QED
            BY <1>4, <3>1 DEF ToSet
    <2>2. CASE j > i
        <3>1. j - 1 \in 1..Len(r) /\ ~(j - 1 < i) /\ (j - 1) + 1 = j
            BY <1>1, <1>4, <2>2
        <3>2. r[j - 1] = q[j]
            BY <1>5, <3>1
        <3> QED
            BY <1>4, <3>1, <3>2 DEF ToSet
    <2> QED
        BY <1>1, <2>1, <2>2
<1> QED
    BY <1>3, <1>4, <1>5, <1>6, <1>7 DEF ToSet

(* SrpCommandClear removes the first packet of the number, if there is one *)
Cleared(q, seq) == RemoveFirstMatch(q, LAMBDA n : SeqNum(n) = seq)

LEMMA ClearedAt ==
    ASSUME NEW T, NEW q \in Seq(T), NEW seq
    PROVE  \E i \in 0..Len(q) :
                /\ IsFirst(i, Matches(q, seq))
                /\ Cleared(q, seq) = IF i = 0 THEN q ELSE RemoveAt(q, i)
<1> DEFINE I == {j \in 1..Len(q) : SeqNum(q[j]) = seq}
<1>1. I \subseteq 1..Len(q) /\ I \subseteq Nat /\ I = Matches(q, seq)
    BY DEF Matches
<1>2. I # {} <=> \E i \in 1..Len(q) : SeqNum(q[i]) = seq
    OBVIOUS
<1>3. Cleared(q, seq) = IF I # {} THEN RemoveAt(q, Min(I)) ELSE q
    BY <1>2 DEF Cleared, RemoveFirstMatch, SelectInSeq
<1>4. I # {} => Min(I) \in I /\ \A i \in I : Min(I) <= i
    BY <1>1, LeastOf
<1>5. Len(q) \in Nat
    OBVIOUS
<1> HIDE DEF I
<1>6. CASE I = {}
    BY <1>1, <1>3, <1>5, <1>6 DEF IsFirst
<1>7. CASE I # {}
    <2>1. Min(I) \in 0..Len(q) /\ Min(I) # 0
        BY <1>1, <1>4, <1>5, <1>7
    <2> QED
        BY <1>1, <1>3, <1>4, <1>7, <2>1 DEF IsFirst
<1> QED
    BY <1>6, <1>7
-----------------------------------------------------------------------------
(* Sending.  F are the frames a terminal may send; of commands these are   *)
(* the head of its queue as SRP, unless all are WNSRP commands, and every  *)
(* packet of its queue as WNSRP.                                           *)

First(s) == LET q == s.iSrpWaitQueue
                a == s.iActiveWnsrpCommandSave
            IN  /\ Len(a) <= TxWindow /\ Len(a) <= Len(q)
                /\ \A i \in 1..Len(a) : a[i].pkt = q[i]
                /\ s.iSrpCommandSave # NoTimer => q # <<>> /\ s.iSrpCommandSave.pkt = q[1]
                /\ s.iCurWnsrpStatus = "NO_SUPPORT" => a = <<>>
                /\ s.iCurWnsrpStatus = "FULL_SUPPORT" => s.iSrpCommandSave = NoTimer

Offers(F, s) == LET q == s.iSrpWaitQueue
                IN  /\ q # <<>> /\ s.iCurWnsrpStatus # "FULL_SUPPORT"
                            => Command("SRP_COMMAND", q[1]) \in F
                    /\ \A i \in 1..Len(q) : Command("WNSRP_COMMAND", q[i]) \in F

Good(F, s) == IsTerminal(s) /\ First(s) /\ Offers(F, s) /\ s.out \in Seq(F)

SameReceiver(s, r) ==
    /\ r.iFirstCmd = s.iFirstCmd /\ r.iRecvSeqNumber = s.iRecvSeqNumber
    /\ r.iOldestWNSRPRetransSeqNum = s.iOldestWNSRPRetransSeqNum
    /\ r.iPendingRxFragList = s.iPendingRxFragList /\ r.delivered = s.delivered
    /\ r.iUseNSRP = s.iUseNSRP /\ r.failed = s.failed

Sends(F, s, r) == /\ Good(F, r) /\ SameReceiver(s, r)
                  /\ r.sent = s.sent /\ r.iSrpWaitQueue = s.iSrpWaitQueue

LEMMA SendsTransitive ==
    ASSUME NEW F, NEW s, NEW r, NEW q, Sends(F, s, r), Sends(F, r, q)
    PROVE  Sends(F, s, q)
BY DEF Sends, SameReceiver

LEMMA QueueTyped ==
    ASSUME NEW s, IsTerminal(s)
    PROVE  LET q == s.iSrpWaitQueue
           IN  /\ q \in Seq(1..s.sent) /\ q \in Seq(Nat \ {0}) /\ Len(q) \in Nat
               /\ \A i \in 1..Len(q) : q[i] \in 1..s.sent /\ q[i] \in Nat \ {0}
               /\ q # <<>> => /\ 1 \in 1..Len(q) /\ Head(q) = q[1]
                             /\ q[1] \in 1..s.sent /\ q[1] \in Nat \ {0}
               /\ q = <<>> <=> Len(q) = 0
<1> DEFINE q == s.iSrpWaitQueue
<1>1. q \in Seq(1..s.sent) /\ s.sent \in Nat
    BY DEF IsTerminal
<1>2. 1..s.sent \subseteq Nat \ {0}
    BY <1>1
<1>3. q \in Seq(Nat \ {0})
    BY <1>1, <1>2, SeqMonotonic
<1>4. Len(q) \in Nat /\ (q = <<>> <=> Len(q) = 0)
    BY <1>1
<1>5. \A i \in 1..Len(q) : q[i] \in 1..s.sent /\ q[i] \in Nat \ {0}
    BY <1>1, <1>2
<1>6. q # <<>> => 1 \in 1..Len(q) /\ Head(q) = q[1]
    BY <1>1, <1>4
<1> HIDE DEF q
<1> QED
    BY <1>1, <1>3, <1>4, <1>5, <1>6 DEF q

LEMMA PartTyped ==
    ASSUME NEW T, NEW q \in Seq(T), NEW i \in 0..Len(q), NEW last \in i..Len(q)
    PROVE  LET p == SubSeq(q, i + 1, last)
           IN  /\ p \in Seq(T) /\ Len(p) = last - i
               /\ \A j \in 1..(last - i) : p[j] = q[i + j]
<1> DEFINE p == SubSeq(q, i + 1, last)
<1>1. /\ Len(q) \in Nat /\ i \in Nat /\ last \in Nat /\ i <= last /\ last <= Len(q)
      /\ i + 1 \in 1..(Len(q) + 1) /\ last \in 0..Len(q)
    OBVIOUS
<1>2. p \in Seq(T)
    BY <1>1, SubSeqProperties
<1>3. Len(p) = last - i
    BY <1>1
<1>4. \A j \in 1..(last - i) : p[j] = q[i + j]
    BY <1>1
<1> QED
    BY <1>2, <1>3, <1>4

LEMMA PrefixExtended ==
    ASSUME NEW q \in Seq(Nat \ {0}), NEW a \in Seq(Timers), NEW m \in Seq(Timers),
           Len(a) + Len(m) <= Len(q),
           \A j \in 1..Len(a) : a[j].pkt = q[j],
           \A j \in 1..Len(m) : m[j].pkt = q[Len(a) + j]
    PROVE  /\ a \o m \in Seq(Timers) /\ Len(a \o m) = Len(a) + Len(m)
           /\ \A j \in 1..(Len(a) + Len(m)) : (a \o m)[j].pkt = q[j]
<1>1. Len(a) \in Nat /\ Len(m) \in Nat
    OBVIOUS
<1>2. /\ a \o m \in Seq(Timers) /\ Len(a \o m) = Len(a) + Len(m)
      /\ \A j \in 1..(Len(a) + Len(m)) : (a \o m)[j] = IF j <= Len(a) THEN a[j] ELSE m[j - Len(a)]
    BY ConcatProperties
<1>3. ASSUME NEW j \in 1..(Len(a) + Len(m))
      PROVE  (a \o m)[j].pkt = q[j]
    <2>1. CASE j <= Len(a)
        BY <1>1, <1>2, <2>1
    <2>2. CASE j > Len(a)
        <3>1. j - Len(a) \in 1..Len(m) /\ Len(a) + (j - Len(a)) = j
            BY <1>1, <2>2
        <3>2. (a \o m)[j] = m[j - Len(a)]
            BY <1>1, <1>2, <2>2
        <3> QED
            BY <3>1, <3>2
    <2> QED
        BY <1>1, <2>1, <2>2
<1> QED
    BY <1>2, <1>3

LEMMA OutTyped ==
    ASSUME NEW F, NEW s, IsTerminal(s), s.out \in Seq(F),
           NEW frames \in Seq(F), frames \in Seq(Frames)
    PROVE  LET r == LowerLayerTx(s, frames)
           IN  IsTerminal(r) /\ r.out \in Seq(F)
<1> DEFINE out == s.out \o frames
<1>1. out \in Seq(F) /\ out \in Seq(Frames)
    <2>1. s.out \in Seq(Frames)
        BY DEF IsTerminal
    <2>2. out \in Seq(F)
        BY ConcatProperties
    <2>3. out \in Seq(Frames)
        BY <2>1, ConcatProperties
    <2> QED
        BY <2>2, <2>3
<1>2. LowerLayerTx(s, frames) = [s EXCEPT !.out = out]
    BY DEF LowerLayerTx
<1> HIDE DEF out
<1> QED
    BY <1>1, <1>2 DEF IsTerminal, SrpStart

LEMMA SendSrpCommandSends ==
    ASSUME NEW F, NEW s, Good(F, s), s.iSrpWaitQueue # <<>>,
           s.iCurWnsrpStatus # "FULL_SUPPORT"
    PROVE  Sends(F, s, SendSrpCommand(s))
<1> DEFINE n == Head(s.iSrpWaitQueue)
           c == <<Command("SRP_COMMAND", n)>>
           a == LowerLayerTx(s, c)
           b == [a EXCEPT !.iSrpCommandSave = Timer(n)]
<1>1. n = s.iSrpWaitQueue[1] /\ n \in Nat \ {0}
    BY QueueTyped DEF Good
<1>2. c \in Seq(F) /\ c \in Seq(Frames)
    BY <1>1 DEF Good, Offers, Frames, Commands, Command
<1>3. IsTerminal(a) /\ a.out \in Seq(F)
    BY <1>2, OutTyped DEF Good
<1>4. Timer(n) \in Timers /\ Timer(n) # NoTimer /\ Timer(n).pkt = n
    BY <1>1 DEF Timer, Timers, NoTimer
<1> HIDE DEF c, n
<1>5. a = [s EXCEPT !.out = s.out \o c]
    BY DEF LowerLayerTx
<1> HIDE DEF a
<1>6. IsTerminal(b) /\ b.out \in Seq(F)
    BY <1>3, <1>4 DEF IsTerminal, SrpStart
<1>7. First(b) /\ Offers(F, b)
    BY <1>1, <1>4, <1>5 DEF First, Offers, Good, IsTerminal, SrpStart
<1>8. SameReceiver(s, b) /\ b.sent = s.sent /\ b.iSrpWaitQueue = s.iSrpWaitQueue
    BY <1>5 DEF SameReceiver, Good, IsTerminal, SrpStart
<1> QED
    BY <1>6, <1>7, <1>8 DEF Sends, Good, SendSrpCommand, a, c, n

(* The k packets are in flight, or all of the queue.                       *)
Flying(s, r, k) ==
    /\ Len(r.iActiveWnsrpCommandSave) \in Nat
    /\ Len(r.iActiveWnsrpCommandSave) <= Len(s.iActiveWnsrpCommandSave) + k
    /\ Len(r.iActiveWnsrpCommandSave) <= Len(s.iSrpWaitQueue)
    /\ \/ Len(r.iActiveWnsrpCommandSave) = Len(s.iActiveWnsrpCommandSave) + k
       \/ Len(r.iActiveWnsrpCommandSave) = Len(s.iSrpWaitQueue)

SameModes(s, r) == /\ r.iStatus = s.iStatus /\ r.iCurWnsrpStatus = s.iCurWnsrpStatus
                   /\ r.iSrpCommandSave = s.iSrpCommandSave

LEMMA SendWnsrpCommandsSends ==
    ASSUME NEW F, NEW s, Good(F, s), NEW k \in Nat,
           Len(s.iActiveWnsrpCommandSave) + k <= TxWindow,
           s.iCurWnsrpStatus # "NO_SUPPORT"
    PROVE  LET r == SendWnsrpCommands(s, k)
           IN  Sends(F, s, r) /\ Flying(s, r, k) /\ SameModes(s, r)
<1> DEFINE q == s.iSrpWaitQueue
           a == s.iActiveWnsrpCommandSave
           i == Len(a)
           last == Min({i + k, Len(q)})
           next == SubSeq(q, i + 1, last)
           c == [j \in DOMAIN next |-> Command("WNSRP_COMMAND", next[j])]
           m == [j \in DOMAIN next |-> Timer(next[j])]
           b == LowerLayerTx(s, c)
           r == [b EXCEPT !.iActiveWnsrpCommandSave = @ \o m]
<1>1. /\ q \in Seq(Nat \ {0}) /\ a \in Seq(Timers) /\ i \in Nat /\ Len(q) \in Nat
      /\ i <= Len(q)
    <2>1. a \in Seq(Timers) /\ i <= Len(q)
        BY DEF Good, IsTerminal, First
    <2> QED
        BY <2>1, QueueTyped DEF Good
<1>2. last = i + k \/ last = Len(q)
    <2>1. {i + k, Len(q)} \subseteq Nat /\ {i + k, Len(q)} # {}
        BY <1>1
    <2> QED
        BY <2>1, LeastOf
<1>3. last <= i + k /\ last <= Len(q) /\ last \in Nat /\ i <= last
    <2>1. {i + k, Len(q)} \subseteq Nat /\ {i + k, Len(q)} # {}
        BY <1>1
    <2>2. last <= i + k /\ last <= Len(q)
        BY <2>1, LeastOf
    <2> HIDE DEF last
    <2> QED
        BY <1>1, <1>2, <2>2
<1> HIDE DEF last
<1>4. /\ next \in Seq(Nat \ {0}) /\ Len(next) = last - i
      /\ \A j \in 1..(last - i) : next[j] = q[i + j]
    <2>1. q \in Seq(Nat \ {0}) /\ i \in 0..Len(q) /\ last \in i..Len(q)
        BY <1>1, <1>3
    <2> HIDE DEF q, i
    <2> QED
        BY <2>1, PartTyped
<1> HIDE DEF next
<1>5. /\ DOMAIN next = 1..(last - i) /\ last - i \in Nat
      /\ \A j \in 1..(last - i) : i + j \in 1..Len(q)
    <2>1. i \in Nat /\ last \in Nat /\ Len(q) \in Nat /\ i <= last /\ last <= Len(q)
        BY <1>1, <1>3
    <2>2. last - i \in Nat /\ \A j \in 1..(last - i) : i + j \in 1..Len(q)
        <3> HIDE DEF i, q
        <3> QED
            BY <2>1
    <2> QED
        BY <1>4, <2>2
<1>6. c \in Seq(F) /\ c \in Seq(Frames)
    <2>1. \A j \in DOMAIN next : Command("WNSRP_COMMAND", next[j]) \in F
        BY <1>4, <1>5 DEF Good, Offers
    <2>2. \A j \in DOMAIN next : next[j] \in Nat \ {0}
        BY <1>4, <1>5
    <2>3. \A j \in DOMAIN next : Command("WNSRP_COMMAND", next[j]) \in Frames
        BY <2>2 DEF Frames, Commands, Command
    <2> QED
        BY <1>5, <2>1, <2>3
<1>7. m \in Seq(Timers) /\ Len(m) = last - i /\ \A j \in 1..(last - i) : m[j].pkt = q[i + j]
    <2>1. \A j \in DOMAIN next : Timer(next[j]) \in Timers /\ Timer(next[j]).pkt = next[j]
        BY <1>1, <1>4, <1>5 DEF Timer, Timers
    <2>2. \A j \in 1..(last - i) : m[j] = Timer(next[j]) /\ m[j] \in Timers
        BY <1>5, <2>1
    <2>3. DOMAIN m = 1..(last - i) /\ m = [j \in 1..(last - i) |-> m[j]]
        BY <1>5
    <2> HIDE DEF m, last, i, next, q
    <2>4. m \in Seq(Timers)
        BY <1>5, <2>2, <2>3
    <2>5. Len(m) = last - i
        BY <1>5, <2>3, <2>4
    <2> QED
        BY <1>4, <1>5, <2>1, <2>2, <2>4, <2>5
<1> HIDE DEF c, m
<1>8. IsTerminal(b) /\ b.out \in Seq(F)
    BY <1>6, OutTyped DEF Good
<1>9. b = [s EXCEPT !.out = s.out \o c]
    BY DEF LowerLayerTx
<1> HIDE DEF b
<1> DEFINE am == a \o m
<1>10. /\ am \in Seq(Timers) /\ Len(am) = last
       /\ \A j \in 1..last : am[j].pkt = q[j]
    <2>1. \A j \in 1..i : a[j].pkt = q[j]
        BY DEF Good, First
    <2>2. i + Len(m) = last
        BY <1>1, <1>3, <1>7
    <2>3. \A j \in 1..Len(m) : m[j].pkt = q[i + j]
        BY <1>7
    <2> HIDE DEF q, a
    <2> QED
        BY <1>1, <1>3, <1>7, <2>1, <2>2, <2>3, PrefixExtended
<1> HIDE DEF am
<1>11. r = [s EXCEPT !.out = s.out \o c, !.iActiveWnsrpCommandSave = am]
    BY <1>9 DEF am, Good, IsTerminal, SrpStart
<1>12. IsTerminal(r) /\ r.out \in Seq(F)
    BY <1>8, <1>9, <1>10 DEF IsTerminal, SrpStart, am
<1>13. r.iActiveWnsrpCommandSave = am /\ r.iSrpWaitQueue = q
       /\ r.iSrpCommandSave = s.iSrpCommandSave /\ r.iCurWnsrpStatus = s.iCurWnsrpStatus
       /\ SameReceiver(s, r) /\ r.sent = s.sent /\ r.iStatus = s.iStatus
    BY <1>11 DEF SameReceiver, Good, IsTerminal, SrpStart
<1> HIDE DEF r
<1>15. Flying(s, r, k) /\ SameModes(s, r)
    BY <1>2, <1>3, <1>10, <1>13 DEF Flying, SameModes
<1>14. First(r) /\ Offers(F, r)
    BY <1>3, <1>10, <1>13, ConstantsTyped DEF First, Offers, Good
<1> QED
    BY <1>12, <1>13, <1>14, <1>15 DEF Sends, Good, SendWnsrpCommands, r, am, b, c, m, next, last

LEMMA FillWindowSends ==
    ASSUME NEW F, NEW s, Good(F, s), s.iCurWnsrpStatus # "NO_SUPPORT"
    PROVE  /\ Sends(F, s, FillWindow(s))
           /\ Flying(s, FillWindow(s), TxWindow - Len(s.iActiveWnsrpCommandSave))
           /\ SameModes(s, FillWindow(s))
<1> DEFINE k == TxWindow - Len(s.iActiveWnsrpCommandSave)
<1>1. Len(s.iActiveWnsrpCommandSave) \in Nat
    <2>1. s.iActiveWnsrpCommandSave \in Seq(Timers)
        BY DEF Good, IsTerminal
    <2> QED
        BY <2>1
<1>2. k \in Nat /\ Len(s.iActiveWnsrpCommandSave) + k <= TxWindow
    BY <1>1, ConstantsTyped DEF Good, First
<1> HIDE DEF k
<1> QED
    BY <1>2, SendWnsrpCommandsSends DEF FillWindow, k

LEMMA StatusSends ==
    ASSUME NEW F, NEW s, Good(F, s), NEW status \in {"IDLE", "WAIT_RESPONSE"}
    PROVE  Sends(F, s, [s EXCEPT !.iStatus = status])
<1> DEFINE r == [s EXCEPT !.iStatus = status]
<1>1. IsTerminal(r)
    BY DEF Good, IsTerminal, SrpStart
<1>2. First(r) /\ Offers(F, r) /\ r.out \in Seq(F)
    BY DEF First, Offers, Good, IsTerminal, SrpStart
<1>3. SameReceiver(s, r) /\ r.sent = s.sent /\ r.iSrpWaitQueue = s.iSrpWaitQueue
    BY DEF SameReceiver, Good, IsTerminal, SrpStart
<1> QED
    BY <1>1, <1>2, <1>3 DEF Sends, Good

LEMMA SendsItself ==
    ASSUME NEW F, NEW s, Good(F, s)
    PROVE  Sends(F, s, s)
BY DEF Sends, SameReceiver

LEMMA Srp_0_1Sends ==
    ASSUME NEW F, NEW s, Good(F, s), s.iSrpWaitQueue # <<>>
    PROVE  Sends(F, s, Srp_0_1(s))
<1> DEFINE a == IF s.iCurWnsrpStatus = "FULL_SUPPORT" THEN s ELSE SendSrpCommand(s)
           b == IF s.iCurWnsrpStatus = "NO_SUPPORT" THEN a ELSE FillWindow(a)
<1>1. Sends(F, s, a)
    BY SendSrpCommandSends, SendsItself
<1>2. a.iCurWnsrpStatus = s.iCurWnsrpStatus
    BY DEF SendSrpCommand, LowerLayerTx, Good, IsTerminal, SrpStart
<1> HIDE DEF a
<1>3. Sends(F, s, b)
    <2>1. CASE s.iCurWnsrpStatus = "NO_SUPPORT"
        BY <1>1, <2>1
    <2>2. CASE s.iCurWnsrpStatus # "NO_SUPPORT"
        <3>1. Sends(F, a, FillWindow(a))
            BY <1>1, <1>2, <2>2, FillWindowSends DEF Sends
        <3> QED
            BY <1>1, <2>2, <3>1, SendsTransitive
    <2> QED
        BY <2>1, <2>2
<1> HIDE DEF b
<1>4. Sends(F, b, [b EXCEPT !.iStatus = "WAIT_RESPONSE"])
    BY <1>3, StatusSends DEF Sends
<1> QED
    BY <1>3, <1>4, SendsTransitive DEF Srp_0_1, a, b

LEMMA Srp_1_1Sends ==
    ASSUME NEW F, NEW s, Good(F, s)
    PROVE  Sends(F, s, Srp_1_1(s))
BY SendsItself, FillWindowSends DEF Srp_1_1

LEMMA WnsrpStatusSetSends ==
    ASSUME NEW F, NEW s, Good(F, s), s.iCurWnsrpStatus = "TX_SUPPORT",
           NEW status \in {"NO_SUPPORT", "FULL_SUPPORT"}
    PROVE  Sends(F, s, WnsrpStatusSet(s, status))
<1> DEFINE r == WnsrpStatusSet(s, status)
<1>1. status = "NO_SUPPORT"
        => r = [s EXCEPT !.iCurWnsrpStatus = status, !.iActiveWnsrpCommandSave = <<>>]
    BY DEF WnsrpStatusSet
<1>2. status = "FULL_SUPPORT"
        => r = [s EXCEPT !.iCurWnsrpStatus = status, !.iSrpCommandSave = NoTimer]
    BY DEF WnsrpStatusSet
<1> HIDE DEF r
<1>3. IsTerminal(r)
    <2>1. <<>> \in Seq(Timers)
        OBVIOUS
    <2>2. CASE status = "NO_SUPPORT"
        BY <1>1, <2>1, <2>2 DEF Good, IsTerminal, SrpStart
    <2>3. CASE status = "FULL_SUPPORT"
        BY <1>2, <2>3 DEF Good, IsTerminal, SrpStart
    <2> QED
        BY <2>2, <2>3
<1>4. /\ r.iSrpWaitQueue = s.iSrpWaitQueue /\ r.out = s.out /\ r.sent = s.sent
      /\ SameReceiver(s, r)
    BY <1>1, <1>2 DEF SameReceiver, Good, IsTerminal, SrpStart
<1>5. First(r)
    <2>1. CASE status = "NO_SUPPORT"
        <3>1. /\ r.iSrpCommandSave = s.iSrpCommandSave /\ r.iCurWnsrpStatus = status
              /\ r.iActiveWnsrpCommandSave = <<>>
            BY <1>1, <2>1 DEF Good, IsTerminal, SrpStart
        <3>2. Len(s.iSrpWaitQueue) \in Nat
            BY QueueTyped DEF Good
        <3> QED
            BY <1>4, <2>1, <3>1, <3>2, ConstantsTyped DEF First, Good
    <2>2. CASE status = "FULL_SUPPORT"
        <3>1. /\ r.iSrpCommandSave = NoTimer /\ r.iCurWnsrpStatus = status
              /\ r.iActiveWnsrpCommandSave = s.iActiveWnsrpCommandSave
            BY <1>2, <2>2 DEF Good, IsTerminal, SrpStart
        <3> QED
            BY <1>4, <2>2, <3>1 DEF First, Good
    <2> QED
        BY <2>1, <2>2
<1>6. Offers(F, r)
    BY <1>4 DEF Good, Offers
<1>7. r.out \in Seq(F)
    BY <1>4 DEF Good
<1> QED
    BY <1>3, <1>4, <1>5, <1>6, <1>7 DEF Sends, Good, r

LEMMA CountN402Sends ==
    ASSUME NEW F, NEW s, Good(F, s)
    PROVE  Sends(F, s, CountN402(s))
<1> DEFINE c == [s EXCEPT !.iN402Counter = @ + 1]
<1>1. IsTerminal(c)
    BY DEF Good, IsTerminal, SrpStart
<1>2. First(c) /\ Offers(F, c) /\ c.out \in Seq(F)
    BY DEF First, Offers, Good, IsTerminal, SrpStart
<1>3. SameReceiver(s, c) /\ c.sent = s.sent /\ c.iSrpWaitQueue = s.iSrpWaitQueue
    BY DEF SameReceiver, Good, IsTerminal, SrpStart
<1>4. Sends(F, s, c)
    BY <1>1, <1>2, <1>3 DEF Sends, Good
<1>5. s.iCurWnsrpStatus = "TX_SUPPORT" => Sends(F, c, WnsrpStatusSet(c, "NO_SUPPORT"))
    <2>1. c.iCurWnsrpStatus = s.iCurWnsrpStatus
        BY DEF Good, IsTerminal, SrpStart
    <2> HIDE DEF c
    <2> QED
        BY <1>4, <2>1, WnsrpStatusSetSends DEF Sends
<1> HIDE DEF c
<1> QED
    BY <1>4, <1>5, SendsTransitive, SendsItself DEF CountN402, c

(* The event says which handler has the frame, and the terminal changes in *)
(* what it knows of its peer.                                              *)
LEMMA GetEventSends ==
    ASSUME NEW F, NEW s, Good(F, s), NEW f \in Frames
    PROVE  LET e == SrpGetEventNoFromAL1(s, f)
           IN  /\ Sends(F, s, e.srp)
               /\ e.event \in {"COMMAND", "WNSRP_COMMAND"} => f \in Commands
               /\ e.event = "COMMAND" => f.kind = "SRP_COMMAND"
               /\ e.event \in {"NSRP_RESPONSE", "WNSRP_RESPONSE"} => f \in Responses
               /\ e.event = "NSRP_RESPONSE" => f.kind = "NSRP_RESPONSE"
               /\ e.event = "WNSRP_RESPONSE" => e.srp.iCurWnsrpStatus = "FULL_SUPPORT"
               /\ e.event = "RESPONSE" => f.kind = "SRP_RESPONSE" \/ ~s.iUseNSRP
               /\ e.event \in {"COMMAND", "WNSRP_COMMAND", "NOP", "RESPONSE",
                               "NSRP_RESPONSE", "WNSRP_RESPONSE"}
<1> DEFINE e == SrpGetEventNoFromAL1(s, f)
<1>1. CASE f.kind = "SRP_COMMAND"
    <2>1. f \in Commands
        BY <1>1 DEF Frames, Commands, Responses
    <2>2. /\ e.event = "COMMAND"
          /\ e.srp = s \/ (s.iCurWnsrpStatus = "TX_SUPPORT"
                            /\ e.srp = WnsrpStatusSet(s, "NO_SUPPORT"))
        BY <1>1 DEF SrpGetEventNoFromAL1
    <2>3. Sends(F, s, e.srp)
        BY <2>2, SendsItself, WnsrpStatusSetSends
    <2> HIDE DEF e
    <2> QED
        BY <1>1, <2>1, <2>2, <2>3 DEF e
<1>2. CASE f.kind = "SRP_RESPONSE"
    <2>1. /\ e.event = IF s.iUseNSRP /\ s.iFirstNSRPResp THEN "NOP" ELSE "RESPONSE"
          /\ e.srp = CountN402(s)
        BY <1>2 DEF SrpGetEventNoFromAL1
    <2>2. Sends(F, s, e.srp)
        BY <2>1, CountN402Sends
    <2> HIDE DEF e
    <2> QED
        BY <1>2, <2>1, <2>2 DEF e
<1>3. CASE f.kind = "NSRP_RESPONSE"
    <2> DEFINE c == CountN402(s)
               r == [c EXCEPT !.iFirstNSRPResp = @ \/ s.iUseNSRP]
    <2>1. /\ e.event = IF s.iUseNSRP THEN "NSRP_RESPONSE" ELSE "RESPONSE"
          /\ e.srp = r
        BY <1>3 DEF SrpGetEventNoFromAL1
    <2>2. Sends(F, s, c)
        BY CountN402Sends
    <2> HIDE DEF c
    <2>3. IsTerminal(r)
        <3>1. c.iFirstNSRPResp \in BOOLEAN /\ s.iUseNSRP \in BOOLEAN
            BY <2>2 DEF Sends, Good, IsTerminal
        <3>2. (c.iFirstNSRPResp \/ s.iUseNSRP) \in BOOLEAN
            BY Zenon
        <3> QED
            BY <2>2, <3>2 DEF Sends, Good, IsTerminal, SrpStart
    <2>4. First(r) /\ Offers(F, r) /\ r.out \in Seq(F)
        BY <2>2 DEF First, Offers, Sends, Good, IsTerminal, SrpStart
    <2>5. SameReceiver(c, r) /\ r.sent = c.sent /\ r.iSrpWaitQueue = c.iSrpWaitQueue
        BY <2>2 DEF SameReceiver, Sends, Good, IsTerminal, SrpStart
    <2>6. Sends(F, s, r)
        BY <2>2, <2>3, <2>4, <2>5, SendsTransitive DEF Sends, Good
    <2>7. f \in Responses
        BY <1>3 DEF Frames, Commands, Responses
    <2> HIDE DEF e, r
    <2> QED
        BY <1>3, <2>1, <2>6, <2>7 DEF e
<1>4. CASE f.kind \in {"WNSRP_COMMAND", "WNSRP_RESPONSE"}
    <2> DEFINE full == WnsrpStatusSet(s, "FULL_SUPPORT")
    <2>1. \/ e.event = "NOP" /\ e.srp = s
          \/ /\ s.iCurWnsrpStatus # "NO_SUPPORT" /\ e.event = f.kind
             /\ e.srp = IF s.iCurWnsrpStatus = "TX_SUPPORT" THEN full ELSE s
        BY <1>4 DEF SrpGetEventNoFromAL1
    <2>2. full.iCurWnsrpStatus = "FULL_SUPPORT"
        BY DEF WnsrpStatusSet, Good, IsTerminal, SrpStart
    <2>3. (s.iCurWnsrpStatus = "TX_SUPPORT" => Sends(F, s, full)) /\ Sends(F, s, s)
        BY WnsrpStatusSetSends, SendsItself
    <2>4. s.iCurWnsrpStatus \in {"NO_SUPPORT", "TX_SUPPORT", "FULL_SUPPORT"}
        BY DEF Good, IsTerminal
    <2>5. f.kind = "WNSRP_COMMAND" => f \in Commands
        BY DEF Frames, Commands, Responses
    <2>6. f.kind = "WNSRP_RESPONSE" => f \in Responses
        BY DEF Frames, Commands, Responses
    <2> HIDE DEF e, full
    <2> QED
        BY <1>4, <2>1, <2>2, <2>3, <2>4, <2>5, <2>6 DEF e
<1>5. f.kind \in {"SRP_COMMAND", "SRP_RESPONSE", "NSRP_RESPONSE", "WNSRP_COMMAND",
                  "WNSRP_RESPONSE"}
    BY DEF Frames, Commands, Responses
<1> QED
    BY <1>1, <1>2, <1>3, <1>4, <1>5

(* What a frame changes in the sender is at most what it knows of the peer *)
Knows(s, r) ==
    /\ r.iStatus = s.iStatus /\ r.iSrpWaitQueue = s.iSrpWaitQueue /\ r.sent = s.sent
    /\ \/ /\ r.iCurWnsrpStatus = s.iCurWnsrpStatus
          /\ r.iActiveWnsrpCommandSave = s.iActiveWnsrpCommandSave
          /\ r.iSrpCommandSave = s.iSrpCommandSave
       \/ /\ s.iCurWnsrpStatus = "TX_SUPPORT" /\ r.iCurWnsrpStatus = "NO_SUPPORT"
          /\ r.iActiveWnsrpCommandSave = <<>> /\ r.iSrpCommandSave = s.iSrpCommandSave
       \/ /\ s.iCurWnsrpStatus = "TX_SUPPORT" /\ r.iCurWnsrpStatus = "FULL_SUPPORT"
          /\ r.iActiveWnsrpCommandSave = s.iActiveWnsrpCommandSave
          /\ r.iSrpCommandSave = NoTimer

LEMMA GetEventKnows ==
    ASSUME NEW s, IsTerminal(s), NEW f \in Frames
    PROVE  Knows(s, SrpGetEventNoFromAL1(s, f).srp)
<1> DEFINE r == SrpGetEventNoFromAL1(s, f).srp
           no == WnsrpStatusSet(s, "NO_SUPPORT")
           full == WnsrpStatusSet(s, "FULL_SUPPORT")
           c == CountN402(s)
<1>1. Knows(s, s)
    BY DEF Knows
<1>2. s.iCurWnsrpStatus = "TX_SUPPORT" => Knows(s, no) /\ Knows(s, full)
    BY DEF Knows, WnsrpStatusSet, IsTerminal, SrpStart
<1>3. Knows(s, c) /\ Knows(s, [c EXCEPT !.iFirstNSRPResp = @ \/ s.iUseNSRP])
    <2> DEFINE n == [s EXCEPT !.iN402Counter = @ + 1]
    <2>1. \/ c = s
          \/ c = n
          \/ s.iCurWnsrpStatus = "TX_SUPPORT" /\ c = WnsrpStatusSet(n, "NO_SUPPORT")
        BY DEF CountN402
    <2> HIDE DEF c
    <2> QED
        BY <2>1 DEF Knows, WnsrpStatusSet, IsTerminal, SrpStart
<1>4. f.kind \in {"SRP_COMMAND", "SRP_RESPONSE", "NSRP_RESPONSE", "WNSRP_COMMAND",
                  "WNSRP_RESPONSE"}
    BY DEF Frames, Commands, Responses
<1>5. \/ r = s
      \/ s.iCurWnsrpStatus = "TX_SUPPORT" /\ r \in {no, full}
      \/ r \in {c, [c EXCEPT !.iFirstNSRPResp = @ \/ s.iUseNSRP]}
    <2> HIDE DEF no, full, c
    <2> QED
        BY <1>4 DEF SrpGetEventNoFromAL1, no, full, c
<1> HIDE DEF r, no, full, c
<1> QED
    BY <1>1, <1>2, <1>3, <1>5 DEF r

LEMMA SendNextSends ==
    ASSUME NEW F, NEW s, Good(F, s), Len(s.iActiveWnsrpCommandSave) < TxWindow
    PROVE  Sends(F, s, SendNext(s))
<1> DEFINE a == IF s.iCurWnsrpStatus # "FULL_SUPPORT" /\ s.iSrpWaitQueue # <<>>
                THEN SendSrpCommand(s) ELSE s
           b == IF a.iCurWnsrpStatus # "NO_SUPPORT"
                   /\ Len(a.iActiveWnsrpCommandSave) < Len(a.iSrpWaitQueue)
                THEN SendWnsrpCommands(a, 1) ELSE a
<1>1. Sends(F, s, a)
    BY SendSrpCommandSends, SendsItself
<1>2. a.iActiveWnsrpCommandSave = s.iActiveWnsrpCommandSave
    BY DEF SendSrpCommand, LowerLayerTx, Good, IsTerminal, SrpStart
<1>3. Len(s.iActiveWnsrpCommandSave) \in Nat
    <2>1. s.iActiveWnsrpCommandSave \in Seq(Timers)
        BY DEF Good, IsTerminal
    <2> QED
        BY <2>1
<1> HIDE DEF a
<1>4. Sends(F, a, b)
    <2>1. Len(a.iActiveWnsrpCommandSave) + 1 <= TxWindow
        BY <1>2, <1>3, ConstantsTyped
    <2>2. Good(F, a)
        BY <1>1 DEF Sends
    <2> QED
        BY <2>1, <2>2, SendWnsrpCommandsSends, SendsItself
<1>5. Sends(F, s, b)
    BY <1>1, <1>4, SendsTransitive
<1> HIDE DEF b
<1>6. Sends(F, b, [b EXCEPT !.iStatus = "IDLE"])
    BY <1>5, StatusSends DEF Sends
<1>7. Sends(F, s, [b EXCEPT !.iStatus = "IDLE"])
    BY <1>5, <1>6, SendsTransitive
<1> QED
    BY <1>5, <1>7 DEF SendNext, a, b
-----------------------------------------------------------------------------
(* Which timers run after a terminal has sent what comes next: one packet  *)
(* as SRP, up to k more of them as WNSRP.                                  *)
SendsBoth(s, r, k) ==
    /\ r.iCurWnsrpStatus = s.iCurWnsrpStatus
    /\ r.iSrpWaitQueue = s.iSrpWaitQueue /\ r.sent = s.sent
    /\ IF s.iCurWnsrpStatus # "FULL_SUPPORT" /\ s.iSrpWaitQueue # <<>>
       THEN r.iSrpCommandSave # NoTimer
       ELSE r.iSrpCommandSave = s.iSrpCommandSave
    /\ IF s.iCurWnsrpStatus # "NO_SUPPORT"
       THEN Flying(s, r, k)
       ELSE r.iActiveWnsrpCommandSave = s.iActiveWnsrpCommandSave

LEMMA SendSrpCommandIs ==
    ASSUME NEW s, IsTerminal(s), s.iSrpWaitQueue # <<>>
    PROVE  LET r == SendSrpCommand(s)
           IN  /\ r.iSrpCommandSave # NoTimer /\ r.iStatus = s.iStatus
               /\ r.iCurWnsrpStatus = s.iCurWnsrpStatus /\ r.iSrpWaitQueue = s.iSrpWaitQueue
               /\ r.iActiveWnsrpCommandSave = s.iActiveWnsrpCommandSave /\ r.sent = s.sent
<1> DEFINE r == SendSrpCommand(s)
           n == Head(s.iSrpWaitQueue)
<1>1. n \in Nat \ {0}
    BY QueueTyped
<1>2. Timer(n) # NoTimer
    BY <1>1 DEF Timer, NoTimer
<1>3. /\ r.iSrpCommandSave = Timer(n) /\ r.iStatus = s.iStatus
      /\ r.iCurWnsrpStatus = s.iCurWnsrpStatus /\ r.iSrpWaitQueue = s.iSrpWaitQueue
      /\ r.iActiveWnsrpCommandSave = s.iActiveWnsrpCommandSave /\ r.sent = s.sent
    BY DEF SendSrpCommand, LowerLayerTx, IsTerminal, SrpStart
<1> HIDE DEF r, n
<1> QED
    BY <1>2, <1>3 DEF r

LEMMA Srp_0_1Is ==
    ASSUME NEW F, NEW s, Good(F, s), s.iSrpWaitQueue # <<>>
    PROVE  LET r == Srp_0_1(s)
           IN  /\ SendsBoth(s, r, TxWindow - Len(s.iActiveWnsrpCommandSave))
               /\ r.iStatus = "WAIT_RESPONSE"
<1> DEFINE k == TxWindow - Len(s.iActiveWnsrpCommandSave)
           a == IF s.iCurWnsrpStatus = "FULL_SUPPORT" THEN s ELSE SendSrpCommand(s)
           b == IF s.iCurWnsrpStatus = "NO_SUPPORT" THEN a ELSE FillWindow(a)
           r == [b EXCEPT !.iStatus = "WAIT_RESPONSE"]
<1>1. Sends(F, s, a)
    BY SendSrpCommandSends, SendsItself
<1>2. /\ a.iCurWnsrpStatus = s.iCurWnsrpStatus /\ a.iSrpWaitQueue = s.iSrpWaitQueue
      /\ a.iActiveWnsrpCommandSave = s.iActiveWnsrpCommandSave /\ a.sent = s.sent
      /\ IF s.iCurWnsrpStatus # "FULL_SUPPORT" THEN a.iSrpCommandSave # NoTimer
         ELSE a.iSrpCommandSave = s.iSrpCommandSave
    BY SendSrpCommandIs DEF Good
<1> HIDE DEF a
<1>3. /\ IsTerminal(b) /\ b.sent = a.sent /\ b.iSrpWaitQueue = a.iSrpWaitQueue
      /\ SameModes(a, b)
      /\ IF s.iCurWnsrpStatus # "NO_SUPPORT" THEN Flying(a, b, k)
         ELSE b.iActiveWnsrpCommandSave = a.iActiveWnsrpCommandSave
    <2>1. CASE s.iCurWnsrpStatus = "NO_SUPPORT"
        BY <1>1, <2>1 DEF SameModes, Sends, Good
    <2>2. CASE s.iCurWnsrpStatus # "NO_SUPPORT"
        <3>1. /\ Sends(F, a, FillWindow(a)) /\ SameModes(a, FillWindow(a))
              /\ Flying(a, FillWindow(a), k)
            BY <1>1, <1>2, <2>2, FillWindowSends DEF Sends
        <3> QED
            BY <2>2, <3>1 DEF Sends, Good
    <2> QED
        BY <2>1, <2>2
<1> HIDE DEF b, k
<1>4. /\ r.iStatus = "WAIT_RESPONSE" /\ r.iSrpWaitQueue = b.iSrpWaitQueue /\ r.sent = b.sent
      /\ r.iCurWnsrpStatus = b.iCurWnsrpStatus /\ r.iSrpCommandSave = b.iSrpCommandSave
      /\ r.iActiveWnsrpCommandSave = b.iActiveWnsrpCommandSave
    BY <1>3 DEF IsTerminal, SrpStart
<1> HIDE DEF r
<1>5. SendsBoth(s, r, k)
    BY <1>2, <1>3, <1>4 DEF SendsBoth, SameModes, Flying
<1> QED
    BY <1>4, <1>5 DEF r, b, a, k, Srp_0_1

LEMMA SendNextIs ==
    ASSUME NEW F, NEW s, Good(F, s), Len(s.iActiveWnsrpCommandSave) < TxWindow
    PROVE  LET r == SendNext(s)
           IN  /\ SendsBoth(s, r, 1)
               /\ r.iStatus = IF r.iSrpCommandSave = NoTimer /\ r.iActiveWnsrpCommandSave = <<>>
                              THEN "IDLE" ELSE s.iStatus
<1> DEFINE a == IF s.iCurWnsrpStatus # "FULL_SUPPORT" /\ s.iSrpWaitQueue # <<>>
                THEN SendSrpCommand(s) ELSE s
           b == IF a.iCurWnsrpStatus # "NO_SUPPORT"
                   /\ Len(a.iActiveWnsrpCommandSave) < Len(a.iSrpWaitQueue)
                THEN SendWnsrpCommands(a, 1) ELSE a
           r == IF b.iSrpCommandSave = NoTimer /\ b.iActiveWnsrpCommandSave = <<>>
                THEN [b EXCEPT !.iStatus = "IDLE"] ELSE b
<1>1. Sends(F, s, a)
    BY SendSrpCommandSends, SendsItself
<1>2. /\ a.iCurWnsrpStatus = s.iCurWnsrpStatus /\ a.iSrpWaitQueue = s.iSrpWaitQueue
      /\ a.iActiveWnsrpCommandSave = s.iActiveWnsrpCommandSave /\ a.sent = s.sent
      /\ a.iStatus = s.iStatus
      /\ IF s.iCurWnsrpStatus # "FULL_SUPPORT" /\ s.iSrpWaitQueue # <<>>
         THEN a.iSrpCommandSave # NoTimer ELSE a.iSrpCommandSave = s.iSrpCommandSave
    BY SendSrpCommandIs DEF Good
<1> HIDE DEF a
<1>3. /\ Len(a.iActiveWnsrpCommandSave) \in Nat /\ Len(a.iSrpWaitQueue) \in Nat
      /\ Len(a.iActiveWnsrpCommandSave) <= Len(a.iSrpWaitQueue)
    <2>1. IsTerminal(a) /\ First(a)
        BY <1>1 DEF Sends, Good
    <2>2. a.iActiveWnsrpCommandSave \in Seq(Timers)
        BY <2>1 DEF IsTerminal
    <2> QED
        BY <2>1, <2>2, QueueTyped DEF First
<1>4. /\ IsTerminal(b) /\ b.sent = a.sent /\ b.iSrpWaitQueue = a.iSrpWaitQueue
      /\ SameModes(a, b)
      /\ IF s.iCurWnsrpStatus # "NO_SUPPORT" THEN Flying(a, b, 1)
         ELSE b.iActiveWnsrpCommandSave = a.iActiveWnsrpCommandSave
    <2>1. CASE ~(/\ a.iCurWnsrpStatus # "NO_SUPPORT"
                 /\ Len(a.iActiveWnsrpCommandSave) < Len(a.iSrpWaitQueue))
        <3>1. b = a
            BY <2>1
        <3>2. a.iCurWnsrpStatus # "NO_SUPPORT"
                => Len(a.iActiveWnsrpCommandSave) = Len(a.iSrpWaitQueue)
            BY <1>3, <2>1
        <3>3. a.iCurWnsrpStatus # "NO_SUPPORT" => Flying(a, a, 1)
            BY <1>3, <3>2 DEF Flying
        <3> HIDE DEF b
        <3> QED
            BY <1>1, <1>2, <3>1, <3>3 DEF SameModes, Sends, Good
    <2>2. CASE /\ a.iCurWnsrpStatus # "NO_SUPPORT"
               /\ Len(a.iActiveWnsrpCommandSave) < Len(a.iSrpWaitQueue)
        <3>1. Sends(F, a, b) /\ SameModes(a, b) /\ Flying(a, b, 1)
            <4>1. Len(a.iActiveWnsrpCommandSave) + 1 <= TxWindow
                BY <1>2, <1>3, ConstantsTyped
            <4>2. Good(F, a)
                BY <1>1 DEF Sends
            <4> QED
                BY <2>2, <4>1, <4>2, SendWnsrpCommandsSends
        <3> QED
            BY <1>2, <2>2, <3>1 DEF Sends, Good
    <2> QED
        BY <2>1, <2>2
<1> HIDE DEF b
<1>5. /\ r.iSrpWaitQueue = b.iSrpWaitQueue /\ r.sent = b.sent
      /\ r.iCurWnsrpStatus = b.iCurWnsrpStatus /\ r.iSrpCommandSave = b.iSrpCommandSave
      /\ r.iActiveWnsrpCommandSave = b.iActiveWnsrpCommandSave
      /\ r.iStatus = IF b.iSrpCommandSave = NoTimer /\ b.iActiveWnsrpCommandSave = <<>>
                     THEN "IDLE" ELSE b.iStatus
    BY <1>4 DEF IsTerminal, SrpStart
<1> HIDE DEF r
<1>6. SendsBoth(s, r, 1)
    BY <1>2, <1>4, <1>5 DEF SendsBoth, SameModes, Flying
<1>7. r.iStatus = IF r.iSrpCommandSave = NoTimer /\ r.iActiveWnsrpCommandSave = <<>>
                  THEN "IDLE" ELSE s.iStatus
    BY <1>2, <1>4, <1>5 DEF SameModes
<1> QED
    BY <1>6, <1>7 DEF r, b, a, SendNext
-----------------------------------------------------------------------------
(* Packets that leave the queue.                                           *)

Window(q, a) == /\ Len(a) <= TxWindow /\ Len(a) <= Len(q)
                /\ \A i \in 1..Len(a) : a[i].pkt = q[i]

Without(a, i) == IF i = 0 THEN a ELSE RemoveAt(a, i)

(* The first of a number in the queue is where it is among those in flight *)
(* if it is one of them, behind them if not.                               *)
TakenFrom(q, a, u, v, seq, i) ==
    \E k \in 0..Len(q) :
        /\ IsFirst(k, Matches(q, seq))
        /\ k = 0 => u = q
        /\ k # 0 => /\ Len(u) = Len(q) - 1
                    /\ \A j \in 1..Len(u) : u[j] = IF j < k THEN q[j] ELSE q[j + 1]
        /\ i # 0 => k = i /\ Len(v) = Len(a) - 1
        /\ i = 0 => v = a /\ (k = 0 \/ k > Len(a))

(* The commands in flight are still the first of the queue when the first  *)
(* of a number is taken out of both.                                       *)
LEMMA RemovedWindow ==
    ASSUME NEW T, T \subseteq Nat \ {0}, NEW q \in Seq(T), NEW a \in Seq(Timers), Window(q, a),
           NEW seq, NEW i, IsFirst(i, Running(a, seq))
    PROVE  LET u == Cleared(q, seq)
               v == Without(a, i)
           IN  /\ u \in Seq(T) /\ v \in Seq(Timers) /\ Window(u, v)
               /\ ToSet(u) \subseteq ToSet(q)
               /\ \A n \in ToSet(q) : SeqNum(n) # seq => n \in ToSet(u)
               /\ q # <<>> /\ SeqNum(q[1]) # seq => u # <<>> /\ u[1] = q[1]
               /\ i # 0 => Len(v) < TxWindow
               /\ TakenFrom(q, a, u, v, seq, i)
<1> DEFINE u == Cleared(q, seq)
           v == Without(a, i)
<1>1. Len(q) \in Nat /\ Len(a) \in Nat /\ TxWindow \in Nat
    BY ConstantsTyped
<1>2. PICK k \in 0..Len(q) : IsFirst(k, Matches(q, seq)) /\ u = IF k = 0 THEN q ELSE RemoveAt(q, k)
    BY ClearedAt
<1>3. /\ i \in 0..Len(a)
      /\ i = 0 => \A j \in 1..Len(a) : SeqNum(a[j].pkt) # seq
      /\ i # 0 => /\ SeqNum(a[i].pkt) = seq
                  /\ \A j \in 1..Len(a) : SeqNum(a[j].pkt) = seq => i <= j
    BY <1>1 DEF IsFirst, Running
<1>4. /\ k = 0 => \A j \in 1..Len(q) : SeqNum(q[j]) # seq
      /\ k # 0 => /\ SeqNum(q[k]) = seq
                  /\ \A j \in 1..Len(q) : SeqNum(q[j]) = seq => k <= j
    BY <1>1, <1>2 DEF IsFirst, Matches
<1>5. \A j \in 1..Len(a) : j \in 1..Len(q) /\ a[j].pkt = q[j]
    BY <1>1 DEF Window
<1>6. i # 0 => k = i
    <2> SUFFICES ASSUME i # 0 PROVE k = i
        OBVIOUS
    <2>1. i \in 1..Len(a) /\ i \in 1..Len(q) /\ SeqNum(q[i]) = seq
        BY <1>1, <1>3, <1>5
    <2>2. k # 0 /\ k <= i
        BY <1>4, <2>1
    <2>3. k \in 1..Len(a) /\ SeqNum(a[k].pkt) = seq
        <3>1. k \in 1..Len(a)
            BY <1>1, <1>2, <2>1, <2>2
        <3> QED
            BY <1>4, <1>5, <2>2, <3>1
    <2> QED
        BY <1>1, <1>2, <1>3, <2>1, <2>2, <2>3
<1>7. i = 0 => k = 0 \/ k > Len(a)
    BY <1>1, <1>2, <1>3, <1>4, <1>5
<1>8. /\ u \in Seq(T)
      /\ k # 0 => /\ Len(u) = Len(q) - 1
                  /\ \A j \in 1..Len(u) : u[j] = IF j < k THEN q[j] ELSE q[j + 1]
      /\ ToSet(u) \subseteq ToSet(q)
      /\ k # 0 => ToSet(q) \subseteq ToSet(u) \cup {q[k]}
    <2>1. CASE k = 0
        BY <1>2, <2>1
    <2>2. CASE k # 0
        <3>1. k \in 1..Len(q) /\ u = RemoveAt(q, k)
            BY <1>1, <1>2, <2>2
        <3> HIDE DEF u
        <3> QED
            BY <2>2, <3>1, RemoveAtTyped
    <2> QED
        BY <2>1, <2>2
<1>9. /\ v \in Seq(Timers)
      /\ i # 0 => /\ Len(v) = Len(a) - 1
                  /\ \A j \in 1..Len(v) : v[j] = IF j < i THEN a[j] ELSE a[j + 1]
    <2>1. CASE i = 0
        BY <2>1 DEF Without
    <2>2. CASE i # 0
        <3>1. i \in 1..Len(a) /\ v = RemoveAt(a, i)
            BY <1>1, <1>3, <2>2 DEF Without
        <3> HIDE DEF v
        <3> QED
            BY <2>2, <3>1, RemoveAtTyped
    <2> QED
        BY <2>1, <2>2
<1>10. i = 0 => v = a
    BY DEF Without
<1>11. k = 0 => u = q
    BY <1>2
<1> HIDE DEF u, v
<1>12. Window(u, v)
    <2>1. CASE i # 0
        <3>1. /\ k = i /\ k # 0 /\ Len(u) = Len(q) - 1 /\ Len(v) = Len(a) - 1
              /\ Len(a) <= Len(q) /\ Len(a) <= TxWindow
            BY <1>6, <1>8, <1>9, <2>1, <1>3 DEF Window
        <3>2. ASSUME NEW j \in 1..Len(v)
              PROVE  v[j].pkt = u[j]
            <4>1. j \in 1..Len(a) /\ j + 1 \in 1..Len(a) /\ j \in 1..Len(u)
                BY <1>1, <3>1
            <4>2. v[j] = IF j < i THEN a[j] ELSE a[j + 1]
                BY <1>9, <2>1
            <4>3. u[j] = IF j < i THEN q[j] ELSE q[j + 1]
                BY <1>8, <3>1, <4>1
            <4> QED
                BY <1>5, <4>1, <4>2, <4>3
        <3> QED
            BY <1>1, <3>1, <3>2 DEF Window
    <2>2. CASE i = 0 /\ k = 0
        BY <1>10, <1>11, <2>2
    <2>3. CASE i = 0 /\ k # 0
        <3>1. k > Len(a) /\ Len(u) = Len(q) - 1 /\ v = a /\ k \in 1..Len(q)
            BY <1>1, <1>2, <1>7, <1>8, <1>10, <2>3
        <3>2. ASSUME NEW j \in 1..Len(a)
              PROVE  a[j].pkt = u[j]
            <4>1. j \in 1..Len(u) /\ j < k
                BY <1>1, <3>1
            <4> QED
                BY <1>5, <1>8, <2>3, <4>1
        <3> QED
            BY <1>1, <3>1, <3>2 DEF Window
    <2> QED
        BY <2>1, <2>2, <2>3
<1>13. \A n \in ToSet(q) : SeqNum(n) # seq => n \in ToSet(u)
    BY <1>4, <1>8, <1>11
<1>14. ASSUME q # <<>>, SeqNum(q[1]) # seq
       PROVE  u # <<>> /\ u[1] = q[1]
    <2>1. 1 \in 1..Len(q)
        BY <1>14, <1>1
    <2>2. CASE k = 0
        BY <1>11, <1>14, <2>2
    <2>3. CASE k # 0
        <3>1. k # 1
            BY <1>4, <1>14, <2>3
        <3>2. 1 < k /\ Len(u) = Len(q) - 1 /\ 1 \in 1..Len(u)
            BY <1>1, <1>2, <1>8, <2>1, <2>3, <3>1
        <3>3. u[1] = q[1]
            BY <1>8, <2>3, <3>2
        <3> QED
            BY <3>2, <3>3
    <2> QED
        BY <2>2, <2>3
<1>15. i # 0 => Len(v) < TxWindow
    BY <1>1, <1>9 DEF Window
<1>16. TakenFrom(q, a, u, v, seq, i)
    BY <1>2, <1>6, <1>7, <1>8, <1>9, <1>10, <1>11 DEF TakenFrom
<1> QED
    BY <1>8, <1>9, <1>12, <1>13, <1>14, <1>15, <1>16 DEF u, v

(* All of the queue may be sent, whatever its head will be.                *)
OffersAll(F, s) == \A i \in 1..Len(s.iSrpWaitQueue) :
                        /\ s.iCurWnsrpStatus # "FULL_SUPPORT"
                                => Command("SRP_COMMAND", s.iSrpWaitQueue[i]) \in F
                        /\ Command("WNSRP_COMMAND", s.iSrpWaitQueue[i]) \in F

Kept(s, r, seq) == \A n \in ToSet(s.iSrpWaitQueue) :
                        SeqNum(n) # seq => n \in ToSet(r.iSrpWaitQueue)

Taken(s, i, seq) ==
    [s EXCEPT !.iSrpWaitQueue = Cleared(@, seq), !.iActiveWnsrpCommandSave = Without(@, i)]

IsTaken(F, s, r, i, seq) ==
    LET q == s.iSrpWaitQueue
    IN  /\ IsTerminal(r) /\ OffersAll(F, r) /\ Offers(F, r) /\ r.out \in Seq(F)
        /\ Window(r.iSrpWaitQueue, r.iActiveWnsrpCommandSave)
        /\ r.iSrpCommandSave = s.iSrpCommandSave
        /\ r.iCurWnsrpStatus = s.iCurWnsrpStatus /\ r.iStatus = s.iStatus
        /\ SameReceiver(s, r) /\ r.sent = s.sent
        /\ ToSet(r.iSrpWaitQueue) \subseteq ToSet(q) /\ Kept(s, r, seq)
        /\ q # <<>> /\ SeqNum(q[1]) # seq =>
                r.iSrpWaitQueue # <<>> /\ r.iSrpWaitQueue[1] = q[1]
        /\ i # 0 => Len(r.iActiveWnsrpCommandSave) < TxWindow
        /\ r.iActiveWnsrpCommandSave = Without(s.iActiveWnsrpCommandSave, i)
        /\ TakenFrom(q, s.iActiveWnsrpCommandSave, r.iSrpWaitQueue,
                     r.iActiveWnsrpCommandSave, seq, i)

LEMMA TakenTyped ==
    ASSUME NEW F, NEW s, IsTerminal(s), OffersAll(F, s), s.out \in Seq(F),
           Window(s.iSrpWaitQueue, s.iActiveWnsrpCommandSave),
           NEW seq, NEW i,
           IsFirst(i, Running(s.iActiveWnsrpCommandSave, seq))
    PROVE  IsTaken(F, s, Taken(s, i, seq), i, seq)
<1> DEFINE q == s.iSrpWaitQueue
           a == s.iActiveWnsrpCommandSave
           u == Cleared(q, seq)
           v == Without(a, i)
           r == [s EXCEPT !.iSrpWaitQueue = u, !.iActiveWnsrpCommandSave = v]
<1>1. q \in Seq(1..s.sent) /\ a \in Seq(Timers) /\ s.sent \in Nat /\ 1..s.sent \subseteq Nat \ {0}
    <2>1. q \in Seq(1..s.sent) /\ a \in Seq(Timers) /\ s.sent \in Nat
        BY DEF IsTerminal
    <2> QED
        BY <2>1
<1>2. /\ u \in Seq(1..s.sent) /\ v \in Seq(Timers) /\ Window(u, v)
      /\ ToSet(u) \subseteq ToSet(q)
      /\ \A n \in ToSet(q) : SeqNum(n) # seq => n \in ToSet(u)
      /\ q # <<>> /\ SeqNum(q[1]) # seq => u # <<>> /\ u[1] = q[1]
      /\ i # 0 => Len(v) < TxWindow
      /\ TakenFrom(q, a, u, v, seq, i)
    <2> DEFINE T == 1..s.sent
    <2>1. /\ T \subseteq Nat \ {0} /\ q \in Seq(T) /\ a \in Seq(Timers) /\ Window(q, a)
          /\ IsFirst(i, Running(a, seq))
        BY <1>1
    <2> HIDE DEF T, q, a
    <2>2. /\ u \in Seq(T) /\ v \in Seq(Timers) /\ Window(u, v)
          /\ ToSet(u) \subseteq ToSet(q)
          /\ \A n \in ToSet(q) : SeqNum(n) # seq => n \in ToSet(u)
          /\ q # <<>> /\ SeqNum(q[1]) # seq => u # <<>> /\ u[1] = q[1]
          /\ i # 0 => Len(v) < TxWindow
          /\ TakenFrom(q, a, u, v, seq, i)
        BY <2>1, RemovedWindow
    <2> QED
        BY <2>2 DEF T
<1> HIDE DEF u, v
<1>5. /\ r.iSrpWaitQueue = u /\ r.iActiveWnsrpCommandSave = v /\ r.out = s.out
      /\ r.iSrpCommandSave = s.iSrpCommandSave /\ r.iCurWnsrpStatus = s.iCurWnsrpStatus
      /\ r.sent = s.sent /\ SameReceiver(s, r) /\ r.iStatus = s.iStatus
    BY DEF SameReceiver, IsTerminal, SrpStart
<1>4. IsTerminal(r)
    <2>1. r.iSrpWaitQueue \in Seq(1..r.sent) /\ r.iActiveWnsrpCommandSave \in Seq(Timers)
        BY <1>2, <1>5
    <2> QED
        BY <2>1 DEF IsTerminal, SrpStart
<1> HIDE DEF r
<1>6. OffersAll(F, r)
    <2>1. \A j \in 1..Len(u) : u[j] \in ToSet(u)
        BY <1>2, ToSetOf
    <2>2. \A j \in 1..Len(u) : \E k \in 1..Len(q) : u[j] = q[k]
        BY <1>1, <1>2, <2>1, ToSetOf
    <2> HIDE DEF q
    <2>3. \A k \in 1..Len(q) : /\ s.iCurWnsrpStatus # "FULL_SUPPORT"
                                    => Command("SRP_COMMAND", q[k]) \in F
                              /\ Command("WNSRP_COMMAND", q[k]) \in F
        BY DEF OffersAll, q
    <2>4. \A j \in 1..Len(u) : /\ s.iCurWnsrpStatus # "FULL_SUPPORT"
                                    => Command("SRP_COMMAND", u[j]) \in F
                              /\ Command("WNSRP_COMMAND", u[j]) \in F
        BY <2>2, <2>3
    <2> QED
        BY <1>5, <2>4 DEF OffersAll
<1>7. Offers(F, r)
    <2>1. u # <<>> => 1 \in 1..Len(u)
        BY <1>2
    <2> QED
        BY <1>5, <1>6, <2>1 DEF Offers, OffersAll
<1> QED
    BY <1>2, <1>4, <1>5, <1>6, <1>7 DEF IsTaken, Taken, r, u, v, Kept
-----------------------------------------------------------------------------
(* Responses.                                                              *)
Answers(F, s, r) == /\ Good(F, r) /\ SameReceiver(s, r) /\ r.sent = s.sent
                    /\ ToSet(r.iSrpWaitQueue) \subseteq ToSet(s.iSrpWaitQueue)

LEMMA AnswersThenSends ==
    ASSUME NEW F, NEW s, NEW r, NEW q, Answers(F, s, r), Sends(F, r, q)
    PROVE  Answers(F, s, q)
BY DEF Answers, Sends, SameReceiver

LEMMA SaveCleared ==
    ASSUME NEW F, NEW s, IsTerminal(s), Offers(F, s), s.out \in Seq(F),
           Window(s.iSrpWaitQueue, s.iActiveWnsrpCommandSave),
           s.iCurWnsrpStatus = "NO_SUPPORT" => s.iActiveWnsrpCommandSave = <<>>
    PROVE  LET r == [s EXCEPT !.iSrpCommandSave = NoTimer]
           IN  /\ Good(F, r) /\ SameReceiver(s, r) /\ r.sent = s.sent
               /\ r.iSrpWaitQueue = s.iSrpWaitQueue
               /\ r.iActiveWnsrpCommandSave = s.iActiveWnsrpCommandSave
               /\ r.iSrpCommandSave = NoTimer /\ r.iStatus = s.iStatus
               /\ r.iCurWnsrpStatus = s.iCurWnsrpStatus /\ r.out = s.out
<1> DEFINE r == [s EXCEPT !.iSrpCommandSave = NoTimer]
<1>1. /\ r.iSrpWaitQueue = s.iSrpWaitQueue /\ r.iCurWnsrpStatus = s.iCurWnsrpStatus
      /\ r.iActiveWnsrpCommandSave = s.iActiveWnsrpCommandSave
      /\ r.iSrpCommandSave = NoTimer /\ r.out = s.out /\ r.sent = s.sent
      /\ r.iStatus = s.iStatus /\ SameReceiver(s, r)
    BY DEF SameReceiver, IsTerminal, SrpStart
<1>2. IsTerminal(r)
    BY DEF IsTerminal, SrpStart
<1> HIDE DEF r
<1>3. First(r) /\ Offers(F, r)
    BY <1>1 DEF First, Offers, Window
<1> QED
    BY <1>1, <1>2, <1>3 DEF Good, r

(* When there are none in flight, none is kept for a terminal without.     *)
LEMMA WithoutNone ==
    ASSUME NEW s, First(s), NEW seq, NEW i, IsFirst(i, Running(s.iActiveWnsrpCommandSave, seq))
    PROVE  s.iCurWnsrpStatus = "NO_SUPPORT" => Without(s.iActiveWnsrpCommandSave, i) = <<>>
BY DEF First, IsFirst, Running, Without

LEMMA ResendTyped ==
    ASSUME NEW F, NEW s, IsTerminal(s), OffersAll(F, s), s.out \in Seq(F),
           Window(s.iSrpWaitQueue, s.iActiveWnsrpCommandSave),
           NEW i \in 1..Len(s.iActiveWnsrpCommandSave)
    PROVE  LET r == ResendBefore(s, i)
               a == s.iActiveWnsrpCommandSave
               b == r.iActiveWnsrpCommandSave
           IN  /\ IsTerminal(r) /\ OffersAll(F, r) /\ r.out \in Seq(F)
               /\ Window(r.iSrpWaitQueue, b)
               /\ Len(b) = Len(a) /\ \A j \in 1..Len(a) : b[j].pkt = a[j].pkt
               /\ SameReceiver(s, r) /\ r.sent = s.sent /\ r.iSrpWaitQueue = s.iSrpWaitQueue
               /\ SameModes(s, r)
<1> DEFINE q == s.iSrpWaitQueue
           a == s.iActiveWnsrpCommandSave
           c == [k \in 1..(i - 1) |-> Command("WNSRP_COMMAND", a[k].pkt)]
           b == [k \in DOMAIN a |-> IF k < i THEN [pkt |-> a[k].pkt, N400Counter |-> 1]
                                    ELSE a[k]]
           l == LowerLayerTx(s, c)
           r == [l EXCEPT !.iActiveWnsrpCommandSave = b]
<1>1. a \in Seq(Timers) /\ Len(a) \in Nat /\ DOMAIN a = 1..Len(a)
    <2>1. a \in Seq(Timers)
        BY DEF IsTerminal
    <2> QED
        BY <2>1
<1>2. \A k \in 1..Len(a) : a[k] \in Timers /\ a[k].pkt = q[k] /\ k \in 1..Len(q)
    BY <1>1, QueueTyped DEF Window
<1>3. c \in Seq(F) /\ c \in Seq(Frames)
    <2>1. \A k \in 1..(i - 1) : /\ Command("WNSRP_COMMAND", a[k].pkt) \in F
                               /\ Command("WNSRP_COMMAND", a[k].pkt) \in Frames
        <3> TAKE k \in 1..(i - 1)
        <3>1. k \in 1..Len(a)
            BY <1>1
        <3>2. Command("WNSRP_COMMAND", a[k].pkt) \in F
            BY <1>2, <3>1 DEF OffersAll
        <3>3. a[k].pkt \in Nat \ {0}
            BY <1>2, <3>1 DEF Timers
        <3> QED
            BY <3>2, <3>3 DEF Frames, Commands, Command
    <2> QED
        BY <1>1, <2>1
<1>4. b \in Seq(Timers) /\ Len(b) = Len(a) /\ \A k \in 1..Len(a) : b[k].pkt = a[k].pkt
    <2>1. \A k \in 1..Len(a) : b[k] \in Timers /\ b[k].pkt = a[k].pkt
        BY <1>1, <1>2 DEF Timers
    <2>2. DOMAIN b = 1..Len(a) /\ b = [k \in 1..Len(a) |-> b[k]]
        BY <1>1
    <2> HIDE DEF b
    <2>3. b \in [1..Len(a) -> Timers]
        BY <2>1, <2>2
    <2>4. b \in Seq(Timers)
        BY <1>1, <2>3
    <2>5. Len(b) = Len(a)
        BY <1>1, <2>2, <2>4
    <2> QED
        BY <2>1, <2>4, <2>5
<1> HIDE DEF c, b
<1>5. IsTerminal(l) /\ l.out \in Seq(F)
    BY <1>3, OutTyped
<1>6. l = [s EXCEPT !.out = s.out \o c]
    BY DEF LowerLayerTx
<1> HIDE DEF l
<1>7. IsTerminal(r) /\ r.out \in Seq(F)
    BY <1>4, <1>5 DEF IsTerminal, SrpStart
<1>8. /\ SameReceiver(s, r) /\ r.sent = s.sent /\ r.iSrpWaitQueue = q
      /\ SameModes(s, r) /\ r.iActiveWnsrpCommandSave = b
    BY <1>6 DEF SameReceiver, SameModes, IsTerminal, SrpStart
<1> HIDE DEF r
<1>9. OffersAll(F, r) /\ Window(q, b)
    BY <1>2, <1>4, <1>8 DEF OffersAll, Window, SameModes
<1> QED
    BY <1>4, <1>7, <1>8, <1>9 DEF ResendBefore, r, l, b, c

LEMMA WnsrpResponseIs ==
    ASSUME NEW s, IsTerminal(s), NEW seq
    PROVE  LET i == ActiveIndex(s, seq)
           IN  Srp_1_3(s, "WNSRP_RESPONSE", seq)
                = IF i = 0 THEN Taken(s, i, seq)
                  ELSE SendNext(Taken(ResendBefore(s, i), i, seq))
<1> DEFINE i == ActiveIndex(s, seq)
           c == SrpCommandClear(s, seq)
<1>1. Srp_1_3(s, "WNSRP_RESPONSE", seq)
        = IF i = 0 THEN c ELSE SendNext(RemoveActive(ResendBefore(c, i), i))
    BY DEF Srp_1_3
<1>2. c = [s EXCEPT !.iSrpWaitQueue = Cleared(s.iSrpWaitQueue, seq)]
    BY DEF SrpCommandClear, Cleared
<1> HIDE DEF i
<1>3. i = 0 => c = Taken(s, i, seq)
    BY <1>2 DEF Taken, Without, IsTerminal, SrpStart
<1>4. i # 0 => RemoveActive(ResendBefore(c, i), i) = Taken(ResendBefore(s, i), i, seq)
    <2>1. /\ c.iActiveWnsrpCommandSave = s.iActiveWnsrpCommandSave /\ c.out = s.out
          /\ ResendBefore(s, i).iSrpWaitQueue = s.iSrpWaitQueue
        BY <1>2 DEF ResendBefore, LowerLayerTx, IsTerminal, SrpStart
    <2>2. ResendBefore(c, i)
            = [ResendBefore(s, i) EXCEPT !.iSrpWaitQueue = Cleared(s.iSrpWaitQueue, seq)]
        BY <1>2, <2>1 DEF ResendBefore, LowerLayerTx, IsTerminal, SrpStart
    <2>3. DOMAIN ResendBefore(s, i) = DOMAIN SrpStart(TRUE, TRUE)
        BY DEF ResendBefore, LowerLayerTx, IsTerminal
    <2> DEFINE b == ResendBefore(s, i)
    <2> HIDE DEF b
    <2> QED
        BY <2>1, <2>2, <2>3 DEF RemoveActive, Without, Taken, SrpStart, b
<1> HIDE DEF c
<1> QED
    BY <1>1, <1>3, <1>4 DEF i

LEMMA WnsrpResponseAnswers ==
    ASSUME NEW F, NEW s, Good(F, s), OffersAll(F, s), s.iCurWnsrpStatus = "FULL_SUPPORT",
           NEW seq
    PROVE  LET r == Srp_1_3(s, "WNSRP_RESPONSE", seq)
           IN  Answers(F, s, r) /\ Kept(s, r, seq)
<1> DEFINE q == s.iSrpWaitQueue
           a == s.iActiveWnsrpCommandSave
           i == ActiveIndex(s, seq)
<1>1. a \in Seq(Timers) /\ Len(a) \in Nat /\ Window(q, a) /\ s.iSrpCommandSave = NoTimer
    <2>1. a \in Seq(Timers) /\ Window(q, a) /\ s.iSrpCommandSave = NoTimer
        BY DEF Good, IsTerminal, First, Window
    <2> QED
        BY <2>1
<1>2. IsFirst(i, Running(a, seq))
    BY <1>1, ActiveIndexFinds
<1>3. Srp_1_3(s, "WNSRP_RESPONSE", seq)
        = IF i = 0 THEN Taken(s, i, seq) ELSE SendNext(Taken(ResendBefore(s, i), i, seq))
    BY WnsrpResponseIs DEF Good
<1> HIDE DEF i
<1>5. CASE i = 0
    <2> DEFINE r == Taken(s, i, seq)
    <2>3. IsTaken(F, s, r, i, seq)
        BY <1>1, <1>2, TakenTyped DEF Good
    <2> HIDE DEF r
    <2>4. First(r)
        BY <1>1, <2>3 DEF First, Window, IsTaken
    <2> QED
        BY <1>3, <1>5, <2>3, <2>4 DEF Answers, Good, IsTaken, r
<1>6. CASE i # 0
    <2> DEFINE s2 == ResendBefore(s, i)
               b == s2.iActiveWnsrpCommandSave
               r == Taken(s2, i, seq)
    <2>1. i \in 1..Len(a)
        BY <1>2, <1>6 DEF IsFirst, Running
    <2>2. /\ IsTerminal(s2) /\ OffersAll(F, s2) /\ s2.out \in Seq(F)
          /\ Window(s2.iSrpWaitQueue, b)
          /\ Len(b) = Len(a) /\ \A j \in 1..Len(a) : b[j].pkt = a[j].pkt
          /\ SameReceiver(s, s2) /\ s2.sent = s.sent /\ s2.iSrpWaitQueue = q
          /\ s2.iCurWnsrpStatus = s.iCurWnsrpStatus
          /\ s2.iSrpCommandSave = s.iSrpCommandSave
        BY <1>1, <2>1, ResendTyped DEF Good, SameModes
    <2>3. Running(b, seq) = Running(a, seq)
        BY <2>2 DEF Running
    <2>4. Srp_1_3(s, "WNSRP_RESPONSE", seq) = SendNext(r)
        BY <1>3, <1>6
    <2> HIDE DEF s2
    <2>5. IsTaken(F, s2, r, i, seq)
        BY <1>2, <2>2, <2>3, TakenTyped
    <2> HIDE DEF r
    <2>6. First(r)
        BY <1>1, <2>2, <2>5 DEF First, Window, IsTaken
    <2>7. Good(F, r) /\ Answers(F, s, r) /\ Kept(s, r, seq)
        BY <2>2, <2>5, <2>6 DEF Answers, Good, SameReceiver, Kept, IsTaken
    <2>8. Sends(F, r, SendNext(r))
        BY <1>6, <2>5, <2>7, SendNextSends DEF IsTaken
    <2>9. Answers(F, s, SendNext(r))
        BY <2>7, <2>8, AnswersThenSends
    <2>10. Kept(s, SendNext(r), seq)
        BY <2>7, <2>8 DEF Kept, Sends
    <2> QED
        BY <2>4, <2>9, <2>10
<1> QED
    BY <1>5, <1>6

(* When the packet of the SRP timer is taken, there is place for another.  *)
LEMMA TakenFrees ==
    ASSUME NEW F, NEW s, IsTerminal(s), First(s), s.iSrpCommandSave # NoTimer,
           NEW seq, seq = SeqNum(s.iSrpCommandSave.pkt), NEW i,
           IsFirst(i, Running(s.iActiveWnsrpCommandSave, seq)), NEW c, IsTaken(F, s, c, i, seq)
    PROVE  Len(c.iActiveWnsrpCommandSave) < TxWindow
<1> DEFINE a == s.iActiveWnsrpCommandSave
<1>1. CASE i # 0
    BY <1>1 DEF IsTaken
<1>2. CASE i = 0
    <2>1. a \in Seq(Timers) /\ (Len(a) # 0 => a[1].pkt = s.iSrpCommandSave.pkt)
        <3>1. /\ a \in Seq(Timers) /\ s.iSrpCommandSave.pkt = s.iSrpWaitQueue[1]
              /\ \A j \in 1..Len(a) : a[j].pkt = s.iSrpWaitQueue[j]
            BY DEF First, IsTerminal
        <3>2. Len(a) # 0 => 1 \in 1..Len(a)
            BY <3>1
        <3> QED
            BY <3>1, <3>2
    <2>2. Running(a, seq) = {}
        BY <1>2 DEF IsFirst, Running
    <2>3. Len(a) = 0
        BY <2>1, <2>2 DEF Running
    <2> QED
        BY <1>2, <2>3, ConstantsTyped DEF IsTaken, Without
<1> QED
    BY <1>1, <1>2

LEMMA TakenThenNext ==
    ASSUME NEW F, NEW s, Good(F, s), OffersAll(F, s), s.iSrpCommandSave # NoTimer,
           NEW seq, seq = SeqNum(s.iSrpCommandSave.pkt),
           NEW i, IsFirst(i, Running(s.iActiveWnsrpCommandSave, seq))
    PROVE  LET r == SendNext([Taken(s, i, seq) EXCEPT !.iSrpCommandSave = NoTimer])
           IN  Answers(F, s, r) /\ Kept(s, r, seq)
<1> DEFINE c == Taken(s, i, seq)
           d == [c EXCEPT !.iSrpCommandSave = NoTimer]
<1>1. IsTaken(F, s, c, i, seq)
    BY TakenTyped DEF Good, First, Window
<1> HIDE DEF c
<1>2. c.iCurWnsrpStatus = "NO_SUPPORT" => c.iActiveWnsrpCommandSave = <<>>
    BY <1>1, WithoutNone DEF Good, IsTaken
<1>3. /\ Good(F, d) /\ SameReceiver(c, d) /\ d.sent = c.sent
      /\ d.iSrpWaitQueue = c.iSrpWaitQueue
      /\ d.iActiveWnsrpCommandSave = c.iActiveWnsrpCommandSave
    BY <1>1, <1>2, SaveCleared DEF IsTaken
<1> HIDE DEF d
<1>4. Len(d.iActiveWnsrpCommandSave) < TxWindow
    BY <1>1, <1>3, TakenFrees DEF Good
<1>5. Sends(F, d, SendNext(d))
    BY <1>3, <1>4, SendNextSends
<1>6. Answers(F, s, d) /\ Kept(s, d, seq)
    BY <1>1, <1>3 DEF Answers, IsTaken, SameReceiver, Kept
<1>7. Answers(F, s, SendNext(d)) /\ Kept(s, SendNext(d), seq)
    BY <1>5, <1>6, AnswersThenSends DEF Kept, Sends
<1> QED
    BY <1>7 DEF d, c

LEMMA NsrpResponseIs ==
    ASSUME NEW s, IsTerminal(s), NEW seq
    PROVE  LET c == Taken(s, ActiveIndex(s, seq), seq)
           IN  Srp_1_3(s, "NSRP_RESPONSE", seq)
                = IF c.iSrpCommandSave # NoTimer /\ SeqNum(c.iSrpCommandSave.pkt) = seq
                  THEN SendNext([c EXCEPT !.iSrpCommandSave = NoTimer]) ELSE c
<1> DEFINE i == ActiveIndex(s, seq)
           c == Taken(s, i, seq)
<1>1. RemoveActive(SrpCommandClear(s, seq), i) = c
    BY DEF RemoveActive, SrpCommandClear, Cleared, Taken, Without, IsTerminal, SrpStart
<1> HIDE DEF c, i
<1> QED
    BY <1>1 DEF Srp_1_3, i, c

LEMMA NsrpResponseAnswers ==
    ASSUME NEW F, NEW s, Good(F, s), OffersAll(F, s), NEW seq
    PROVE  LET r == Srp_1_3(s, "NSRP_RESPONSE", seq)
           IN  Answers(F, s, r) /\ Kept(s, r, seq)
<1> DEFINE a == s.iActiveWnsrpCommandSave
           i == ActiveIndex(s, seq)
           c == Taken(s, i, seq)
<1>1. IsFirst(i, Running(a, seq))
    BY ActiveIndexFinds DEF Good, IsTerminal
<1>2. Srp_1_3(s, "NSRP_RESPONSE", seq)
        = IF c.iSrpCommandSave # NoTimer /\ SeqNum(c.iSrpCommandSave.pkt) = seq
          THEN SendNext([c EXCEPT !.iSrpCommandSave = NoTimer]) ELSE c
    BY NsrpResponseIs DEF Good
<1> HIDE DEF i
<1>3. IsTaken(F, s, c, i, seq)
    BY <1>1, TakenTyped DEF Good, First, Window
<1>4. CASE c.iSrpCommandSave # NoTimer /\ SeqNum(c.iSrpCommandSave.pkt) = seq
    <2>1. s.iSrpCommandSave # NoTimer /\ SeqNum(s.iSrpCommandSave.pkt) = seq
        BY <1>3, <1>4 DEF IsTaken
    <2> QED
        BY <1>1, <1>2, <1>4, <2>1, TakenThenNext
<1>5. CASE ~(c.iSrpCommandSave # NoTimer /\ SeqNum(c.iSrpCommandSave.pkt) = seq)
    <2> HIDE DEF c
    <2>1. c.iCurWnsrpStatus = "NO_SUPPORT" => c.iActiveWnsrpCommandSave = <<>>
        BY <1>1, <1>3, WithoutNone DEF Good, IsTaken
    <2>2. c.iSrpCommandSave # NoTimer =>
            c.iSrpWaitQueue # <<>> /\ c.iSrpCommandSave.pkt = c.iSrpWaitQueue[1]
        BY <1>3, <1>5 DEF Good, First, IsTaken
    <2>3. c.iCurWnsrpStatus = "FULL_SUPPORT" => c.iSrpCommandSave = NoTimer
        BY <1>3 DEF Good, First, IsTaken
    <2>4. First(c)
        BY <1>3, <2>1, <2>2, <2>3 DEF First, Window, IsTaken
    <2> QED
        BY <1>2, <1>3, <1>5, <2>4 DEF Answers, Good, IsTaken
<1> QED
    BY <1>4, <1>5

LEMMA ResponseIs ==
    ASSUME NEW s, IsTerminal(s), First(s), s.iSrpCommandSave # NoTimer, NEW seq
    PROVE  LET a == s.iActiveWnsrpCommandSave
               number == SeqNum(s.iSrpCommandSave.pkt)
           IN  \E i : /\ IsFirst(i, Running(a, number))
                      /\ Srp_1_3(s, "RESPONSE", seq)
                          = SendNext([Taken(s, i, number) EXCEPT !.iSrpCommandSave = NoTimer])
<1> DEFINE a == s.iActiveWnsrpCommandSave
           oldest == IF a = <<>> THEN 0 ELSE 1
           number == SeqNum(s.iSrpCommandSave.pkt)
           c == Taken(s, oldest, number)
<1>1. IsFirst(oldest, Running(a, number))
    <2>1. /\ a \in Seq(Timers) /\ Len(a) <= Len(s.iSrpWaitQueue)
          /\ \A j \in 1..Len(a) : a[j].pkt = s.iSrpWaitQueue[j]
          /\ s.iSrpCommandSave.pkt = s.iSrpWaitQueue[1]
        BY DEF First, IsTerminal
    <2>2. CASE a = <<>>
        BY <2>2 DEF IsFirst, Running
    <2>3. CASE a # <<>>
        <3>1. 1 \in 1..Len(a)
            BY <2>1, <2>3
        <3>2. 1 \in Running(a, number) /\ \A j \in Running(a, number) : 1 <= j
            BY <2>1, <3>1 DEF Running
        <3> QED
            BY <2>3, <3>2 DEF IsFirst
    <2> QED
        BY <2>2, <2>3
<1>2. SrpCommandClear(RemoveActive(s, oldest), number) = c
    BY DEF RemoveActive, SrpCommandClear, Cleared, Taken, Without, IsTerminal, SrpStart
<1>3. Srp_1_3(s, "RESPONSE", seq) = SendNext([c EXCEPT !.iSrpCommandSave = NoTimer])
    <2> HIDE DEF c
    <2> QED
        BY <1>2 DEF Srp_1_3
<1> HIDE DEF oldest
<1> QED
    BY <1>1, <1>3

LEMMA ResponseAnswers ==
    ASSUME NEW F, NEW s, Good(F, s), OffersAll(F, s), NEW seq
    PROVE  Answers(F, s, Srp_1_3(s, "RESPONSE", seq))
<1>1. CASE s.iSrpCommandSave = NoTimer
    <2>1. Srp_1_3(s, "RESPONSE", seq) = s
        BY <1>1 DEF Srp_1_3
    <2> QED
        BY <2>1 DEF Answers, SameReceiver
<1>2. CASE s.iSrpCommandSave # NoTimer
    <2> DEFINE number == SeqNum(s.iSrpCommandSave.pkt)
    <2>1. PICK i : /\ IsFirst(i, Running(s.iActiveWnsrpCommandSave, number))
                   /\ Srp_1_3(s, "RESPONSE", seq)
                        = SendNext([Taken(s, i, number) EXCEPT !.iSrpCommandSave = NoTimer])
        BY <1>2, ResponseIs DEF Good
    <2>2. Answers(F, s, SendNext([Taken(s, i, number) EXCEPT !.iSrpCommandSave = NoTimer]))
        BY <1>2, <2>1, TakenThenNext
    <2> QED
        BY <2>1, <2>2
<1> QED
    BY <1>1, <1>2
-----------------------------------------------------------------------------
(* New packets, and commands that are sent again.                          *)

(* The queue of a terminal after UpperLayerRx cut a PDU into k packets.    *)
Enqueued(s, k) == [s EXCEPT !.sent = @ + k,
                            !.iSrpWaitQueue = @ \o [i \in 1..k |-> s.sent + i]]

Appended(s, r, k) ==
    LET q == s.iSrpWaitQueue
    IN  /\ r.iStatus = s.iStatus /\ r.iCurWnsrpStatus = s.iCurWnsrpStatus
        /\ r.iSrpCommandSave = s.iSrpCommandSave
        /\ r.iActiveWnsrpCommandSave = s.iActiveWnsrpCommandSave
        /\ Len(r.iSrpWaitQueue) = Len(q) + k
        /\ \A i \in 1..Len(q) : r.iSrpWaitQueue[i] = q[i]
        /\ \A i \in 1..k : r.iSrpWaitQueue[Len(q) + i] = s.sent + i

LEMMA EnqueuedTyped ==
    ASSUME NEW s, IsTerminal(s), First(s), NEW k \in Nat \ {0}
    PROVE  LET r == Enqueued(s, k)
           IN  /\ IsTerminal(r) /\ First(r) /\ r.out = s.out
               /\ SameReceiver(s, r) /\ r.sent = s.sent + k
               /\ r.iSrpWaitQueue # <<>>
               /\ ToSet(s.iSrpWaitQueue) \subseteq ToSet(r.iSrpWaitQueue)
               /\ (s.sent + 1)..(s.sent + k) \subseteq ToSet(r.iSrpWaitQueue)
               /\ s.iSrpWaitQueue # <<>> => r.iSrpWaitQueue[1] = s.iSrpWaitQueue[1]
               /\ s.iSrpWaitQueue = <<>> => r.iSrpWaitQueue[1] = s.sent + 1
               /\ Appended(s, r, k)
<1> DEFINE q == s.iSrpWaitQueue
           n == [i \in 1..k |-> s.sent + i]
           u == q \o n
           r == Enqueued(s, k)
<1>1. /\ q \in Seq(1..s.sent) /\ s.sent \in Nat /\ Len(q) \in Nat
      /\ q = <<>> <=> Len(q) = 0
    BY QueueTyped DEF IsTerminal
<1>2. q \in Seq(1..(s.sent + k))
    BY <1>1, SeqMonotonic
<1>3. n \in Seq(1..(s.sent + k)) /\ Len(n) = k
    <2>1. n \in [1..k -> 1..(s.sent + k)]
        BY <1>1
    <2> QED
        BY <2>1
<1>4. \A i \in 1..k : n[i] = s.sent + i
    OBVIOUS
<1> HIDE DEF n, q
<1>5. /\ u \in Seq(1..(s.sent + k)) /\ Len(u) = Len(q) + k
      /\ \A i \in 1..(Len(q) + k) : u[i] = IF i <= Len(q) THEN q[i] ELSE n[i - Len(q)]
    BY <1>2, <1>3, ConcatProperties
<1>6. \A i \in 1..Len(q) : u[i] = q[i] /\ i \in 1..Len(u)
    BY <1>1, <1>5
<1>7. \A i \in 1..k : Len(q) + i \in 1..Len(u) /\ u[Len(q) + i] = s.sent + i
    <2> TAKE i \in 1..k
    <2>1. /\ Len(q) + i \in 1..(Len(q) + k) /\ ~(Len(q) + i <= Len(q))
          /\ (Len(q) + i) - Len(q) = i
        BY <1>1
    <2>2. u[Len(q) + i] = n[i]
        BY <1>5, <2>1
    <2> HIDE DEF u
    <2> QED
        BY <1>4, <1>5, <2>1, <2>2
<1> HIDE DEF u
<1>8. r = [s EXCEPT !.sent = s.sent + k, !.iSrpWaitQueue = u]
    BY DEF Enqueued, u, q, n
<1> HIDE DEF r
<1>9. /\ r.sent = s.sent + k /\ r.iSrpWaitQueue = u /\ r.out = s.out
      /\ r.iActiveWnsrpCommandSave = s.iActiveWnsrpCommandSave
      /\ r.iSrpCommandSave = s.iSrpCommandSave /\ r.iCurWnsrpStatus = s.iCurWnsrpStatus
      /\ SameReceiver(s, r) /\ r.iStatus = s.iStatus
    BY <1>8 DEF IsTerminal, SrpStart, SameReceiver
<1>10. IsTerminal(r)
    <2>1. r.sent \in Nat /\ r.iSrpWaitQueue \in Seq(1..r.sent)
        BY <1>1, <1>5, <1>9
    <2> QED
        BY <1>8, <2>1 DEF IsTerminal, SrpStart
<1>11. First(r)
    <2>1. u # <<>>
        BY <1>1, <1>5
    <2>2. /\ Len(s.iActiveWnsrpCommandSave) <= Len(q) /\ Len(s.iActiveWnsrpCommandSave) <= TxWindow
          /\ \A i \in 1..Len(s.iActiveWnsrpCommandSave) : s.iActiveWnsrpCommandSave[i].pkt = q[i]
          /\ s.iSrpCommandSave # NoTimer => q # <<>> /\ s.iSrpCommandSave.pkt = q[1]
          /\ s.iCurWnsrpStatus = "NO_SUPPORT" => s.iActiveWnsrpCommandSave = <<>>
          /\ s.iCurWnsrpStatus = "FULL_SUPPORT" => s.iSrpCommandSave = NoTimer
        BY DEF First, q
    <2>3. Len(s.iActiveWnsrpCommandSave) \in Nat
        <3>1. s.iActiveWnsrpCommandSave \in Seq(Timers)
            BY DEF IsTerminal
        <3> QED
            BY <3>1
    <2>4. q # <<>> => u[1] = q[1]
        BY <1>1, <1>6
    <2>5. \A i \in 1..Len(s.iActiveWnsrpCommandSave) : i \in 1..Len(q)
        BY <1>1, <2>2, <2>3
    <2>6. Len(s.iActiveWnsrpCommandSave) <= Len(u)
        BY <1>1, <1>5, <2>2, <2>3
    <2> QED
        BY <1>6, <1>9, <2>1, <2>2, <2>4, <2>5, <2>6 DEF First
<1>12. ToSet(q) \subseteq ToSet(u)
    <2>1. \A m : m \in ToSet(q) => \E i \in 1..Len(q) : m = q[i]
        BY <1>1, ToSetOf
    <2>2. \A i \in 1..Len(u) : u[i] \in ToSet(u)
        BY <1>5, ToSetOf
    <2> QED
        BY <1>6, <2>1, <2>2
<1>13. (s.sent + 1)..(s.sent + k) \subseteq ToSet(u)
    <2> SUFFICES ASSUME NEW m \in (s.sent + 1)..(s.sent + k)
                 PROVE  m \in ToSet(u)
        OBVIOUS
    <2>1. m - s.sent \in 1..k /\ s.sent + (m - s.sent) = m
        BY <1>1
    <2>2. Len(q) + (m - s.sent) \in 1..Len(u) /\ u[Len(q) + (m - s.sent)] = m
        BY <1>7, <2>1
    <2> QED
        BY <1>5, <2>2, ToSetOf
<1>14. /\ u # <<>>
       /\ q # <<>> => u[1] = q[1]
       /\ q = <<>> => u[1] = s.sent + 1
    <2>1. q # <<>> => 1 \in 1..Len(q)
        BY <1>1
    <2>2. q = <<>> => Len(q) + 1 = 1
        BY <1>1
    <2>3. 1 \in 1..k
        OBVIOUS
    <2>4. u[Len(q) + 1] = s.sent + 1
        BY <1>7, <2>3
    <2> QED
        BY <1>1, <1>5, <1>6, <2>1, <2>2, <2>4
<1>15. Appended(s, r, k)
    BY <1>5, <1>6, <1>7, <1>9 DEF Appended, q
<1> QED
    BY <1>9, <1>10, <1>11, <1>12, <1>13, <1>14, <1>15 DEF q, r

(* A command that is sent again, and its timer.                            *)
SameTimers(s, r) ==
    /\ r.iStatus = s.iStatus /\ r.iCurWnsrpStatus = s.iCurWnsrpStatus
    /\ r.iSrpCommandSave = NoTimer <=> s.iSrpCommandSave = NoTimer
    /\ Len(r.iActiveWnsrpCommandSave) = Len(s.iActiveWnsrpCommandSave)

LEMMA SrpAgainSends ==
    ASSUME NEW F, NEW s, Good(F, s), s.iSrpCommandSave # NoTimer
    PROVE  LET c == <<Command("SRP_COMMAND", s.iSrpCommandSave.pkt)>>
               r == [LowerLayerTx(s, c) EXCEPT !.iSrpCommandSave.N400Counter = @ + 1]
           IN  Sends(F, s, r) /\ SameTimers(s, r)
<1> DEFINE n == s.iSrpCommandSave
           c == <<Command("SRP_COMMAND", n.pkt)>>
           l == LowerLayerTx(s, c)
           m == [n EXCEPT !.N400Counter = @ + 1]
           r == [l EXCEPT !.iSrpCommandSave.N400Counter = @ + 1]
<1>1. /\ n \in Timers /\ s.iSrpWaitQueue # <<>> /\ n.pkt = s.iSrpWaitQueue[1]
      /\ s.iCurWnsrpStatus # "FULL_SUPPORT"
    BY DEF Good, First, IsTerminal
<1>2. c \in Seq(F) /\ c \in Seq(Frames)
    BY <1>1 DEF Good, Offers, Frames, Commands, Command, Timers
<1>3. m \in Timers /\ m.pkt = n.pkt /\ m # NoTimer
    BY <1>1 DEF Timers, NoTimer, Timer
<1> HIDE DEF c, m
<1>4. IsTerminal(l) /\ l.out \in Seq(F)
    BY <1>2, OutTyped DEF Good
<1>5. l = [s EXCEPT !.out = s.out \o c]
    BY DEF LowerLayerTx
<1>6. r = [s EXCEPT !.out = s.out \o c, !.iSrpCommandSave = m]
    BY <1>5 DEF m, Good, IsTerminal, SrpStart
<1> HIDE DEF l, n
<1>7. /\ r.iSrpWaitQueue = s.iSrpWaitQueue /\ r.iCurWnsrpStatus = s.iCurWnsrpStatus
      /\ r.iActiveWnsrpCommandSave = s.iActiveWnsrpCommandSave
      /\ r.iSrpCommandSave = m /\ r.sent = s.sent /\ SameReceiver(s, r) /\ r.out = l.out
      /\ r.iStatus = s.iStatus
    BY <1>5, <1>6 DEF SameReceiver, Good, IsTerminal, SrpStart
<1>8. IsTerminal(r)
    <2>1. r.out \in Seq(Frames)
        BY <1>4, <1>7 DEF IsTerminal
    <2> QED
        BY <1>3, <1>6, <2>1 DEF Good, IsTerminal, SrpStart
<1> HIDE DEF r
<1>9. First(r) /\ Offers(F, r)
    BY <1>1, <1>3, <1>7 DEF First, Offers, Good, n
<1>10. Sends(F, s, r)
    BY <1>4, <1>7, <1>8, <1>9 DEF Sends, Good
<1>11. SameTimers(s, r)
    BY <1>3, <1>7 DEF SameTimers
<1> QED
    BY <1>10, <1>11 DEF r, l, c, n

LEMMA WnsrpAgainSends ==
    ASSUME NEW F, NEW s, Good(F, s), NEW i \in DOMAIN s.iActiveWnsrpCommandSave
    PROVE  LET c == <<Command("WNSRP_COMMAND", s.iActiveWnsrpCommandSave[i].pkt)>>
               r == [LowerLayerTx(s, c)
                        EXCEPT !.iActiveWnsrpCommandSave[i].N400Counter = @ + 1]
           IN  Sends(F, s, r) /\ SameTimers(s, r)
<1> DEFINE a == s.iActiveWnsrpCommandSave
           c == <<Command("WNSRP_COMMAND", a[i].pkt)>>
           l == LowerLayerTx(s, c)
           b == [a EXCEPT ![i].N400Counter = @ + 1]
           r == [l EXCEPT !.iActiveWnsrpCommandSave[i].N400Counter = @ + 1]
<1>1. /\ a \in Seq(Timers) /\ i \in 1..Len(a) /\ Len(a) \in Nat
      /\ i \in 1..Len(s.iSrpWaitQueue) /\ a[i].pkt = s.iSrpWaitQueue[i]
    <2>1. a \in Seq(Timers) /\ Len(a) <= Len(s.iSrpWaitQueue)
        BY DEF Good, First, IsTerminal
    <2>2. i \in 1..Len(a) /\ Len(a) \in Nat
        BY <2>1
    <2>3. Len(s.iSrpWaitQueue) \in Nat
        BY QueueTyped DEF Good
    <2> QED
        BY <2>1, <2>2, <2>3 DEF Good, First
<1>2. c \in Seq(F) /\ c \in Seq(Frames)
    <2>1. Command("WNSRP_COMMAND", a[i].pkt) \in F
        BY <1>1 DEF Good, Offers
    <2>2. a[i] \in Timers
        BY <1>1
    <2>3. Command("WNSRP_COMMAND", a[i].pkt) \in Frames
        BY <2>2 DEF Frames, Commands, Command, Timers
    <2> QED
        BY <2>1, <2>3
<1>3. /\ b \in Seq(Timers) /\ Len(b) = Len(a)
      /\ \A j \in 1..Len(a) : b[j].pkt = a[j].pkt
    <2> DEFINE m == [a[i] EXCEPT !.N400Counter = @ + 1]
    <2>1. a[i] \in Timers
        BY <1>1
    <2>2. m \in Timers /\ m.pkt = a[i].pkt
        BY <2>1 DEF Timers
    <2>3. b = [a EXCEPT ![i] = m]
        OBVIOUS
    <2> HIDE DEF m, a
    <2>4. DOMAIN a = 1..Len(a) /\ \A j \in 1..Len(a) : a[j] \in Timers
        BY <1>1
    <2> DEFINE e == [a EXCEPT ![i] = m]
    <2>5. /\ DOMAIN e = 1..Len(a) /\ e = [j \in 1..Len(a) |-> e[j]]
          /\ \A j \in 1..Len(a) : e[j] = IF j = i THEN m ELSE a[j]
        BY <2>4
    <2>6. \A j \in 1..Len(a) : e[j] \in Timers
        BY <2>2, <2>4, <2>5
    <2> HIDE DEF e
    <2>7. e \in Seq(Timers)
        BY <1>1, <2>5, <2>6
    <2>8. Len(e) = Len(a)
        BY <1>1, <2>5, <2>7
    <2>9. b = e
        BY <2>3 DEF e
    <2> HIDE DEF b
    <2> QED
        BY <2>2, <2>5, <2>7, <2>8, <2>9
<1> HIDE DEF c, b
<1>4. IsTerminal(l) /\ l.out \in Seq(F)
    BY <1>2, OutTyped DEF Good
<1>5. l = [s EXCEPT !.out = s.out \o c]
    BY DEF LowerLayerTx
<1>6. r = [s EXCEPT !.out = s.out \o c, !.iActiveWnsrpCommandSave = b]
    BY <1>5 DEF b, Good, IsTerminal, SrpStart
<1> HIDE DEF l
<1>7. /\ r.iSrpWaitQueue = s.iSrpWaitQueue /\ r.iCurWnsrpStatus = s.iCurWnsrpStatus
      /\ r.iActiveWnsrpCommandSave = b
      /\ r.iSrpCommandSave = s.iSrpCommandSave /\ r.sent = s.sent /\ SameReceiver(s, r)
      /\ r.out = l.out /\ r.iStatus = s.iStatus
    BY <1>5, <1>6 DEF SameReceiver, Good, IsTerminal, SrpStart
<1>8. IsTerminal(r)
    <2>1. r.out \in Seq(Frames)
        BY <1>4, <1>7 DEF IsTerminal
    <2> QED
        BY <1>3, <1>6, <2>1 DEF Good, IsTerminal, SrpStart
<1> HIDE DEF r
<1>9. s.iCurWnsrpStatus # "NO_SUPPORT"
    <2>1. a # <<>>
        BY <1>1
    <2> QED
        BY <2>1 DEF Good, First
<1>10. First(r) /\ Offers(F, r)
    BY <1>3, <1>7, <1>9 DEF First, Offers, Good
<1>11. Sends(F, s, r)
    BY <1>4, <1>7, <1>8, <1>10 DEF Sends, Good
<1>12. SameTimers(s, r)
    BY <1>3, <1>7 DEF SameTimers
<1> QED
    BY <1>11, <1>12 DEF r, l, c
-----------------------------------------------------------------------------
(* Receiving.                                                              *)

SameSender(s, r) ==
    /\ r.sent = s.sent /\ r.iSrpWaitQueue = s.iSrpWaitQueue
    /\ r.iActiveWnsrpCommandSave = s.iActiveWnsrpCommandSave
    /\ r.iSrpCommandSave = s.iSrpCommandSave /\ r.iCurWnsrpStatus = s.iCurWnsrpStatus
    /\ r.iUseNSRP = s.iUseNSRP /\ r.failed = s.failed /\ r.iStatus = s.iStatus

LEMMA InSequenceFinds ==
    ASSUME NEW s, NEW list \in Seq(Nat \ {0})
    PROVE  LET k == InSequence(s, list)
           IN  /\ k \in 0..Len(list)
               /\ \A i \in 1..k : SeqNum(list[i]) = (s.iRecvSeqNumber + i - 1) % SeqModulus
<1> DEFINE next(k) == \A i \in 1..k : SeqNum(list[i]) = (s.iRecvSeqNumber + i - 1) % SeqModulus
           Ends(k) == k = Len(list) \/ ~next(k + 1)
           T == {k \in 0..Len(list) : Ends(k)}
<1>1. Len(list) \in Nat /\ T \subseteq Nat /\ Len(list) \in T
    OBVIOUS
<1>2. PICK m \in T : \A k \in T : m <= k
    BY <1>1, Least
<1>3. m \in 0..Len(list) /\ Ends(m) /\ \A k \in 0..Len(list) : Ends(k) => m <= k
    BY <1>2
<1>4. next(m)
    <2>1. CASE m = 0
        BY <2>1
    <2>2. CASE m # 0
        <3>1. m - 1 \in 0..Len(list) /\ ~(m <= m - 1) /\ m - 1 # Len(list) /\ (m - 1) + 1 = m
            BY <1>1, <1>3, <2>2
        <3>2. ~Ends(m - 1)
            BY <1>3, <3>1
        <3> HIDE DEF next
        <3> QED
            BY <3>1, <3>2
    <2> QED
        BY <2>1, <2>2
<1> HIDE DEF next
<1>5. \E k \in 0..Len(list) : next(k) /\ (k = Len(list) \/ ~next(k + 1))
    BY <1>3, <1>4
<1>6. InSequence(s, list)
        = CHOOSE k \in 0..Len(list) : next(k) /\ (k = Len(list) \/ ~next(k + 1))
    BY DEF InSequence, next
<1>7. InSequence(s, list) \in 0..Len(list) /\ next(InSequence(s, list))
    BY <1>5, <1>6
<1> QED
    BY <1>7 DEF next

LEMMA DeliverInSequenceTyped ==
    ASSUME NEW s, IsTerminal(s)
    PROVE  LET r == DeliverInSequence(s)
           IN  /\ IsTerminal(r) /\ SameSender(s, r)
               /\ r.out = s.out /\ r.iFirstCmd = s.iFirstCmd
<1> DEFINE list == s.iPendingRxFragList
           k == InSequence(s, list)
           p == SubSeq(list, 1, k)
           l == SubSeq(list, k + 1, Len(list))
           d == s.delivered \o p
           r == DeliverInSequence(s)
<1>1. list \in Seq(Nat \ {0}) /\ s.delivered \in Seq(Nat \ {0})
    BY DEF IsTerminal
<1>2. k \in 0..Len(list) /\ Len(list) \in Nat
    BY <1>1, InSequenceFinds
<1> HIDE DEF k, list
<1>3. p \in Seq(Nat \ {0}) /\ l \in Seq(Nat \ {0})
    BY <1>1, <1>2, SubSeqProperties
<1>4. d \in Seq(Nat \ {0})
    BY <1>1, <1>3, ConcatProperties
<1>5. /\ (s.iRecvSeqNumber + k) % SeqModulus \in 0..(SeqModulus - 1)
      /\ (s.iOldestWNSRPRetransSeqNum + k) % SeqModulus \in 0..(SeqModulus - 1)
    <2>1. /\ s.iRecvSeqNumber \in 0..(SeqModulus - 1) /\ SeqModulus \in Nat
          /\ s.iOldestWNSRPRetransSeqNum \in 0..(SeqModulus - 1)
        BY ConstantsTyped DEF IsTerminal
    <2>2. s.iRecvSeqNumber + k \in Int /\ s.iOldestWNSRPRetransSeqNum + k \in Int
        BY <1>2, <2>1
    <2> QED
        BY <2>2, Modulo
<1>6. r = [s EXCEPT !.delivered = d, !.iPendingRxFragList = l,
                    !.iRecvSeqNumber = (@ + k) % SeqModulus,
                    !.iOldestWNSRPRetransSeqNum = (@ + k) % SeqModulus]
    BY DEF DeliverInSequence, Deliver, list, k
<1> HIDE DEF d, l, r
<1>7. IsTerminal(r)
    BY <1>3, <1>4, <1>5, <1>6 DEF IsTerminal, SrpStart
<1>8. SameSender(s, r) /\ r.out = s.out /\ r.iFirstCmd = s.iFirstCmd
    BY <1>6 DEF SameSender, IsTerminal, SrpStart
<1> QED
    BY <1>7, <1>8 DEF r

(* The packets 1 to N of the peer are received without aliases: N is       *)
(* smaller than the modulus.                                               *)
Lag == (SeqModulus - RxWindow) \div 2

Ordered(s, N) ==
    LET D == Len(s.delivered)
    IN  /\ D <= N /\ \A i \in 1..D : s.delivered[i] = i
        /\ s.iPendingRxFragList \in Seq(1..N)
        /\ s.iRecvSeqNumber = D
        /\ s.iOldestWNSRPRetransSeqNum = IF D >= Lag THEN D - Lag ELSE D - Lag + SeqModulus
        /\ s.iFirstCmd => D = 0 /\ s.iPendingRxFragList = <<>>

Received(s) == ToSet(s.delivered) \cup ToSet(s.iPendingRxFragList)

LEMMA LagTyped == Lag \in Nat /\ 2 * Lag <= SeqModulus /\ Lag < SeqModulus
                  /\ (Lag = 0 => RxWindow = SeqModulus - 1)
<1>1. SeqModulus - RxWindow \in Nat /\ SeqModulus - RxWindow >= 1
    BY ConstantsTyped
<1>2. \A n \in Nat : n \div 2 \in Nat /\ 2 * (n \div 2) <= n /\ n < 2 * (n \div 2) + 2
    OBVIOUS
<1>3. Lag \in Nat /\ 2 * Lag <= SeqModulus - RxWindow /\ SeqModulus - RxWindow < 2 * Lag + 2
    BY <1>1, <1>2 DEF Lag
<1> QED
    BY <1>3, ConstantsTyped

LEMMA ModuloTwice ==
    ASSUME NEW i \in 0..(2 * SeqModulus - 1)
    PROVE  i % SeqModulus = IF i < SeqModulus THEN i ELSE i - SeqModulus
<1>1. CASE i < SeqModulus
    BY <1>1, Modulo, ConstantsTyped
<1>2. CASE i >= SeqModulus
    BY <1>2, ConstantsTyped
<1> QED
    BY <1>1, <1>2, ConstantsTyped

LEMMA DeliverInSequenceOrdered ==
    ASSUME NEW s, IsTerminal(s), ~s.iFirstCmd, NEW N \in Nat, N < SeqModulus, Ordered(s, N)
    PROVE  LET r == DeliverInSequence(s)
           IN  Ordered(r, N) /\ Received(s) \subseteq Received(r)
<1> DEFINE list == s.iPendingRxFragList
           D == Len(s.delivered)
           k == InSequence(s, list)
           p == SubSeq(list, 1, k)
           l == SubSeq(list, k + 1, Len(list))
           d == s.delivered \o p
           r == DeliverInSequence(s)
<1>1. /\ list \in Seq(1..N) /\ list \in Seq(Nat \ {0}) /\ s.delivered \in Seq(Nat \ {0})
      /\ D \in Nat /\ D <= N /\ s.iRecvSeqNumber = D /\ SeqModulus \in Nat
      /\ Len(list) \in Nat
    <2>1. list \in Seq(1..N) /\ s.iRecvSeqNumber = D /\ D <= N
        BY DEF Ordered
    <2>2. list \in Seq(Nat \ {0}) /\ s.delivered \in Seq(Nat \ {0})
        BY DEF IsTerminal
    <2> QED
        BY <2>1, <2>2, ConstantsTyped
<1>2. /\ k \in 0..Len(list)
      /\ \A i \in 1..k : SeqNum(list[i]) = (D + i - 1) % SeqModulus
    BY <1>1, InSequenceFinds
<1> HIDE DEF k, list
<1>3. \A i \in 1..k : list[i] \in 1..N /\ SeqNum(list[i]) = list[i] - 1
    <2>1. \A i \in 1..k : list[i] \in 1..N
        BY <1>1, <1>2
    <2>2. \A n \in 1..N : n \in 1..SeqModulus
        BY <1>1
    <2> QED
        BY <2>1, <2>2, SeqNumTyped
<1>4. D + k <= N
    <2> SUFFICES ASSUME D + k > N PROVE FALSE
        BY <1>1, <1>2
    <2> DEFINE i == N - D + 1
    <2>1. i \in 1..k /\ D + i - 1 = N /\ N \in 0..(SeqModulus - 1)
        BY <1>1, <1>2
    <2>2. N % SeqModulus = N
        BY <2>1, Modulo
    <2>3. list[i] \in 1..N /\ list[i] - 1 = (D + i - 1) % SeqModulus
        BY <1>2, <1>3, <2>1
    <2>4. list[i] - 1 = N
        BY <2>1, <2>2, <2>3
    <2> HIDE DEF i
    <2> QED
        BY <2>3, <2>4
<1>5. \A i \in 1..k : list[i] = D + i
    <2> TAKE i \in 1..k
    <2>1. D + i - 1 \in 0..(SeqModulus - 1)
        BY <1>1, <1>2, <1>4
    <2>2. (D + i - 1) % SeqModulus = D + i - 1
        BY <2>1, Modulo
    <2>3. list[i] - 1 = D + i - 1 /\ list[i] \in 1..N
        BY <1>2, <1>3, <2>2
    <2>4. i \in Int /\ D \in Int /\ list[i] \in Int
        BY <1>1, <1>2, <2>3
    <2> QED
        BY <2>3, <2>4
<1>6. /\ p \in Seq(Nat \ {0}) /\ Len(p) = k /\ \A i \in 1..k : p[i] = D + i
    <2>1. /\ p \in Seq(Nat \ {0}) /\ Len(p) = k /\ \A i \in 1..k : p[i] = list[i]
        BY <1>1, <1>2, SubSeqProperties
    <2> QED
        BY <1>5, <2>1
<1>7. /\ l \in Seq(1..N) /\ Len(l) = Len(list) - k
      /\ \A i \in 1..(Len(list) - k) : l[i] = list[k + i]
    BY <1>1, <1>2, PartTyped
<1> HIDE DEF p, l, D
<1>8. /\ d \in Seq(Nat \ {0}) /\ Len(d) = D + k
      /\ \A i \in 1..(D + k) : d[i] = IF i <= D THEN s.delivered[i] ELSE p[i - D]
    <2>1. s.delivered \in Seq(Nat \ {0}) /\ Len(s.delivered) = D /\ D \in Nat
        BY <1>1 DEF D
    <2>2. /\ d \in Seq(Nat \ {0}) /\ Len(d) = Len(s.delivered) + Len(p)
          /\ \A i \in 1..(Len(s.delivered) + Len(p)) :
                 d[i] = IF i <= Len(s.delivered) THEN s.delivered[i]
                        ELSE p[i - Len(s.delivered)]
        BY <1>6, <2>1, ConcatProperties
    <2> HIDE DEF d
    <2>3. Len(s.delivered) + Len(p) = D + k
        BY <1>6, <2>1
    <2> QED
        BY <2>1, <2>2, <2>3
<1> HIDE DEF d
<1>9. \A i \in 1..(D + k) : d[i] = i
    <2> TAKE i \in 1..(D + k)
    <2>1. CASE i <= D
        <3>1. i \in 1..D
            BY <1>1, <2>1
        <3>2. s.delivered[i] = i
            BY <3>1 DEF Ordered, D
        <3> QED
            BY <1>8, <2>1, <3>2
    <2>2. CASE i > D
        <3>1. i - D \in 1..k /\ D + (i - D) = i
            BY <1>1, <1>2, <2>2
        <3>2. d[i] = p[i - D]
            BY <1>1, <1>8, <2>2
        <3> QED
            BY <1>6, <3>1, <3>2
    <2> QED
        BY <1>1, <2>1, <2>2
<1>10. r = [s EXCEPT !.delivered = d, !.iPendingRxFragList = l,
                     !.iRecvSeqNumber = (@ + k) % SeqModulus,
                     !.iOldestWNSRPRetransSeqNum = (@ + k) % SeqModulus]
    BY DEF DeliverInSequence, Deliver, list, k, d, l, p
<1> HIDE DEF r
<1>11. /\ r.delivered = d /\ r.iPendingRxFragList = l /\ r.iFirstCmd = s.iFirstCmd
       /\ r.iRecvSeqNumber = (D + k) % SeqModulus
       /\ r.iOldestWNSRPRetransSeqNum = (s.iOldestWNSRPRetransSeqNum + k) % SeqModulus
    BY <1>1, <1>10 DEF IsTerminal, SrpStart
<1>13. r.iRecvSeqNumber = D + k
    <2>1. D + k \in 0..(SeqModulus - 1)
        BY <1>1, <1>2, <1>4
    <2> QED
        BY <1>11, <2>1, Modulo
<1>14. r.iOldestWNSRPRetransSeqNum
            = IF D + k >= Lag THEN D + k - Lag ELSE D + k - Lag + SeqModulus
    <2> DEFINE o == s.iOldestWNSRPRetransSeqNum
    <2>1. o = IF D >= Lag THEN D - Lag ELSE D - Lag + SeqModulus
        BY DEF Ordered, D
    <2>2. o + k \in 0..(2 * SeqModulus - 1)
        <3>1. o \in 0..(SeqModulus - 1)
            BY DEF IsTerminal
        <3>2. k \in 0..(SeqModulus - 1)
            BY <1>1, <1>2, <1>4
        <3> HIDE DEF o
        <3> QED
            BY <1>1, <3>1, <3>2
    <2> HIDE DEF o
    <2> DEFINE w == o + k
    <2> HIDE DEF w
    <2>3. w % SeqModulus = IF w < SeqModulus THEN w ELSE w - SeqModulus
        BY <2>2, ModuloTwice DEF w
    <2>4. r.iOldestWNSRPRetransSeqNum = (o + k) % SeqModulus
        BY <1>11 DEF o
    <2> QED
        BY <1>1, <1>2, <1>4, <2>1, <2>3, <2>4, LagTyped DEF w
<1>15. Ordered(r, N)
    <2>1. Len(r.delivered) = D + k /\ \A i \in 1..(D + k) : r.delivered[i] = i
        BY <1>8, <1>9, <1>11
    <2>2. r.iPendingRxFragList \in Seq(1..N) /\ ~r.iFirstCmd
        BY <1>7, <1>11
    <2> HIDE DEF D
    <2> DEFINE E == Len(r.delivered)
    <2>3. E <= N /\ \A i \in 1..E : r.delivered[i] = i
        BY <1>4, <2>1
    <2>4. r.iRecvSeqNumber = E
        BY <1>13, <2>1
    <2>5. r.iOldestWNSRPRetransSeqNum = IF E >= Lag THEN E - Lag ELSE E - Lag + SeqModulus
        <3>1. D \in Nat /\ k \in Nat /\ Lag \in Nat /\ SeqModulus \in Nat
            BY <1>1, <1>2, LagTyped
        <3>2. Len(r.delivered) = D + k
            BY <2>1
        <3> HIDE DEF E
        <3>3. E = D + k
            BY <3>2 DEF E
        <3> QED
            BY <1>14, <3>1, <3>3
    <2> QED
        BY <2>2, <2>3, <2>4, <2>5 DEF Ordered
<1>16. ToSet(s.delivered) \subseteq ToSet(d)
    <2> SUFFICES ASSUME NEW i \in 1..D
                 PROVE  s.delivered[i] \in ToSet(d)
        <3>1. \A n : n \in ToSet(s.delivered) => \E i \in 1..D : n = s.delivered[i]
            BY <1>1, ToSetOf DEF D
        <3> QED
            BY <3>1
    <2>1. i \in 1..(D + k) /\ s.delivered[i] = d[i]
        BY <1>1, <1>2, <1>8
    <2> QED
        BY <1>8, <2>1, ToSetOf
<1>17. ToSet(list) \subseteq ToSet(d) \cup ToSet(l)
    <2> SUFFICES ASSUME NEW i \in 1..Len(list)
                 PROVE  list[i] \in ToSet(d) \cup ToSet(l)
        BY <1>1, ToSetOf
    <2>1. CASE i <= k
        <3>1. D + i \in 1..(D + k) /\ list[i] = D + i
            BY <1>1, <1>2, <1>5, <2>1
        <3>2. d[D + i] = list[i]
            BY <1>9, <3>1
        <3> QED
            BY <1>8, <3>1, <3>2, ToSetOf
    <2>2. CASE i > k
        <3>1. i - k \in 1..(Len(list) - k) /\ k + (i - k) = i
            BY <1>1, <1>2, <2>2
        <3>2. l[i - k] = list[i]
            BY <1>7, <3>1
        <3> QED
            BY <1>7, <3>1, <3>2, ToSetOf
    <2> QED
        BY <1>1, <1>2, <2>1, <2>2
<1>18. Received(s) \subseteq Received(r)
    BY <1>11, <1>16, <1>17 DEF Received, list
<1> QED
    BY <1>15, <1>18 DEF r

(* Srp_0_2: the first command says where the peer begins.                  *)
Begun(s, event, n) ==
    IF ~s.iFirstCmd THEN s
    ELSE [s EXCEPT !.iFirstCmd = FALSE,
                   !.iRecvSeqNumber = IF event = "WNSRP_COMMAND" THEN 0 ELSE SeqNum(n)]

Header(s, event) == IF event = "WNSRP_COMMAND" THEN "WNSRP_RESPONSE"
                    ELSE IF s.iUseNSRP THEN "NSRP_RESPONSE" ELSE "SRP_RESPONSE"

Answered(s, event, n) == LowerLayerTx(Begun(s, event, n), SrpResponse(Header(s, event), SeqNum(n)))

LEMMA Srp_0_2Is ==
    ASSUME NEW s, NEW event, NEW n
    PROVE  LET c == Begun(s, event, n)
               h == Header(s, event)
               a == Answered(s, event, n)
           IN  Srp_0_2(s, event, n)
                = IF Accepts(c, h, SeqNum(n)) THEN SrpMsgCopy(c, a, n)
                  ELSE IF RespondsAgain(c, h, SeqNum(n)) THEN a ELSE c
BY DEF Srp_0_2, Begun, Header, Answered

LEMMA BegunTyped ==
    ASSUME NEW s, IsTerminal(s), NEW event, NEW n \in Nat \ {0}
    PROVE  LET c == Begun(s, event, n)
           IN  /\ IsTerminal(c) /\ SameSender(s, c) /\ ~c.iFirstCmd /\ c.out = s.out
               /\ c.delivered = s.delivered /\ c.iPendingRxFragList = s.iPendingRxFragList
               /\ c.iOldestWNSRPRetransSeqNum = s.iOldestWNSRPRetransSeqNum
               /\ c.iRecvSeqNumber = IF ~s.iFirstCmd THEN s.iRecvSeqNumber
                                     ELSE IF event = "WNSRP_COMMAND" THEN 0 ELSE SeqNum(n)
<1> DEFINE c == Begun(s, event, n)
           v == IF event = "WNSRP_COMMAND" THEN 0 ELSE SeqNum(n)
<1>1. v \in 0..(SeqModulus - 1)
    BY SeqNumTyped, ConstantsTyped
<1> HIDE DEF v
<1>2. CASE ~s.iFirstCmd
    BY <1>2 DEF Begun, SameSender
<1>3. CASE s.iFirstCmd
    <2>1. c = [s EXCEPT !.iFirstCmd = FALSE, !.iRecvSeqNumber = v]
        BY <1>3 DEF Begun, v
    <2> HIDE DEF c
    <2>2. IsTerminal(c)
        BY <1>1, <2>1 DEF IsTerminal, SrpStart
    <2>3. /\ SameSender(s, c) /\ ~c.iFirstCmd /\ c.out = s.out
          /\ c.delivered = s.delivered /\ c.iPendingRxFragList = s.iPendingRxFragList
          /\ c.iOldestWNSRPRetransSeqNum = s.iOldestWNSRPRetransSeqNum
          /\ c.iRecvSeqNumber = v
        BY <2>1 DEF IsTerminal, SrpStart, SameSender
    <2> QED
        BY <1>3, <2>2, <2>3 DEF c, v
<1> QED
    BY <1>2, <1>3

SameReception(s, r) ==
    /\ r.iFirstCmd = s.iFirstCmd /\ r.iRecvSeqNumber = s.iRecvSeqNumber
    /\ r.delivered = s.delivered /\ r.iPendingRxFragList = s.iPendingRxFragList
    /\ r.iOldestWNSRPRetransSeqNum = s.iOldestWNSRPRetransSeqNum

SameWhenReceived(s, r) == /\ r.iFirstCmd = s.iFirstCmd /\ r.iRecvSeqNumber = s.iRecvSeqNumber
                          /\ r.delivered = s.delivered
                          /\ r.iOldestWNSRPRetransSeqNum = s.iOldestWNSRPRetransSeqNum

LEMMA ResponseTyped ==
    ASSUME NEW s, NEW event, NEW n \in Nat \ {0}, s.iUseNSRP \in BOOLEAN
    PROVE  SrpResponse(Header(s, event), SeqNum(n)) \in Seq(Frames)
<1> DEFINE h == Header(s, event)
<1>1. SeqNum(n) \in 0..(SeqModulus - 1)
    BY SeqNumTyped
<1>2. h \in {"SRP_RESPONSE", "NSRP_RESPONSE", "WNSRP_RESPONSE"}
    BY DEF Header
<1> HIDE DEF h
<1>3. CASE h = "SRP_RESPONSE"
    <2>1. [kind |-> h] \in Frames
        BY <1>3 DEF Frames
    <2>2. SrpResponse(h, SeqNum(n)) = <<[kind |-> h]>>
        BY <1>3 DEF SrpResponse
    <2> QED
        BY <2>1, <2>2 DEF h
<1>4. CASE h # "SRP_RESPONSE"
    <2>1. Response(h, SeqNum(n)) \in Frames
        BY <1>1, <1>2, <1>4 DEF Frames, Responses, Response
    <2>2. SrpResponse(h, SeqNum(n)) = <<Response(h, SeqNum(n))>>
        BY <1>4 DEF SrpResponse
    <2> QED
        BY <2>1, <2>2 DEF h
<1> QED
    BY <1>3, <1>4

LEMMA AnsweredTyped ==
    ASSUME NEW s, IsTerminal(s), NEW event, NEW n \in Nat \ {0}
    PROVE  LET c == Begun(s, event, n)
               a == Answered(s, event, n)
           IN  /\ IsTerminal(a) /\ SameSender(s, a) /\ SameReception(c, a)
               /\ a.out = s.out \o SrpResponse(Header(s, event), SeqNum(n))
<1> DEFINE c == Begun(s, event, n)
           a == Answered(s, event, n)
           f == SrpResponse(Header(s, event), SeqNum(n))
<1>1. IsTerminal(c) /\ SameSender(s, c) /\ c.out = s.out
    BY BegunTyped
<1>2. f \in Seq(Frames)
    BY ResponseTyped DEF IsTerminal
<1>3. a = LowerLayerTx(c, f)
    BY DEF Answered
<1> HIDE DEF c, f, a
<1>4. IsTerminal(a)
    <2>1. c.out \in Seq(Frames)
        BY <1>1 DEF IsTerminal
    <2> QED
        BY <1>1, <1>2, <1>3, <2>1, OutTyped
<1>5. SameSender(c, a) /\ SameReception(c, a) /\ a.out = c.out \o f
    BY <1>1, <1>3 DEF LowerLayerTx, IsTerminal, SrpStart, SameSender, SameReception
<1>6. SameSender(s, a)
    BY <1>1, <1>5 DEF SameSender
<1> QED
    BY <1>1, <1>4, <1>5, <1>6 DEF c, f, a

(* The packet is put into the list before it is passed up.                 *)
Stored(s, n) == [s EXCEPT !.iPendingRxFragList = AddPendingRxFrag(@, n)]

LEMMA StoredTyped ==
    ASSUME NEW s, IsTerminal(s), NEW n \in Nat \ {0}
    PROVE  LET r == Stored(s, n)
           IN  /\ IsTerminal(r) /\ SameSender(s, r) /\ r.out = s.out
               /\ SameWhenReceived(s, r)
               /\ r.iPendingRxFragList = AddPendingRxFrag(s.iPendingRxFragList, n)
<1> DEFINE l == AddPendingRxFrag(s.iPendingRxFragList, n)
           r == Stored(s, n)
<1>1. l \in Seq(Nat \ {0})
    <2>1. s.iPendingRxFragList \in Seq(Nat \ {0})
        BY DEF IsTerminal
    <2> QED
        BY <2>1, AddPendingRxFragTyped
<1> HIDE DEF l
<1>2. r = [s EXCEPT !.iPendingRxFragList = l]
    BY DEF Stored, l
<1> HIDE DEF r
<1>3. IsTerminal(r)
    BY <1>1, <1>2 DEF IsTerminal, SrpStart
<1>4. /\ SameSender(s, r) /\ r.out = s.out /\ SameWhenReceived(s, r)
      /\ r.iPendingRxFragList = l
    BY <1>2 DEF IsTerminal, SrpStart, SameSender, SameWhenReceived
<1> QED
    BY <1>3, <1>4 DEF r, l

LEMMA SameSenderTransitive ==
    ASSUME NEW s, NEW r, NEW q, SameSender(s, r), SameSender(r, q)
    PROVE  SameSender(s, q)
BY DEF SameSender

LEMMA Srp_0_2Typed ==
    ASSUME NEW s, IsTerminal(s), NEW event, NEW n \in Nat \ {0}
    PROVE  LET r == Srp_0_2(s, event, n)
           IN  /\ IsTerminal(r) /\ SameSender(s, r) /\ ~r.iFirstCmd
               /\ \/ r.out = s.out
                  \/ r.out = s.out \o SrpResponse(Header(s, event), SeqNum(n))
<1> DEFINE c == Begun(s, event, n)
           a == Answered(s, event, n)
           r == Srp_0_2(s, event, n)
           d == DeliverInSequence(Stored(a, n))
<1>1. IsTerminal(c) /\ SameSender(s, c) /\ c.out = s.out /\ ~c.iFirstCmd
    BY BegunTyped
<1>2. /\ IsTerminal(a) /\ SameSender(s, a) /\ ~a.iFirstCmd
      /\ a.out = s.out \o SrpResponse(Header(s, event), SeqNum(n))
    BY <1>1, AnsweredTyped DEF SameReception
<1>3. r \in {a, c, d}
    BY Srp_0_2Is DEF SrpMsgCopy, Stored
<1> HIDE DEF a, c, r
<1>4. /\ IsTerminal(Stored(a, n)) /\ SameSender(a, Stored(a, n)) /\ Stored(a, n).out = a.out
      /\ ~Stored(a, n).iFirstCmd
    <2>1. /\ IsTerminal(Stored(a, n)) /\ SameSender(a, Stored(a, n))
          /\ Stored(a, n).out = a.out /\ SameWhenReceived(a, Stored(a, n))
        BY <1>2, StoredTyped, Zenon
    <2> QED
        BY <1>2, <2>1 DEF SameWhenReceived
<1>5. IsTerminal(d) /\ SameSender(a, d) /\ d.out = a.out /\ ~d.iFirstCmd
    BY <1>4, DeliverInSequenceTyped, SameSenderTransitive
<1>6. SameSender(s, d)
    BY <1>2, <1>5, SameSenderTransitive
<1> HIDE DEF d
<1> QED
    BY <1>1, <1>2, <1>3, <1>5, <1>6 DEF r

LEMMA BegunOrdered ==
    ASSUME NEW s, IsTerminal(s), NEW N \in Nat, N < SeqModulus, Ordered(s, N),
           NEW event \in {"COMMAND", "WNSRP_COMMAND"}, NEW n \in 1..N,
           event = "COMMAND" /\ s.iFirstCmd => n = 1
    PROVE  LET c == Begun(s, event, n)
           IN  Ordered(c, N) /\ Received(c) = Received(s)
<1> DEFINE c == Begun(s, event, n)
<1>1. /\ ~c.iFirstCmd
      /\ c.delivered = s.delivered /\ c.iPendingRxFragList = s.iPendingRxFragList
      /\ c.iOldestWNSRPRetransSeqNum = s.iOldestWNSRPRetransSeqNum
      /\ c.iRecvSeqNumber = IF ~s.iFirstCmd THEN s.iRecvSeqNumber
                            ELSE IF event = "WNSRP_COMMAND" THEN 0 ELSE SeqNum(n)
    BY BegunTyped
<1> HIDE DEF c
<1>2. SeqNum(1) = 0
    BY SeqNumTyped, ConstantsTyped
<1>3. c.iRecvSeqNumber = s.iRecvSeqNumber
    BY <1>1, <1>2 DEF Ordered
<1>4. Ordered(c, N)
    BY <1>1, <1>3 DEF Ordered
<1> QED
    BY <1>1, <1>4 DEF Received, c

(* A response that is repeated is one for a packet that was received: the  *)
(* numbers of those that will be are not that far back.                    *)
LEMMA RespondsAgainReceived ==
    ASSUME NEW s, IsTerminal(s), NEW N \in Nat, N < SeqModulus, 2 * N <= SeqModulus,
           Ordered(s, N), NEW n \in 1..N, NEW header,
           ~Accepts(s, header, SeqNum(n)), RespondsAgain(s, header, SeqNum(n))
    PROVE  n \in Received(s)
<1> DEFINE D == Len(s.delivered)
           seq == SeqNum(n)
<1>1. /\ seq = n - 1 /\ D \in Nat /\ s.iRecvSeqNumber = D /\ D <= N
      /\ SeqModulus \in Nat /\ RxWindow \in Nat /\ RxWindow < SeqModulus
    <2>1. n \in 1..SeqModulus
        BY ConstantsTyped
    <2>2. seq = n - 1
        BY <2>1, SeqNumTyped
    <2>3. D \in Nat
        <3>1. s.delivered \in Seq(Nat \ {0})
            BY DEF IsTerminal
        <3> QED
            BY <3>1
    <2>4. s.iRecvSeqNumber = D /\ D <= N
        BY DEF Ordered
    <2> QED
        BY <2>2, <2>3, <2>4, ConstantsTyped
<1>2. n <= D => n \in Received(s)
    <2> SUFFICES ASSUME n <= D PROVE n \in ToSet(s.delivered)
        BY DEF Received
    <2>1. n \in 1..D /\ s.delivered[n] = n
        BY <1>1 DEF Ordered
    <2>2. s.delivered \in Seq(Nat \ {0})
        BY DEF IsTerminal
    <2> QED
        BY <2>1, <2>2, ToSetOf
<1>3. IsPending(s, seq) => n \in Received(s)
    <2> SUFFICES ASSUME IsPending(s, seq) PROVE n \in ToSet(s.iPendingRxFragList)
        BY DEF Received
    <2> DEFINE l == s.iPendingRxFragList
    <2>1. l \in Seq(1..N)
        BY DEF Ordered
    <2>2. PICK i \in DOMAIN l : SeqNum(l[i]) = seq
        BY DEF IsPending
    <2>3. i \in 1..Len(l) /\ l[i] \in 1..N /\ l[i] \in 1..SeqModulus
        BY <1>1, <2>1
    <2> HIDE DEF l
    <2>4. SeqNum(l[i]) = l[i] - 1
        BY <2>3, SeqNumTyped
    <2>5. l[i] = n
        BY <1>1, <2>2, <2>3, <2>4
    <2> QED
        BY <2>1, <2>3, <2>5, ToSetOf DEF l
<1>4. CASE header # "WNSRP_RESPONSE"
    <2>1. (seq + 1) % SeqModulus = D
        BY <1>1, <1>4 DEF RespondsAgain
    <2>2. seq + 1 = n /\ n \in 0..(SeqModulus - 1)
        BY <1>1
    <2>3. n = D
        BY <2>1, <2>2, Modulo
    <2> QED
        BY <1>1, <1>2, <2>3
<1>5. CASE header = "WNSRP_RESPONSE" /\ CheckWNSRPRetrans(s, seq) /\ ~IsPending(s, seq)
    <2> DEFINE o == s.iOldestWNSRPRetransSeqNum
               end == (D + RxWindow) % SeqModulus
    <2>1. o = IF D >= Lag THEN D - Lag ELSE D - Lag + SeqModulus
        BY DEF Ordered
    <2>2. ~InRxWindow(s, seq)
        BY <1>5 DEF Accepts
    <2>3. seq < D \/ (seq > o /\ o >= D)
        BY <1>1, <1>5, <2>1, LagTyped DEF CheckWNSRPRetrans
    <2>4. CASE seq < D
        BY <1>1, <1>2, <2>4
    <2>5. CASE seq >= D /\ seq > o /\ o >= D /\ Lag = 0
        <3>1. RxWindow = SeqModulus - 1
            BY <2>5, LagTyped
        <3>2. end = IF D = 0 THEN SeqModulus - 1 ELSE D - 1
            <4>1. D + RxWindow \in 0..(2 * SeqModulus - 1)
                BY <1>1, <3>1
            <4> DEFINE w == D + RxWindow
            <4> HIDE DEF w
            <4>2. w % SeqModulus = IF w < SeqModulus THEN w ELSE w - SeqModulus
                BY <4>1, ModuloTwice DEF w
            <4>3. end = IF w < SeqModulus THEN w ELSE w - SeqModulus
                BY <4>2 DEF w
            <4>4. w = D + (SeqModulus - 1)
                BY <3>1 DEF w
            <4> HIDE DEF end, D
            <4> QED
                BY <1>1, <4>3, <4>4
        <3>3. InRxWindow(s, seq)
            <4>1. InRxWindow(s, seq)
                    <=> IF end > D THEN seq >= D /\ seq <= end ELSE seq >= D \/ seq <= end
                BY <1>1 DEF InRxWindow
            <4> HIDE DEF end, D, seq
            <4> QED
                BY <1>1, <2>5, <3>2, <4>1
        <3> QED
            BY <2>2, <3>3
    <2>6. CASE seq >= D /\ seq > o /\ o >= D /\ Lag # 0
        <3>1. o = D - Lag + SeqModulus
            BY <1>1, <2>1, <2>6, LagTyped
        <3>2. n - 1 > SeqModulus - Lag
            BY <1>1, <2>6, <3>1, LagTyped
        <3> QED
            BY <1>1, <3>2, LagTyped
    <2> QED
        BY <1>1, <2>1, <2>3, <2>4, <2>5, <2>6, LagTyped
<1> QED
    BY <1>3, <1>4, <1>5 DEF RespondsAgain

LEMMA StoredOrdered ==
    ASSUME NEW s, IsTerminal(s), NEW N \in Nat, Ordered(s, N), ~s.iFirstCmd, NEW n \in 1..N
    PROVE  LET r == Stored(s, n)
           IN  Ordered(r, N) /\ Received(r) = Received(s) \cup {n}
<1> DEFINE r == Stored(s, n)
           l == AddPendingRxFrag(s.iPendingRxFragList, n)
<1>1. s.iPendingRxFragList \in Seq(1..N)
    BY DEF Ordered
<1>2. l \in Seq(1..N) /\ ToSet(l) = ToSet(s.iPendingRxFragList) \cup {n}
    BY <1>1, AddPendingRxFragTyped
<1>3. SameWhenReceived(s, r) /\ r.iPendingRxFragList = l
    BY StoredTyped
<1> HIDE DEF r, l
<1>4. Ordered(r, N)
    BY <1>2, <1>3 DEF Ordered, SameWhenReceived
<1>5. Received(r) = Received(s) \cup {n}
    BY <1>2, <1>3 DEF Received, SameWhenReceived
<1> QED
    BY <1>4, <1>5 DEF r

LEMMA Srp_0_2Ordered ==
    ASSUME NEW s, IsTerminal(s), NEW N \in Nat, N < SeqModulus, Ordered(s, N),
           NEW event \in {"COMMAND", "WNSRP_COMMAND"}, NEW n \in 1..N,
           event = "COMMAND" /\ s.iFirstCmd => n = 1
    PROVE  LET r == Srp_0_2(s, event, n)
           IN  /\ Ordered(r, N) /\ Received(s) \subseteq Received(r)
               /\ 2 * N <= SeqModulus => r.out = s.out \/ n \in Received(r)
<1> DEFINE c == Begun(s, event, n)
           a == Answered(s, event, n)
           r == Srp_0_2(s, event, n)
           h == Header(s, event)
           b == Stored(a, n)
           d == DeliverInSequence(b)
<1>1. IsTerminal(c) /\ c.out = s.out /\ ~c.iFirstCmd
    BY BegunTyped
<1>2. Ordered(c, N) /\ Received(c) = Received(s)
    BY BegunOrdered
<1>3. IsTerminal(a) /\ SameReception(c, a)
    BY AnsweredTyped
<1>4. r = IF Accepts(c, h, SeqNum(n)) THEN (IF Len(c.iPendingRxFragList) = RxWindow THEN c ELSE d)
          ELSE IF RespondsAgain(c, h, SeqNum(n)) THEN a ELSE c
    BY Srp_0_2Is DEF SrpMsgCopy, Stored
<1> HIDE DEF a, c, r, h
<1>5. Ordered(a, N) /\ Received(a) = Received(s) /\ ~a.iFirstCmd
    BY <1>1, <1>2, <1>3 DEF Ordered, Received, SameReception
<1>6. IsTerminal(b) /\ Ordered(b, N) /\ Received(b) = Received(s) \cup {n} /\ ~b.iFirstCmd
    BY <1>3, <1>5, StoredTyped, StoredOrdered DEF SameWhenReceived
<1> HIDE DEF b
<1>7. Ordered(d, N) /\ Received(b) \subseteq Received(d)
    BY <1>6, DeliverInSequenceOrdered
<1> HIDE DEF d
<1>8. CASE r = c
    BY <1>1, <1>2, <1>8 DEF r
<1>9. CASE r = d
    BY <1>6, <1>7, <1>9 DEF r
<1>10. CASE r = a /\ ~Accepts(c, h, SeqNum(n)) /\ RespondsAgain(c, h, SeqNum(n))
    <2>1. 2 * N <= SeqModulus => n \in Received(c)
        BY <1>1, <1>2, <1>10, RespondsAgainReceived
    <2> QED
        BY <1>2, <1>5, <1>10, <2>1 DEF r
<1> QED
    BY <1>4, <1>8, <1>9, <1>10
-----------------------------------------------------------------------------
(* What the two ends know of each other: s sends and r receives.  When the *)
(* numbers are exact (b), a response is for a packet that was received.    *)
IsFrom(b, s, r, f) ==
    IF f \in Commands
    THEN f.pkt <= s.sent /\ (f.kind = "SRP_COMMAND" /\ r.iFirstCmd => f.pkt = 1)
    ELSE ~s.iFirstCmd /\ (b => f \in Responses /\ f.seq + 1 \in Received(s))

From(b, s, r) == {f \in Frames : IsFrom(b, s, r, f)}

Ready(b, s, r) ==
    LET q == s.iSrpWaitQueue
    IN  /\ s.sent < SeqModulus /\ (b => 2 * s.sent <= SeqModulus /\ s.iUseNSRP)
        /\ Ordered(r, s.sent)
        /\ r.iFirstCmd /\ ~s.failed => s.sent = 0 \/ (q # <<>> /\ q[1] = 1)
        /\ b /\ ~s.failed => 1..s.sent \subseteq ToSet(q) \cup Received(r)

Grows(s, r) == /\ s.sent <= r.sent /\ (r.iFirstCmd => s.iFirstCmd)
               /\ Received(s) \subseteq Received(r)

LEMMA FromGrows ==
    ASSUME NEW b, NEW s, NEW r, NEW q, Grows(s, r), s.sent \in Nat, r.sent \in Nat
    PROVE  From(b, s, q) \subseteq From(b, r, q) /\ From(b, q, s) \subseteq From(b, q, r)
<1>1. ASSUME NEW f \in Frames, IsFrom(b, s, q, f)
      PROVE  IsFrom(b, r, q, f)
    <2>1. CASE f \in Commands
        <3>1. f.pkt \in Nat
            BY <2>1 DEF Commands
        <3>2. f.pkt <= s.sent /\ (f.kind = "SRP_COMMAND" /\ q.iFirstCmd => f.pkt = 1)
            BY <1>1, <2>1 DEF IsFrom
        <3>3. f.pkt <= r.sent
            BY <3>1, <3>2 DEF Grows
        <3> QED
            BY <2>1, <3>2, <3>3 DEF IsFrom
    <2>2. CASE f \notin Commands
        BY <1>1, <2>2, Zenon DEF IsFrom, Grows
    <2> QED
        BY <2>1, <2>2
<1>2. ASSUME NEW f \in Frames, IsFrom(b, q, s, f)
      PROVE  IsFrom(b, q, r, f)
    BY <1>2, Zenon DEF IsFrom, Grows
<1> QED
    BY <1>1, <1>2 DEF From

LEMMA SeqLarger ==
    ASSUME NEW F, NEW G, F \subseteq G, NEW q \in Seq(F)
    PROVE  q \in Seq(G)
BY SeqMonotonic

(* What was sent goes out: nothing else changes.                           *)
Quiet(r) == [r EXCEPT !.out = <<>>]

Same(r, c) == SameSender(r, c) /\ SameReception(r, c)

LEMMA QuietSame ==
    ASSUME NEW r, IsTerminal(r)
    PROVE  IsTerminal(Quiet(r)) /\ Quiet(r).out = <<>> /\ Same(r, Quiet(r))
<1>1. <<>> \in Seq(Frames)
    OBVIOUS
<1>2. IsTerminal(Quiet(r))
    BY <1>1 DEF Quiet, IsTerminal, SrpStart
<1>3. Quiet(r).out = <<>> /\ Same(r, Quiet(r))
    BY DEF Quiet, IsTerminal, SrpStart, Same, SameSender, SameReception
<1> QED
    BY <1>2, <1>3

LEMMA SameFacts ==
    ASSUME NEW r, NEW c, Same(r, c)
    PROVE  /\ c.failed = r.failed /\ c.sent = r.sent /\ c.iUseNSRP = r.iUseNSRP
           /\ First(r) => First(c)
           /\ \A b, q : Ready(b, r, q) => Ready(b, c, q)
           /\ \A b, q : Ready(b, q, r) => Ready(b, q, c)
           /\ \A b, q : From(b, c, q) = From(b, r, q) /\ From(b, q, c) = From(b, q, r)
<1>1. /\ c.failed = r.failed /\ c.sent = r.sent /\ c.iUseNSRP = r.iUseNSRP
      /\ c.iSrpWaitQueue = r.iSrpWaitQueue /\ c.iFirstCmd = r.iFirstCmd
      /\ Received(c) = Received(r)
    BY DEF Same, SameSender, SameReception, Received
<1>2. First(r) => First(c)
    BY DEF First, Same, SameSender
<1>3. \A N : Ordered(r, N) => Ordered(c, N)
    BY DEF Ordered, Same, SameReception
<1>4. \A b, q : Ready(b, r, q) => Ready(b, c, q)
    BY <1>1 DEF Ready
<1>5. \A b, q : Ready(b, q, r) => Ready(b, q, c)
    BY <1>1, <1>3 DEF Ready
<1>6. ASSUME NEW b, NEW q
      PROVE  From(b, c, q) = From(b, r, q) /\ From(b, q, c) = From(b, q, r)
    <2>1. \A f \in Frames : IsFrom(b, c, q, f) <=> IsFrom(b, r, q, f)
        BY <1>1, Zenon DEF IsFrom
    <2>2. \A f \in Frames : IsFrom(b, q, c, f) <=> IsFrom(b, q, r, f)
        BY <1>1, Zenon DEF IsFrom
    <2> QED
        BY <2>1, <2>2 DEF From
<1> QED
    BY <1>1, <1>2, <1>4, <1>5, <1>6

LEMMA KeptFrames ==
    ASSUME NEW F, NEW q \in Seq(F)
    PROVE  SubSeq(q, 1, Min({Len(q), LinkCapacity})) \in Seq(F)
<1> DEFINE T == {Len(q), LinkCapacity}
           m == Min(T)
<1>1. Len(q) \in Nat /\ T \subseteq Nat /\ T # {} /\ Len(q) \in T
    BY ConstantsTyped
<1>2. m \in Nat /\ m <= Len(q)
    <2>1. m \in T /\ \A i \in T : m <= i
        BY <1>1, LeastOf
    <2> HIDE DEF m
    <2> QED
        BY <1>1, <2>1
<1> HIDE DEF m
<1>3. \A i \in 1..m : q[i] \in F
    BY <1>1, <1>2
<1>4. SubSeq(q, 1, m) \in Seq(F)
    BY <1>1, <1>2, <1>3, SubSeqProperties
<1> QED
    BY <1>4 DEF m

LEMMA FramesOffered ==
    ASSUME NEW s, IsTerminal(s)
    PROVE  OffersAll(Frames, s) /\ Offers(Frames, s)
<1> DEFINE q == s.iSrpWaitQueue
<1>1. /\ \A i \in 1..Len(q) : q[i] \in Nat \ {0}
      /\ q # <<>> => 1 \in 1..Len(q)
    BY QueueTyped
<1>2. \A n \in Nat \ {0} : /\ Command("SRP_COMMAND", n) \in Frames
                           /\ Command("WNSRP_COMMAND", n) \in Frames
    BY DEF Frames, Commands, Command
<1> QED
    BY <1>1, <1>2 DEF OffersAll, Offers

LEMMA FromOffered ==
    ASSUME NEW b, NEW s, NEW r, IsTerminal(s), ~s.failed,
           r.iFirstCmd => s.sent = 0 \/ (s.iSrpWaitQueue # <<>> /\ s.iSrpWaitQueue[1] = 1)
    PROVE  /\ Offers(From(b, s, r), s)
           /\ ~r.iFirstCmd => OffersAll(From(b, s, r), s)
<1> DEFINE q == s.iSrpWaitQueue
<1>1. /\ \A i \in 1..Len(q) : q[i] \in Nat \ {0} /\ q[i] \in 1..s.sent
      /\ q # <<>> => 1 \in 1..Len(q)
    BY QueueTyped
<1>2. s.sent \in Nat
    BY DEF IsTerminal
<1> HIDE DEF q
<1>3. ASSUME NEW i \in 1..Len(q), NEW kind \in {"SRP_COMMAND", "WNSRP_COMMAND"},
             kind = "WNSRP_COMMAND" \/ ~r.iFirstCmd \/ q[i] = 1
      PROVE  Command(kind, q[i]) \in From(b, s, r)
    <2> DEFINE f == Command(kind, q[i])
    <2>1. f \in Commands /\ f.pkt = q[i] /\ f.kind = kind
        BY <1>1 DEF Command, Commands
    <2>2. q[i] <= s.sent
        BY <1>1, <1>2
    <2> HIDE DEF f
    <2>3. IsFrom(b, s, r, f)
        BY <1>3, <2>1, <2>2 DEF IsFrom
    <2> QED
        BY <2>1, <2>3 DEF From, Frames, f
<1>4. r.iFirstCmd /\ q # <<>> => q[1] = 1
    <2>1. q # <<>> => s.sent # 0
        BY <1>1, <1>2
    <2> QED
        BY <2>1 DEF q
<1>5. Offers(From(b, s, r), s)
    BY <1>1, <1>3, <1>4 DEF Offers, q
<1>6. ~r.iFirstCmd => OffersAll(From(b, s, r), s)
    BY <1>3 DEF OffersAll, q
<1> QED
    BY <1>5, <1>6
-----------------------------------------------------------------------------
(* The inductive invariant.  The numbers do not wrap around in a short     *)
(* use, and tell a repetition from a new packet if all fit into half.      *)
Short == \A t \in Terminals : use.packets[t] < SeqModulus
Half == \A t \in Terminals : 2 * use.packets[t] <= SeqModulus
Exact == Numbered /\ Half

Within(t, s) == /\ ~s.failed => First(s)
                /\ s.sent <= use.packets[t] /\ s.iUseNSRP = use.nsrp[t]

Linked(t) == LET s == srp[t]
                 r == srp[Peer(t)]
             IN  Ready(Exact, s, r) /\ link[Peer(t)] \in Seq(From(Exact, s, r))

IInv == /\ TypeOK
        /\ \A t \in Terminals : Within(t, srp[t])
        /\ Short => \A t \in Terminals : Linked(t)

LEMMA InvParts ==
    /\ IInv => TypeOK /\ \A t \in Terminals : Within(t, srp[t])
    /\ IInv /\ Short => \A t \in Terminals : Linked(t)
BY DEF IInv

(* What a handler makes of terminal t.                                     *)
Turn(t, r) == LET s == srp[t]
                  q == srp[Peer(t)]
              IN  /\ IsTerminal(r) /\ Within(t, r)
                  /\ Short => /\ Grows(s, r) /\ Ready(Exact, r, q) /\ Ready(Exact, q, r)
                              /\ r.out \in Seq(From(Exact, r, q))

LEMMA FinishKeeps ==
    ASSUME IInv, NEW t \in Terminals, NEW r, Turn(t, r), NEW rest,
           \A F : link[t] \in Seq(F) => rest \in Seq(F),
           Finish(t, r, rest)
    PROVE  IInv'
<1> DEFINE p == Peer(t)
           s == srp[t]
           q == srp[p]
           c == Quiet(r)
           frames == (IF r.failed THEN <<>> ELSE link[p]) \o r.out
           last == SubSeq(frames, 1, Min({Len(frames), LinkCapacity}))
<1>1. /\ p \in Terminals /\ p # t /\ Terminals = {t, p} /\ Peer(p) = t /\ Peer(t) = p
    BY Peers
<1>2. /\ TypeOK /\ Within(t, s) /\ Within(p, q) /\ (Short => Linked(t) /\ Linked(p))
    BY <1>1, InvParts
<1>3. /\ DOMAIN srp = Terminals /\ DOMAIN link = Terminals
      /\ IsTerminal(s) /\ IsTerminal(q) /\ q.out = <<>> /\ IsTerminal(r)
      /\ link[t] \in Seq(Frames) /\ link[p] \in Seq(Frames) /\ use \in Uses
    BY <1>1, <1>2 DEF TypeOK, Turn
<1>4. ASSUME NEW F, r.failed \/ link[p] \in Seq(F), r.out \in Seq(F)
      PROVE  last \in Seq(F)
    <2>1. <<>> \in Seq(F)
        OBVIOUS
    <2>2. (IF r.failed THEN <<>> ELSE link[p]) \in Seq(F)
        BY <1>4, <2>1
    <2>3. frames \in Seq(F)
        BY <1>4, <2>2, ConcatProperties
    <2> HIDE DEF frames
    <2> QED
        BY <2>3, KeptFrames
<1>5. srp' = [srp EXCEPT ![t] = c] /\ link' = [link EXCEPT ![t] = rest, ![p] = last] /\ use' = use
    BY DEF Finish, Quiet
<1>6. IsTerminal(c) /\ c.out = <<>> /\ Same(r, c)
    BY <1>3, QuietSame
<1>7. r.out \in Seq(Frames)
    BY <1>3 DEF IsTerminal
<1>8. last \in Seq(Frames) /\ rest \in Seq(Frames)
    BY <1>3, <1>4, <1>7
<1> HIDE DEF c, last, frames, p
<1>9. /\ srp'[t] = c /\ srp'[p] = q /\ DOMAIN srp' = Terminals
      /\ link'[t] = rest /\ link'[p] = last /\ link' \in [Terminals -> Seq(Frames)]
    <2>1. link \in [Terminals -> Seq(Frames)]
        BY <1>2 DEF TypeOK
    <2> QED
        BY <1>1, <1>3, <1>5, <1>8, <2>1
<1>10. TypeOK'
    BY <1>1, <1>3, <1>5, <1>6, <1>9 DEF TypeOK
<1>11. /\ Within(t, c) /\ Within(p, q)
    BY <1>2, <1>6, SameFacts DEF Turn, Within
<1>12. \A u \in Terminals : Within(u, srp[u])'
    BY <1>1, <1>5, <1>9, <1>11 DEF Within
<1>13. ASSUME Short
       PROVE  \A u \in Terminals : Linked(u)'
    <2> DEFINE b == Exact
    <2>1. /\ Grows(s, r) /\ Ready(b, r, q) /\ Ready(b, q, r) /\ r.out \in Seq(From(b, r, q))
        BY <1>13 DEF Turn, p
    <2>2. link[p] \in Seq(From(b, s, q)) /\ link[t] \in Seq(From(b, q, s))
        BY <1>1, <1>2, <1>13 DEF Linked
    <2>3. s.sent \in Nat /\ r.sent \in Nat
        BY <1>3 DEF IsTerminal
    <2> HIDE DEF b
    <2>4. From(b, s, q) \subseteq From(b, r, q) /\ From(b, q, s) \subseteq From(b, q, r)
        BY <2>1, <2>3, FromGrows
    <2>5. link[p] \in Seq(From(b, r, q)) /\ link[t] \in Seq(From(b, q, r))
        BY <2>2, <2>4, SeqLarger
    <2>6. last \in Seq(From(b, r, q)) /\ rest \in Seq(From(b, q, r))
        BY <1>4, <2>1, <2>5
    <2>7. /\ Ready(b, c, q) /\ Ready(b, q, c)
          /\ From(b, c, q) = From(b, r, q) /\ From(b, q, c) = From(b, q, r)
        BY <1>6, <2>1, SameFacts
    <2>8. Exact' = b
        BY <1>5 DEF Exact, Numbered, Half, b
    <2>9. Linked(t)'
        BY <1>1, <1>9, <2>6, <2>7, <2>8 DEF Linked
    <2>10. Linked(p)'
        BY <1>1, <1>9, <2>6, <2>7, <2>8 DEF Linked
    <2> QED
        BY <1>1, <2>9, <2>10
<1>14. Short' => Short
    BY <1>5 DEF Short
<1> QED
    BY <1>10, <1>12, <1>13, <1>14 DEF IInv
-----------------------------------------------------------------------------
(* The actions.                                                            *)

LEMMA UseTyped ==
    ASSUME use \in Uses, NEW t \in Terminals
    PROVE  /\ use.packets[t] \in Nat /\ use.nsrp[t] \in BOOLEAN /\ use.wnsrp[t] \in BOOLEAN
           /\ use.chunks \subseteq Nat \ {0}
BY SrpAssumption

LEMMA InvFacts ==
    ASSUME IInv, NEW t \in Terminals
    PROVE  LET s == srp[t]
               q == srp[Peer(t)]
           IN  /\ IsTerminal(s) /\ IsTerminal(q) /\ Within(t, s) /\ s.out = <<>>
               /\ link[t] \in Seq(Frames) /\ use \in Uses
               /\ Short => /\ Ready(Exact, s, q) /\ Ready(Exact, q, s)
                           /\ link[t] \in Seq(From(Exact, q, s))
<1>1. /\ Peer(t) \in Terminals /\ Peer(Peer(t)) = t
    BY Peers
<1>2. TypeOK /\ Within(t, srp[t]) /\ (Short => Linked(t) /\ Linked(Peer(t)))
    BY <1>1, InvParts
<1> QED
    BY <1>1, <1>2 DEF TypeOK, Linked

(* The receiver needs not know of the packets that are new.                *)
LEMMA OrderedMore ==
    ASSUME NEW q, IsTerminal(q), NEW M \in Nat, NEW N \in Nat, M <= N, Ordered(q, M)
    PROVE  Ordered(q, N)
<1>1. Len(q.delivered) \in Nat
    <2>1. q.delivered \in Seq(Nat \ {0})
        BY DEF IsTerminal
    <2> QED
        BY <2>1
<1>2. Len(q.delivered) <= N
    BY <1>1 DEF Ordered
<1>3. q.iPendingRxFragList \in Seq(1..N)
    <2>1. 1..M \subseteq 1..N /\ q.iPendingRxFragList \in Seq(1..M)
        BY DEF Ordered
    <2> QED
        BY <2>1, SeqMonotonic
<1> QED
    BY <1>2, <1>3 DEF Ordered

LEMMA EnqueuedReady ==
    ASSUME NEW b \in BOOLEAN, NEW s, NEW q, IsTerminal(s), IsTerminal(q), First(s), ~s.failed,
           NEW k \in Nat \ {0}, s.sent + k < SeqModulus, b => 2 * (s.sent + k) <= SeqModulus,
           Ready(b, s, q)
    PROVE  Ready(b, Enqueued(s, k), q)
<1> DEFINE e == Enqueued(s, k)
           w == s.iSrpWaitQueue
           x == e.iSrpWaitQueue
<1>1. /\ SameReceiver(s, e) /\ e.sent = s.sent + k /\ x # <<>>
      /\ ToSet(w) \subseteq ToSet(x)
      /\ (s.sent + 1)..(s.sent + k) \subseteq ToSet(x)
      /\ w # <<>> => x[1] = w[1]
      /\ w = <<>> => x[1] = s.sent + 1
    BY EnqueuedTyped
<1>2. s.sent \in Nat
    BY DEF IsTerminal
<1> HIDE DEF e
<1>3. /\ Ordered(q, s.sent)
      /\ b => s.iUseNSRP
      /\ q.iFirstCmd => s.sent = 0 \/ (w # <<>> /\ w[1] = 1)
      /\ b => 1..s.sent \subseteq ToSet(w) \cup Received(q)
    BY DEF Ready
<1>4. Ordered(q, e.sent)
    BY <1>1, <1>2, <1>3, OrderedMore
<1>5. s.sent = 0 => w = <<>>
    <2>1. w \in Seq(1..s.sent)
        BY DEF IsTerminal
    <2>2. 1..0 = {}
        OBVIOUS
    <2>3. \A y \in Seq({}) : y = <<>>
        OBVIOUS
    <2> QED
        BY <2>1, <2>2, <2>3
<1>6. q.iFirstCmd => x[1] = 1
    BY <1>1, <1>2, <1>3, <1>5
<1>7. ASSUME b
      PROVE  1..e.sent \subseteq ToSet(x) \cup Received(q)
    <2>1. ASSUME NEW n \in 1..e.sent
          PROVE  n \in 1..s.sent \/ n \in (s.sent + 1)..(s.sent + k)
        BY <1>1, <1>2
    <2>2. 1..s.sent \subseteq ToSet(w) \cup Received(q)
        BY <1>3, <1>7
    <2> QED
        BY <1>1, <2>1, <2>2
<1> QED
    BY <1>1, <1>3, <1>4, <1>6, <1>7 DEF Ready, e, SameReceiver

(* Sending changes nothing that the invariant says of the two directions.  *)
LEMMA SendsFacts ==
    ASSUME NEW s, NEW r, SameReceiver(s, r), r.sent = s.sent, r.iSrpWaitQueue = s.iSrpWaitQueue
    PROVE  /\ \A b, q : Ready(b, s, q) => Ready(b, r, q)
           /\ \A b, q : Ready(b, q, s) => Ready(b, q, r)
           /\ \A b, q : From(b, r, q) = From(b, s, q) /\ From(b, q, r) = From(b, q, s)
           /\ Received(r) = Received(s)
<1>1. /\ r.failed = s.failed /\ r.iUseNSRP = s.iUseNSRP /\ r.iFirstCmd = s.iFirstCmd
      /\ Received(r) = Received(s)
    BY DEF SameReceiver, Received
<1>2. \A N : Ordered(s, N) => Ordered(r, N)
    BY DEF Ordered, SameReceiver
<1>3. \A b, q : Ready(b, s, q) => Ready(b, r, q)
    BY <1>1 DEF Ready
<1>4. \A b, q : Ready(b, q, s) => Ready(b, q, r)
    BY <1>1, <1>2 DEF Ready
<1>5. ASSUME NEW b, NEW q
      PROVE  From(b, r, q) = From(b, s, q) /\ From(b, q, r) = From(b, q, s)
    <2>1. \A f \in Frames : IsFrom(b, r, q, f) <=> IsFrom(b, s, q, f)
        BY <1>1, Zenon DEF IsFrom
    <2>2. \A f \in Frames : IsFrom(b, q, r, f) <=> IsFrom(b, q, s, f)
        BY <1>1, Zenon DEF IsFrom
    <2> QED
        BY <2>1, <2>2 DEF From
<1> QED
    BY <1>1, <1>3, <1>4, <1>5

LEMMA ExactIs == Exact \in BOOLEAN
BY DEF Exact, Numbered, Half

LEMMA UpperLayerRxKeeps ==
    ASSUME IInv, NEW t \in Terminals, NEW k \in use.chunks, UpperLayerRx(t, k)
    PROVE  IInv'
<1> DEFINE s == srp[t]
           q == srp[Peer(t)]
           e == Enqueued(s, k)
           r == IF s.iStatus = "IDLE" THEN Srp_0_1(e) ELSE Srp_1_1(e)
           b == Exact
<1>1. /\ IsTerminal(s) /\ IsTerminal(q) /\ Within(t, s) /\ s.out = <<>> /\ use \in Uses
      /\ Short => Ready(b, s, q) /\ Ready(b, q, s)
    BY InvFacts
<1>2. /\ k \in Nat \ {0} /\ s.sent \in Nat
      /\ \A u \in Terminals : use.packets[u] \in Nat
    BY <1>1, UseTyped DEF IsTerminal
<1>3. ~s.failed /\ s.sent + k <= use.packets[t] /\ Finish(t, r, link[t])
    BY DEF UpperLayerRx, Enqueued
<1>4. First(s) /\ s.iUseNSRP = use.nsrp[t]
    BY <1>1, <1>3 DEF Within
<1> HIDE DEF e, r, s, q, b
<1>5. /\ IsTerminal(e) /\ First(e) /\ SameReceiver(s, e) /\ e.sent = s.sent + k
      /\ e.iSrpWaitQueue # <<>> /\ e.out = <<>>
      /\ ToSet(s.iSrpWaitQueue) \subseteq ToSet(e.iSrpWaitQueue)
    BY <1>1, <1>2, <1>4, EnqueuedTyped DEF e
<1>6. ASSUME NEW F, Offers(F, e)
      PROVE  Sends(F, e, r)
    <2>1. Good(F, e)
        BY <1>5, <1>6 DEF Good
    <2> QED
        BY <1>5, <2>1, Srp_0_1Sends, Srp_1_1Sends DEF r
<1>7. Sends(Frames, e, r)
    BY <1>5, <1>6, FramesOffered
<1>8. /\ IsTerminal(r) /\ First(r) /\ SameReceiver(e, r) /\ r.sent = e.sent
      /\ r.iSrpWaitQueue = e.iSrpWaitQueue
    BY <1>7 DEF Sends, Good
<1>9. Within(t, r)
    BY <1>3, <1>4, <1>5, <1>8 DEF Within, SameReceiver
<1>10. ASSUME Short
       PROVE  /\ Grows(s, r) /\ Ready(b, r, q) /\ Ready(b, q, r)
              /\ r.out \in Seq(From(b, r, q))
    <2>1. Ready(b, s, q) /\ Ready(b, q, s)
        BY <1>1, <1>10
    <2>2. s.sent + k < SeqModulus
        BY <1>2, <1>3, <1>10, ConstantsTyped DEF Short
    <2>3. b => 2 * (s.sent + k) <= SeqModulus
        <3>1. b => 2 * use.packets[t] <= SeqModulus
            BY DEF b, Exact, Half
        <3> QED
            BY <1>2, <1>3, <3>1, ConstantsTyped
    <2>4. Ready(b, e, q)
        BY <1>1, <1>2, <1>3, <1>4, <2>1, <2>2, <2>3, EnqueuedReady, ExactIs DEF e, b
    <2>5. Ready(b, q, e)
        <3>1. \A N : Ordered(s, N) => Ordered(e, N)
            BY <1>5 DEF Ordered, SameReceiver
        <3>2. Received(e) = Received(s) /\ e.iFirstCmd = s.iFirstCmd
            BY <1>5 DEF Received, SameReceiver
        <3> QED
            BY <2>1, <3>1, <3>2 DEF Ready
    <2>6. Ready(b, r, q) /\ Ready(b, q, r) /\ From(b, r, q) = From(b, e, q)
          /\ Received(r) = Received(e)
        BY <1>8, <2>4, <2>5, SendsFacts
    <2>7. Offers(From(b, e, q), e)
        <3>1. q.iFirstCmd => e.sent = 0 \/ (e.iSrpWaitQueue # <<>> /\ e.iSrpWaitQueue[1] = 1)
            BY <1>3, <1>5, <2>4 DEF Ready, SameReceiver
        <3>2. ~e.failed
            BY <1>3, <1>5 DEF SameReceiver
        <3> QED
            BY <1>5, <3>1, <3>2, FromOffered
    <2>8. r.out \in Seq(From(b, r, q))
        BY <1>6, <2>6, <2>7 DEF Sends, Good
    <2>9. Grows(s, r)
        <3>1. r.iFirstCmd = s.iFirstCmd /\ Received(r) = Received(s)
            BY <1>5, <1>8 DEF SameReceiver, Received
        <3> QED
            BY <1>2, <1>5, <1>8, <3>1 DEF Grows
    <2> QED
        BY <2>6, <2>8, <2>9
<1>11. Turn(t, r)
    BY <1>8, <1>9, <1>10 DEF Turn, s, q, b
<1> QED
    BY <1>3, <1>11, FinishKeeps

LEMMA CorruptedRxKeeps ==
    ASSUME IInv, NEW t \in Terminals, CorruptedRx(t)
    PROVE  IInv'
<1> DEFINE rest == Tail(link[t])
<1>1. /\ link' = [link EXCEPT ![t] = rest] /\ use' = use /\ srp' = srp /\ link[t] # <<>>
    BY DEF CorruptedRx
<1>2. \A F : link[t] \in Seq(F) => rest \in Seq(F)
    BY <1>1
<1> HIDE DEF rest
<1>3. TypeOK /\ link \in [Terminals -> Seq(Frames)]
    BY InvParts DEF TypeOK
<1>4. link' \in [Terminals -> Seq(Frames)]
    BY <1>1, <1>2, <1>3
<1>5. TypeOK'
    BY <1>1, <1>3, <1>4 DEF TypeOK
<1>6. \A u \in Terminals : Within(u, srp[u])'
    BY <1>1, InvParts DEF Within
<1>7. Exact' = Exact /\ Short' = Short
    BY <1>1 DEF Exact, Numbered, Half, Short
<1>8. ASSUME NEW u \in Terminals, Linked(u)
      PROVE  Linked(u)'
    <2>1. Peer(u) \in Terminals
        BY Peers
    <2>2. \A F : link[Peer(u)] \in Seq(F) => link'[Peer(u)] \in Seq(F)
        BY <1>1, <1>2, <1>3, <2>1
    <2> QED
        BY <1>1, <1>7, <1>8, <2>2 DEF Linked
<1>9. Short' => \A u \in Terminals : Linked(u)'
    BY <1>7, <1>8, InvParts
<1> QED
    BY <1>5, <1>6, <1>9 DEF IInv

(* LowerLayerRx is what the handler of the frame makes of the terminal.    *)
Handled(s, f) ==
    LET e == SrpGetEventNoFromAL1(s, f)
        seq == IF "seq" \in DOMAIN f THEN f.seq ELSE 0
    IN  CASE e.event \in {"COMMAND", "WNSRP_COMMAND"} -> Srp_0_2(e.srp, e.event, f.pkt)
          [] /\ e.event \in {"RESPONSE", "NSRP_RESPONSE", "WNSRP_RESPONSE"}
             /\ e.srp.iStatus = "WAIT_RESPONSE" -> Srp_1_3(e.srp, e.event, seq)
          [] OTHER -> e.srp

LEMMA LowerLayerRxIs ==
    ASSUME NEW t \in Terminals, LowerLayerRx(t)
    PROVE  /\ link[t] # <<>> /\ ~srp[t].failed
           /\ Finish(t, Handled(srp[t], Head(link[t])), Tail(link[t]))
BY DEF LowerLayerRx, Handled

LEMMA CommandEvents ==
    ASSUME NEW s, NEW f \in Commands
    PROVE  SrpGetEventNoFromAL1(s, f).event \in {"COMMAND", "WNSRP_COMMAND", "NOP"}
<1>1. CASE f.kind = "SRP_COMMAND"
    BY <1>1 DEF SrpGetEventNoFromAL1
<1>2. CASE f.kind = "WNSRP_COMMAND"
    BY <1>2 DEF SrpGetEventNoFromAL1
<1> QED
    BY <1>1, <1>2 DEF Commands

LEMMA HandledCommand ==
    ASSUME NEW s, NEW f \in Commands
    PROVE  LET e == SrpGetEventNoFromAL1(s, f)
               r == Handled(s, f)
           IN  \/ /\ e.event \in {"COMMAND", "WNSRP_COMMAND"}
                  /\ r = Srp_0_2(e.srp, e.event, f.pkt)
               \/ r = e.srp
<1> DEFINE e == SrpGetEventNoFromAL1(s, f)
<1>1. e.event \in {"COMMAND", "WNSRP_COMMAND", "NOP"}
    BY CommandEvents
<1>2. Handled(s, f) = LET seq == IF "seq" \in DOMAIN f THEN f.seq ELSE 0
                      IN  CASE e.event \in {"COMMAND", "WNSRP_COMMAND"} ->
                                    Srp_0_2(e.srp, e.event, f.pkt)
                            [] /\ e.event \in {"RESPONSE", "NSRP_RESPONSE", "WNSRP_RESPONSE"}
                               /\ e.srp.iStatus = "WAIT_RESPONSE" -> Srp_1_3(e.srp, e.event, seq)
                            [] OTHER -> e.srp
    BY DEF Handled
<1> HIDE DEF e
<1> QED
    BY <1>1, <1>2 DEF e

LEMMA HandledResponse ==
    ASSUME NEW F, NEW s, Good(F, s), OffersAll(F, s), NEW f \in Frames, f \notin Commands
    PROVE  LET r == Handled(s, f)
           IN  /\ Answers(F, s, r)
               /\ s.iUseNSRP /\ f \in Responses => Kept(s, r, f.seq)
<1> DEFINE e == SrpGetEventNoFromAL1(s, f)
           c == e.srp
           seq == IF "seq" \in DOMAIN f THEN f.seq ELSE 0
           r == Handled(s, f)
<1>1. /\ Sends(F, s, c)
      /\ e.event \in {"NOP", "RESPONSE", "NSRP_RESPONSE", "WNSRP_RESPONSE"}
      /\ e.event \in {"NSRP_RESPONSE", "WNSRP_RESPONSE"} => f \in Responses
      /\ e.event = "WNSRP_RESPONSE" => c.iCurWnsrpStatus = "FULL_SUPPORT"
      /\ e.event = "RESPONSE" => f.kind = "SRP_RESPONSE" \/ ~s.iUseNSRP
    BY GetEventSends
<1>2. r = CASE e.event \in {"COMMAND", "WNSRP_COMMAND"} -> Srp_0_2(c, e.event, f.pkt)
            [] /\ e.event \in {"RESPONSE", "NSRP_RESPONSE", "WNSRP_RESPONSE"}
               /\ c.iStatus = "WAIT_RESPONSE" -> Srp_1_3(c, e.event, seq)
            [] OTHER -> c
    BY DEF Handled
<1>3. f \in Responses => seq = f.seq /\ f.kind # "SRP_RESPONSE"
    BY DEF Responses
<1>12. s.iCurWnsrpStatus = "FULL_SUPPORT" => c.iCurWnsrpStatus = "FULL_SUPPORT"
    BY GetEventKnows DEF Knows, Good
<1> HIDE DEF e, r, seq
<1> DEFINE d == Srp_1_3(c, e.event, seq)
<1>4. \/ r = c
      \/ r = d /\ e.event \in {"RESPONSE", "NSRP_RESPONSE", "WNSRP_RESPONSE"}
    BY <1>1, <1>2
<1> HIDE DEF c
<1>5. /\ Good(F, c) /\ SameReceiver(s, c) /\ c.sent = s.sent
      /\ c.iSrpWaitQueue = s.iSrpWaitQueue /\ OffersAll(F, c)
    BY <1>1, <1>12 DEF Sends, OffersAll
<1>6. ASSUME NEW x, Answers(F, c, x)
      PROVE  Answers(F, s, x)
    BY <1>5, <1>6 DEF Answers, SameReceiver
<1>7. ASSUME NEW x, Kept(c, x, seq), f \in Responses
      PROVE  Kept(s, x, f.seq)
    BY <1>3, <1>5, <1>7 DEF Kept
<1>8. CASE r = c
    BY <1>5, <1>8 DEF Answers, Kept, r
<1>9. CASE r = d /\ e.event = "RESPONSE"
    <2>1. Answers(F, c, r)
        BY <1>5, <1>9, ResponseAnswers
    <2>2. ~(s.iUseNSRP /\ f \in Responses)
        BY <1>1, <1>3, <1>9
    <2> QED
        BY <1>6, <2>1, <2>2 DEF r
<1>10. CASE r = d /\ e.event = "NSRP_RESPONSE"
    <2>1. Answers(F, c, r) /\ Kept(c, r, seq)
        BY <1>5, <1>10, NsrpResponseAnswers
    <2> QED
        BY <1>6, <1>7, <2>1 DEF r
<1>11. CASE r = d /\ e.event = "WNSRP_RESPONSE"
    <2>1. Answers(F, c, r) /\ Kept(c, r, seq)
        BY <1>1, <1>5, <1>11, WnsrpResponseAnswers
    <2> QED
        BY <1>6, <1>7, <2>1 DEF r
<1> QED
    BY <1>4, <1>8, <1>9, <1>10, <1>11

(* The answer to a packet comes from a terminal that has begun, and is for *)
(* one it received.                                                        *)
LEMMA AnswerFrom ==
    ASSUME NEW b \in BOOLEAN, NEW c, NEW r, NEW q, IsTerminal(c), IsTerminal(r),
           NEW n \in Nat \ {0}, n < SeqModulus, NEW event, ~r.iFirstCmd, b => c.iUseNSRP /\ n \in Received(r)
    PROVE  SrpResponse(Header(c, event), SeqNum(n)) \in Seq(From(b, r, q))
<1> DEFINE h == Header(c, event)
           f == Response(h, SeqNum(n))
           g == [kind |-> h]
<1>1. SeqNum(n) \in 0..(SeqModulus - 1) /\ SeqNum(n) + 1 = n
    <2>1. n \in 1..SeqModulus
        BY ConstantsTyped
    <2>2. SeqNum(n) = n - 1 /\ SeqNum(n) \in 0..(SeqModulus - 1)
        BY <2>1, SeqNumTyped
    <2> QED
        BY <2>2
<1>2. h \in {"SRP_RESPONSE", "NSRP_RESPONSE", "WNSRP_RESPONSE"}
    BY DEF Header
<1>3. b => h # "SRP_RESPONSE"
    BY DEF Header
<1> HIDE DEF h
<1>4. CASE h = "SRP_RESPONSE"
    <2>1. g \in Frames /\ g.kind = "SRP_RESPONSE"
        BY <1>4 DEF Frames
    <2>2. g \notin Commands
        BY <2>1 DEF Commands
    <2>3. SrpResponse(h, SeqNum(n)) = <<g>>
        BY <1>4 DEF SrpResponse
    <2> HIDE DEF g
    <2>4. g \in From(b, r, q)
        BY <1>3, <1>4, <2>1, <2>2 DEF From, IsFrom
    <2> QED
        BY <2>3, <2>4 DEF h
<1>5. CASE h # "SRP_RESPONSE"
    <2>1. f \in Responses /\ f.seq = SeqNum(n) /\ f.kind = h
        BY <1>1, <1>2, <1>5 DEF Responses, Response
    <2>2. f \notin Commands
        BY <1>2, <2>1 DEF Commands
    <2>3. SrpResponse(h, SeqNum(n)) = <<f>>
        BY <1>5 DEF SrpResponse
    <2> HIDE DEF f
    <2>4. b => f.seq + 1 \in Received(r)
        BY <1>1, <2>1
    <2>5. f \in From(b, r, q)
        BY <2>1, <2>2, <2>4 DEF From, IsFrom, Frames
    <2> QED
        BY <2>3, <2>5 DEF h
<1> QED
    BY <1>4, <1>5

LEMMA CommandTurn ==
    ASSUME IInv, NEW t \in Terminals, ~srp[t].failed, NEW f \in Commands,
           Short => f \in From(Exact, srp[Peer(t)], srp[t])
    PROVE  Turn(t, Handled(srp[t], f))
<1> DEFINE s == srp[t]
           q == srp[Peer(t)]
           e == SrpGetEventNoFromAL1(s, f)
           c == e.srp
           n == f.pkt
           d == Srp_0_2(c, e.event, n)
           r == Handled(s, f)
           b == Exact
<1>1. /\ IsTerminal(s) /\ IsTerminal(q) /\ Within(t, s) /\ s.out = <<>>
      /\ Short => Ready(b, s, q) /\ Ready(b, q, s)
    BY InvFacts
<1>2. First(s) /\ s.iUseNSRP = use.nsrp[t] /\ s.sent <= use.packets[t] /\ ~s.failed
    BY <1>1 DEF Within
<1>3. n \in Nat \ {0} /\ f \in Frames
    BY DEF Commands, Frames
<1>4. r = c \/ (r = d /\ e.event \in {"COMMAND", "WNSRP_COMMAND"})
    BY HandledCommand
<1> HIDE DEF s, q, n, r, b
<1>5. ASSUME NEW F, Offers(F, s)
      PROVE  Sends(F, s, c) /\ (e.event = "COMMAND" => f.kind = "SRP_COMMAND")
    <2>1. Good(F, s)
        BY <1>1, <1>2, <1>5 DEF Good
    <2> QED
        BY <1>3, <2>1, GetEventSends
<1> HIDE DEF c, e
<1>6. Sends(Frames, s, c) /\ (e.event = "COMMAND" => f.kind = "SRP_COMMAND")
    BY <1>1, <1>5, FramesOffered
<1>7. /\ IsTerminal(c) /\ First(c) /\ SameReceiver(s, c) /\ c.sent = s.sent
      /\ c.iSrpWaitQueue = s.iSrpWaitQueue
    BY <1>6 DEF Sends, Good
<1>8. Within(t, c)
    BY <1>2, <1>7 DEF Within, SameReceiver
<1>9. ASSUME Short
      PROVE  /\ Grows(s, c) /\ Ready(b, c, q) /\ Ready(b, q, c) /\ Received(c) = Received(s)
             /\ c.out \in Seq(From(b, c, q)) /\ c.sent \in Nat
    <2>1. Ready(b, s, q) /\ Ready(b, q, s)
        BY <1>1, <1>9
    <2>2. /\ Ready(b, c, q) /\ Ready(b, q, c) /\ From(b, c, q) = From(b, s, q)
          /\ Received(c) = Received(s)
        BY <1>7, <2>1, SendsFacts
    <2>3. Offers(From(b, s, q), s)
        <3>1. q.iFirstCmd => s.sent = 0 \/ (s.iSrpWaitQueue # <<>> /\ s.iSrpWaitQueue[1] = 1)
            BY <1>2, <2>1 DEF Ready
        <3> QED
            BY <1>1, <1>2, <3>1, FromOffered
    <2>4. c.out \in Seq(From(b, c, q))
        BY <1>5, <2>2, <2>3 DEF Sends, Good
    <2>5. c.sent \in Nat
        BY <1>7 DEF IsTerminal
    <2>6. Grows(s, c)
        BY <1>7, <2>2, <2>5 DEF Grows, SameReceiver
    <2> QED
        BY <2>2, <2>4, <2>5, <2>6
<1>10. CASE r = c
    BY <1>7, <1>8, <1>9, <1>10 DEF Turn, s, q, r, b
<1>11. CASE r = d /\ e.event \in {"COMMAND", "WNSRP_COMMAND"}
    <2>1. /\ IsTerminal(d) /\ SameSender(c, d) /\ ~d.iFirstCmd
          /\ \/ d.out = c.out
             \/ d.out = c.out \o SrpResponse(Header(c, e.event), SeqNum(n))
        BY <1>3, <1>7, Srp_0_2Typed
    <2> HIDE DEF d
    <2>2. First(d)
        BY <1>7, <2>1 DEF First, SameSender
    <2>3. Within(t, d)
        BY <1>8, <2>1, <2>2 DEF Within, SameSender
    <2>4. ASSUME Short
          PROVE  /\ Grows(s, d) /\ Ready(b, d, q) /\ Ready(b, q, d)
                 /\ d.out \in Seq(From(b, d, q))
        <3> DEFINE N == q.sent
        <3>1. /\ Grows(s, c) /\ Ready(b, c, q) /\ Ready(b, q, c) /\ Received(c) = Received(s)
              /\ c.out \in Seq(From(b, c, q)) /\ c.sent \in Nat
            BY <1>9, <2>4
        <3>2. /\ n <= N /\ (f.kind = "SRP_COMMAND" /\ s.iFirstCmd => n = 1)
            BY <2>4 DEF From, IsFrom, s, q, b, n
        <3>3. N \in Nat /\ N < SeqModulus /\ Ordered(c, N) /\ (b => 2 * N <= SeqModulus)
            BY <1>1, <3>1 DEF IsTerminal, Ready
        <3> HIDE DEF N
        <3>4. n \in 1..N /\ (e.event = "COMMAND" /\ c.iFirstCmd => n = 1)
            BY <1>3, <1>6, <1>7, <3>2, <3>3 DEF SameReceiver
        <3>5. /\ Ordered(d, N) /\ Received(c) \subseteq Received(d)
              /\ 2 * N <= SeqModulus => d.out = c.out \/ n \in Received(d)
            BY <1>7, <1>11, <3>3, <3>4, Srp_0_2Ordered DEF d
        <3>6. Grows(c, d) /\ d.sent = c.sent
            BY <2>1, <3>1, <3>5 DEF Grows, SameSender
        <3>7. Grows(s, d)
            BY <1>7, <2>1, <3>1, <3>5, <3>6 DEF Grows
        <3>8. Ready(b, d, q)
            BY <2>1, <3>1 DEF Ready, SameSender
        <3>9. Ready(b, q, d)
            <4>1. Received(c) \subseteq Received(d) /\ (d.iFirstCmd => c.iFirstCmd)
                BY <2>1, <3>5
            <4> QED
                BY <3>1, <3>3, <3>5, <4>1 DEF Ready, N
        <3>10. From(b, c, q) \subseteq From(b, d, q)
            BY <3>1, <3>6, FromGrows
        <3>11. c.out \in Seq(From(b, d, q))
            BY <3>1, <3>10, SeqLarger
        <3>12. CASE d.out = c.out
            BY <3>7, <3>8, <3>9, <3>11, <3>12
        <3>13. CASE /\ d.out = c.out \o SrpResponse(Header(c, e.event), SeqNum(n))
                    /\ d.out # c.out
            <4>1. b => c.iUseNSRP /\ n \in Received(d)
                BY <3>1, <3>3, <3>5, <3>13 DEF Ready
            <4>2. n < SeqModulus
                BY <3>3, <3>4, ConstantsTyped
            <4>3. SrpResponse(Header(c, e.event), SeqNum(n)) \in Seq(From(b, d, q))
                BY <1>3, <1>7, <2>1, <4>1, <4>2, ExactIs, AnswerFrom DEF b
            <4>4. d.out \in Seq(From(b, d, q))
                BY <3>11, <3>13, <4>3, ConcatProperties
            <4> QED
                BY <3>7, <3>8, <3>9, <4>4
        <3> QED
            BY <2>1, <3>12, <3>13
    <2>5. Turn(t, d)
        BY <2>1, <2>3, <2>4 DEF Turn, s, q, b
    <2> QED
        BY <1>11, <2>5 DEF r, s
<1> QED
    BY <1>4, <1>10, <1>11

LEMMA ResponseTurn ==
    ASSUME IInv, NEW t \in Terminals, ~srp[t].failed, NEW f \in Frames, f \notin Commands,
           Short => f \in From(Exact, srp[Peer(t)], srp[t])
    PROVE  Turn(t, Handled(srp[t], f))
<1> DEFINE s == srp[t]
           q == srp[Peer(t)]
           r == Handled(s, f)
           b == Exact
<1>1. /\ IsTerminal(s) /\ IsTerminal(q) /\ Within(t, s) /\ s.out = <<>>
      /\ Short => Ready(b, s, q) /\ Ready(b, q, s)
    BY InvFacts
<1>2. First(s) /\ s.iUseNSRP = use.nsrp[t] /\ s.sent <= use.packets[t] /\ ~s.failed
    BY <1>1 DEF Within
<1> HIDE DEF s, q, r, b
<1>3. ASSUME NEW F, Offers(F, s), OffersAll(F, s)
      PROVE  Answers(F, s, r) /\ (s.iUseNSRP /\ f \in Responses => Kept(s, r, f.seq))
    <2>1. Good(F, s)
        BY <1>1, <1>2, <1>3 DEF Good
    <2> QED
        BY <1>3, <2>1, HandledResponse DEF r
<1>4. Answers(Frames, s, r) /\ (s.iUseNSRP /\ f \in Responses => Kept(s, r, f.seq))
    BY <1>1, <1>3, FramesOffered
<1>5. /\ IsTerminal(r) /\ First(r) /\ SameReceiver(s, r) /\ r.sent = s.sent
    BY <1>4 DEF Answers, Good
<1>6. Within(t, r)
    BY <1>2, <1>5 DEF Within, SameReceiver
<1>7. ASSUME Short
      PROVE  /\ Grows(s, r) /\ Ready(b, r, q) /\ Ready(b, q, r)
             /\ r.out \in Seq(From(b, r, q))
    <2>1. Ready(b, s, q) /\ Ready(b, q, s)
        BY <1>1, <1>7
    <2>2. ~q.iFirstCmd /\ (b => f \in Responses /\ f.seq + 1 \in Received(q))
        BY <1>7 DEF From, IsFrom, s, q, b
    <2>3. OffersAll(From(b, s, q), s) /\ Offers(From(b, s, q), s)
        BY <1>1, <1>2, <2>2, FromOffered
    <2>4. r.out \in Seq(From(b, s, q))
        BY <1>3, <2>3 DEF Answers, Good
    <2>5. Received(r) = Received(s) /\ r.iFirstCmd = s.iFirstCmd /\ s.sent \in Nat
        BY <1>1, <1>5 DEF Received, SameReceiver, IsTerminal
    <2>6. Grows(s, r)
        BY <1>5, <2>5 DEF Grows
    <2>7. r.out \in Seq(From(b, r, q))
        BY <1>5, <2>4, <2>5, <2>6, FromGrows, SeqLarger
    <2>8. Ready(b, q, r)
        <3>1. \A N : Ordered(s, N) => Ordered(r, N)
            BY <1>5 DEF Ordered, SameReceiver
        <3> QED
            BY <2>1, <2>5, <3>1 DEF Ready
    <2>9. ASSUME b
          PROVE  1..r.sent \subseteq ToSet(r.iSrpWaitQueue) \cup Received(q)
        <3>1. Kept(s, r, f.seq) /\ f.seq + 1 \in Received(q)
            BY <1>4, <2>1, <2>2, <2>9 DEF Ready
        <3>2. 1..s.sent \subseteq ToSet(s.iSrpWaitQueue) \cup Received(q) /\ s.sent < SeqModulus
            BY <1>2, <2>1, <2>9 DEF Ready
        <3>3. ASSUME NEW n \in 1..s.sent
              PROVE  n \in ToSet(r.iSrpWaitQueue) \cup Received(q)
            <4>1. n \in 1..SeqModulus /\ n \in Nat
                BY <2>5, <3>2, ConstantsTyped
            <4>2. SeqNum(n) = n - 1
                BY <4>1, SeqNumTyped
            <4>3. SeqNum(n) = f.seq => n \in Received(q)
                <5>1. SeqNum(n) + 1 = n
                    BY <4>1, <4>2
                <5> QED
                    BY <3>1, <5>1
            <4>4. n \in ToSet(s.iSrpWaitQueue) \cup Received(q)
                BY <3>2
            <4> QED
                BY <3>1, <4>3, <4>4 DEF Kept
        <3> QED
            BY <1>5, <3>3
    <2>10. Ready(b, r, q)
        BY <1>5, <2>1, <2>2, <2>9 DEF Ready, SameReceiver
    <2> QED
        BY <2>6, <2>7, <2>8, <2>10
<1>8. Turn(t, r)
    BY <1>5, <1>6, <1>7 DEF Turn, s, q, b
<1> QED
    BY <1>8 DEF r, s

LEMMA LowerLayerRxKeeps ==
    ASSUME IInv, NEW t \in Terminals, LowerLayerRx(t)
    PROVE  IInv'
<1> DEFINE f == Head(link[t])
           rest == Tail(link[t])
<1>1. link[t] # <<>> /\ ~srp[t].failed /\ Finish(t, Handled(srp[t], f), rest)
    BY LowerLayerRxIs
<1>2. \A F : link[t] \in Seq(F) => f \in F /\ rest \in Seq(F)
    BY <1>1
<1>3. f \in Frames /\ (Short => f \in From(Exact, srp[Peer(t)], srp[t]))
    BY <1>2, InvFacts
<1> HIDE DEF f, rest
<1>4. Turn(t, Handled(srp[t], f))
    BY <1>1, <1>3, CommandTurn, ResponseTurn
<1> QED
    BY <1>1, <1>2, <1>4, FinishKeeps

(* A terminal that fails says nothing more, and its queue means nothing.   *)
LEMMA FailedTurn ==
    ASSUME IInv, NEW t \in Terminals, NEW r, IsTerminal(r), r.failed, r.out = <<>>,
           r.sent = srp[t].sent, r.iUseNSRP = srp[t].iUseNSRP, SameReception(srp[t], r)
    PROVE  Turn(t, r)
<1> DEFINE s == srp[t]
           q == srp[Peer(t)]
           b == Exact
<1>1. /\ IsTerminal(s) /\ Within(t, s)
      /\ Short => Ready(b, s, q) /\ Ready(b, q, s)
    BY InvFacts
<1> HIDE DEF q, b
<1>2. Within(t, r)
    BY <1>1 DEF Within
<1>3. Received(r) = Received(s) /\ r.iFirstCmd = s.iFirstCmd /\ s.sent \in Nat
    BY <1>1 DEF Received, SameReception, IsTerminal
<1>4. Grows(s, r)
    BY <1>3 DEF Grows
<1>5. \A N : Ordered(s, N) => Ordered(r, N)
    BY DEF Ordered, SameReception
<1>6. Ready(b, s, q) => Ready(b, r, q)
    BY DEF Ready
<1>7. Ready(b, q, s) => Ready(b, q, r)
    BY <1>3, <1>5 DEF Ready
<1>8. r.out \in Seq(From(b, r, q))
    OBVIOUS
<1> QED
    BY <1>1, <1>2, <1>4, <1>6, <1>7, <1>8 DEF Turn, q, b

LEMMA AgainTurn ==
    ASSUME IInv, NEW t \in Terminals, ~srp[t].failed, NEW r,
           \A F : Good(F, srp[t]) => Sends(F, srp[t], r)
    PROVE  Turn(t, r)
<1> DEFINE s == srp[t]
           q == srp[Peer(t)]
           b == Exact
<1>1. /\ IsTerminal(s) /\ Within(t, s) /\ s.out = <<>>
      /\ Short => Ready(b, s, q) /\ Ready(b, q, s)
    BY InvFacts
<1>2. ~s.failed
    OBVIOUS
<1>3. \A F : Good(F, s) => Sends(F, s, r)
    OBVIOUS
<1> HIDE DEF s, q, b
<1>4. First(s)
    BY <1>1, <1>2 DEF Within
<1>5. ASSUME NEW F, Offers(F, s)
      PROVE  Sends(F, s, r)
    BY <1>1, <1>3, <1>4, <1>5 DEF Good
<1>6. Sends(Frames, s, r)
    BY <1>1, <1>5, FramesOffered
<1>7. /\ IsTerminal(r) /\ First(r) /\ SameReceiver(s, r) /\ r.sent = s.sent
      /\ r.iSrpWaitQueue = s.iSrpWaitQueue
    BY <1>6 DEF Sends, Good
<1>8. Within(t, r)
    BY <1>1, <1>7 DEF Within, SameReceiver
<1>9. ASSUME Short
      PROVE  /\ Grows(s, r) /\ Ready(b, r, q) /\ Ready(b, q, r)
             /\ r.out \in Seq(From(b, r, q))
    <2>1. Ready(b, s, q) /\ Ready(b, q, s)
        BY <1>1, <1>9
    <2>2. /\ Ready(b, r, q) /\ Ready(b, q, r) /\ From(b, r, q) = From(b, s, q)
          /\ Received(r) = Received(s)
        BY <1>7, <2>1, SendsFacts
    <2>3. Offers(From(b, s, q), s)
        <3>1. q.iFirstCmd => s.sent = 0 \/ (s.iSrpWaitQueue # <<>> /\ s.iSrpWaitQueue[1] = 1)
            BY <1>2, <2>1 DEF Ready
        <3> QED
            BY <1>1, <1>2, <3>1, FromOffered
    <2>4. r.out \in Seq(From(b, r, q))
        BY <1>5, <2>2, <2>3 DEF Sends, Good
    <2>5. s.sent \in Nat
        BY <1>1 DEF IsTerminal
    <2>6. Grows(s, r)
        BY <1>7, <2>2, <2>5 DEF Grows, SameReceiver
    <2> QED
        BY <2>2, <2>4, <2>6
<1> QED
    BY <1>7, <1>8, <1>9 DEF Turn, s, q, b

LEMMA ClearedTyped ==
    ASSUME NEW T, NEW q \in Seq(T), NEW seq
    PROVE  Cleared(q, seq) \in Seq(T)
<1>1. PICK i \in 0..Len(q) : Cleared(q, seq) = IF i = 0 THEN q ELSE RemoveAt(q, i)
    BY ClearedAt
<1>2. i = 0 \/ i \in 1..Len(q)
    BY <1>1
<1>3. i \in 1..Len(q) => RemoveAt(q, i) \in Seq(T)
    BY RemoveAtTyped
<1> QED
    BY <1>1, <1>2, <1>3

(* TimeoutOccurred: the command is sent again, or the terminal fails.      *)
SrpTimedOut(s) ==
    IF s.iSrpCommandSave.N400Counter < N400Max
    THEN [LowerLayerTx(s, <<Command("SRP_COMMAND", s.iSrpCommandSave.pkt)>>)
            EXCEPT !.iSrpCommandSave.N400Counter = @ + 1]
    ELSE Fail([SrpCommandClear(s, SeqNum(s.iSrpCommandSave.pkt))
                  EXCEPT !.iSrpCommandSave = NoTimer])

WnsrpTimedOut(s, i) ==
    LET n == s.iActiveWnsrpCommandSave[i].pkt
    IN  IF s.iActiveWnsrpCommandSave[i].N400Counter < N400Max
        THEN [LowerLayerTx(s, <<Command("WNSRP_COMMAND", n)>>)
                EXCEPT !.iActiveWnsrpCommandSave[i].N400Counter = @ + 1]
        ELSE Fail(RemoveActive(SrpCommandClear(s, SeqNum(n)), i))

IsTimedOut(s, r) ==
    /\ IsTerminal(r)
    /\ \/ /\ r.failed /\ r.out = <<>> /\ r.sent = s.sent /\ r.iUseNSRP = s.iUseNSRP
          /\ SameReception(s, r)
       \/ (\A F : Good(F, s) => Sends(F, s, r)) /\ SameTimers(s, r)

LEMMA SrpTimedOutIs ==
    ASSUME NEW s, IsTerminal(s), First(s), s.out = <<>>, s.iSrpCommandSave # NoTimer
    PROVE  IsTimedOut(s, SrpTimedOut(s))
<1> DEFINE again == [LowerLayerTx(s, <<Command("SRP_COMMAND", s.iSrpCommandSave.pkt)>>)
                        EXCEPT !.iSrpCommandSave.N400Counter = @ + 1]
           w == Cleared(s.iSrpWaitQueue, SeqNum(s.iSrpCommandSave.pkt))
           over == [s EXCEPT !.iSrpWaitQueue = w, !.iSrpCommandSave = NoTimer, !.failed = TRUE]
           c == [s EXCEPT !.iSrpWaitQueue = w]
           r == SrpTimedOut(s)
<1>1. r \in {again, over}
    <2>1. SrpCommandClear(s, SeqNum(s.iSrpCommandSave.pkt)) = c
        BY DEF SrpCommandClear, Cleared
    <2> HIDE DEF w
    <2>2. Fail([c EXCEPT !.iSrpCommandSave = NoTimer]) = over
        BY DEF Fail, IsTerminal, SrpStart
    <2> HIDE DEF c, over
    <2> QED
        BY <2>1, <2>2 DEF SrpTimedOut
<1>2. IsTimedOut(s, again)
    <2>1. \A F : Good(F, s) => Sends(F, s, again) /\ SameTimers(s, again)
        BY SrpAgainSends
    <2>2. Good(Frames, s)
        <3>1. s.out \in Seq(Frames)
            OBVIOUS
        <3> QED
            BY <3>1, FramesOffered DEF Good
    <2> HIDE DEF again
    <2> QED
        BY <2>1, <2>2 DEF IsTimedOut, Sends, Good
<1>3. IsTimedOut(s, over)
    <2>1. w \in Seq(1..s.sent)
        BY ClearedTyped DEF IsTerminal
    <2> HIDE DEF w
    <2>2. IsTerminal(over)
        BY <2>1 DEF IsTerminal, SrpStart
    <2>3. /\ over.failed /\ over.out = <<>> /\ over.sent = s.sent /\ over.iUseNSRP = s.iUseNSRP
          /\ SameReception(s, over)
        BY DEF IsTerminal, SrpStart, SameReception
    <2> HIDE DEF over
    <2> QED
        BY <2>2, <2>3 DEF IsTimedOut
<1> HIDE DEF r, again, over
<1> QED
    BY <1>1, <1>2, <1>3 DEF r

LEMMA WnsrpTimedOutIs ==
    ASSUME NEW s, IsTerminal(s), First(s), s.out = <<>>,
           NEW i \in DOMAIN s.iActiveWnsrpCommandSave
    PROVE  IsTimedOut(s, WnsrpTimedOut(s, i))
<1> DEFINE a == s.iActiveWnsrpCommandSave
           n == a[i].pkt
           again == [LowerLayerTx(s, <<Command("WNSRP_COMMAND", n)>>)
                        EXCEPT !.iActiveWnsrpCommandSave[i].N400Counter = @ + 1]
           w == Cleared(s.iSrpWaitQueue, SeqNum(n))
           l == RemoveAt(a, i)
           over == [s EXCEPT !.iSrpWaitQueue = w, !.iActiveWnsrpCommandSave = l,
                             !.failed = TRUE]
           c == [s EXCEPT !.iSrpWaitQueue = w]
           r == WnsrpTimedOut(s, i)
<1>1. a \in Seq(Timers) /\ i \in 1..Len(a) /\ i # 0
    <2>1. a \in Seq(Timers) /\ i \in DOMAIN a
        BY DEF IsTerminal
    <2> HIDE DEF a
    <2> QED
        BY <2>1
<1>2. r \in {again, over}
    <2>1. SrpCommandClear(s, SeqNum(n)) = c
        BY DEF SrpCommandClear, Cleared
    <2>2. c.iActiveWnsrpCommandSave = a
        BY DEF IsTerminal, SrpStart
    <2>3. RemoveActive(c, i) = [c EXCEPT !.iActiveWnsrpCommandSave = l]
        BY <1>1, <2>2 DEF RemoveActive, IsTerminal, SrpStart
    <2> HIDE DEF w, l
    <2>4. Fail([c EXCEPT !.iActiveWnsrpCommandSave = l]) = over
        BY DEF Fail, IsTerminal, SrpStart
    <2> HIDE DEF c, over
    <2> QED
        BY <2>1, <2>3, <2>4 DEF WnsrpTimedOut
<1>3. IsTimedOut(s, again)
    <2>1. \A F : Good(F, s) => Sends(F, s, again) /\ SameTimers(s, again)
        BY WnsrpAgainSends
    <2>2. Good(Frames, s)
        <3>1. s.out \in Seq(Frames)
            OBVIOUS
        <3> QED
            BY <3>1, FramesOffered DEF Good
    <2> HIDE DEF again
    <2> QED
        BY <2>1, <2>2 DEF IsTimedOut, Sends, Good
<1>4. IsTimedOut(s, over)
    <2>1. w \in Seq(1..s.sent) /\ l \in Seq(Timers)
        BY <1>1, ClearedTyped, RemoveAtTyped DEF IsTerminal
    <2> HIDE DEF w, l
    <2>2. IsTerminal(over)
        BY <2>1 DEF IsTerminal, SrpStart
    <2>3. /\ over.failed /\ over.out = <<>> /\ over.sent = s.sent /\ over.iUseNSRP = s.iUseNSRP
          /\ SameReception(s, over)
        BY DEF IsTerminal, SrpStart, SameReception
    <2> HIDE DEF over
    <2> QED
        BY <2>2, <2>3 DEF IsTimedOut
<1> HIDE DEF r, again, over
<1> QED
    BY <1>2, <1>3, <1>4 DEF r

LEMMA TimedOutTurn ==
    ASSUME IInv, NEW t \in Terminals, ~srp[t].failed, NEW r, IsTimedOut(srp[t], r)
    PROVE  Turn(t, r)
BY FailedTurn, AgainTurn DEF IsTimedOut

LEMMA SrpTimeoutKeeps ==
    ASSUME IInv, NEW t \in Terminals, SrpTimeout(t)
    PROVE  IInv'
<1> DEFINE s == srp[t]
           r == SrpTimedOut(s)
<1>1. ~s.failed /\ s.iSrpCommandSave # NoTimer /\ Finish(t, r, link[t])
    BY DEF SrpTimeout, SrpTimedOut
<1>2. IsTerminal(s) /\ First(s) /\ s.out = <<>>
    BY <1>1, InvFacts DEF Within
<1>3. Turn(t, r)
    BY <1>1, <1>2, SrpTimedOutIs, TimedOutTurn
<1> QED
    BY <1>1, <1>3, FinishKeeps

LEMMA WnsrpTimeoutKeeps ==
    ASSUME IInv, NEW t \in Terminals, NEW i, WnsrpTimeout(t, i)
    PROVE  IInv'
<1> DEFINE s == srp[t]
           r == WnsrpTimedOut(s, i)
<1>1. ~s.failed /\ i \in DOMAIN s.iActiveWnsrpCommandSave /\ Finish(t, r, link[t])
    BY DEF WnsrpTimeout, WnsrpTimedOut
<1>2. IsTerminal(s) /\ First(s) /\ s.out = <<>>
    BY <1>1, InvFacts DEF Within
<1>3. Turn(t, r)
    BY <1>1, <1>2, WnsrpTimedOutIs, TimedOutTurn
<1> QED
    BY <1>1, <1>3, FinishKeeps
-----------------------------------------------------------------------------
(* While a packet waits, a timer runs.  K is the last packet that was sent *)
(* as SRP: an NSRP response is for one up to K, so none but the head of    *)
(* the queue can be answered by one, and another command is in flight then *)
(* unless the head is alone.                                               *)
Increasing(q) == \A i, j \in 1..Len(q) : i < j => q[i] < q[j]

Runs(s, K) ==
    LET q == s.iSrpWaitQueue
        a == s.iActiveWnsrpCommandSave
    IN  /\ K \in 0..s.sent /\ Increasing(q)
        /\ Len(q) > 0 => s.iStatus = "WAIT_RESPONSE"
        /\ s.iSrpCommandSave # NoTimer => q[1] <= K
        /\ s.iCurWnsrpStatus # "FULL_SUPPORT" /\ s.iStatus = "WAIT_RESPONSE"
                => s.iSrpCommandSave # NoTimer
        /\ s.iCurWnsrpStatus # "NO_SUPPORT" =>
                /\ Len(q) > 0 => Len(a) > 0
                /\ \A i \in 2..Len(q) : q[i] > K
                /\ Len(q) > 1 /\ q[1] <= K => Len(a) > 1

(* The frames a terminal sends of its own, and what its peer may get and   *)
(* may answer.                                                             *)
Own(K) == {f \in Commands : f.kind = "SRP_COMMAND" => f.pkt <= K}
ToPeer(K) == {f \in Frames : f.kind = "SRP_COMMAND" => f.pkt <= K}
FromPeer(K) == {f \in Frames : f.kind = "NSRP_RESPONSE" => f.seq + 1 <= K}

LEMMA OwnFrames ==
    /\ \A K, L \in Nat : K <= L => /\ Own(K) \subseteq Own(L)
                                   /\ ToPeer(K) \subseteq ToPeer(L)
                                   /\ FromPeer(K) \subseteq FromPeer(L)
    /\ \A K, L \in Nat : Own(K) \subseteq ToPeer(K) /\ Own(K) \subseteq FromPeer(L)
<1>1. ASSUME NEW K \in Nat, NEW L \in Nat, K <= L
      PROVE  /\ Own(K) \subseteq Own(L) /\ ToPeer(K) \subseteq ToPeer(L)
             /\ FromPeer(K) \subseteq FromPeer(L)
    <2>1. \A f \in Frames : f.kind = "SRP_COMMAND" => f.pkt \in Nat
        BY DEF Frames, Commands, Responses
    <2>2. \A f \in Frames : f.kind = "NSRP_RESPONSE" => f.seq \in Nat
        BY ConstantsTyped DEF Frames, Commands, Responses
    <2>3. Commands \subseteq Frames
        BY DEF Frames
    <2> QED
        BY <1>1, <2>1, <2>2, <2>3 DEF Own, ToPeer, FromPeer
<1>2. ASSUME NEW K \in Nat, NEW L \in Nat
      PROVE  Own(K) \subseteq ToPeer(K) /\ Own(K) \subseteq FromPeer(L)
    BY DEF Own, ToPeer, FromPeer, Frames, Commands
<1> QED
    BY <1>1, <1>2

LEMMA OwnOffered ==
    ASSUME NEW s, IsTerminal(s), NEW K \in Nat,
           s.iCurWnsrpStatus # "FULL_SUPPORT" /\ Len(s.iSrpWaitQueue) > 0
                => s.iSrpWaitQueue[1] <= K
    PROVE  /\ Offers(Own(K), s)
           /\ s.iCurWnsrpStatus = "FULL_SUPPORT" => OffersAll(Own(K), s)
<1> DEFINE q == s.iSrpWaitQueue
<1>1. /\ Len(q) \in Nat /\ (q = <<>> <=> Len(q) = 0)
      /\ \A i \in 1..Len(q) : q[i] \in Nat \ {0}
      /\ q # <<>> => 1 \in 1..Len(q)
    BY QueueTyped
<1>2. \A n \in Nat \ {0} : /\ Command("WNSRP_COMMAND", n) \in Own(K)
                           /\ n <= K => Command("SRP_COMMAND", n) \in Own(K)
    BY DEF Own, Commands, Command
<1> HIDE DEF q
<1>3. \A i \in 1..Len(q) : Command("WNSRP_COMMAND", q[i]) \in Own(K)
    BY <1>1, <1>2
<1>4. q # <<>> /\ s.iCurWnsrpStatus # "FULL_SUPPORT" => Command("SRP_COMMAND", q[1]) \in Own(K)
    BY <1>1, <1>2 DEF q
<1> QED
    BY <1>3, <1>4 DEF Offers, OffersAll, q

(* A step of the sender: what it is afterwards, with all it sent.          *)
RunsOn(r, K) == \E L \in K..r.sent : Runs(r, L) /\ r.out \in Seq(Own(L))

LEMMA SendNextRuns ==
    ASSUME NEW F, NEW s, Good(F, s), Len(s.iActiveWnsrpCommandSave) < TxWindow,
           s.iSrpCommandSave = NoTimer, s.iStatus = "WAIT_RESPONSE",
           NEW K \in 0..s.sent, s.out \in Seq(Own(K)), Increasing(s.iSrpWaitQueue),
           s.iCurWnsrpStatus # "NO_SUPPORT" =>
              /\ \A i \in 2..Len(s.iSrpWaitQueue) : s.iSrpWaitQueue[i] > K
              /\ Len(s.iSrpWaitQueue) > 1
                 /\ (s.iSrpWaitQueue[1] <= K \/ s.iCurWnsrpStatus # "FULL_SUPPORT")
                     => Len(s.iActiveWnsrpCommandSave) > 0
    PROVE  RunsOn(SendNext(s), K)
<1> DEFINE q == s.iSrpWaitQueue
           a == s.iActiveWnsrpCommandSave
           r == SendNext(s)
           L == IF s.iCurWnsrpStatus # "FULL_SUPPORT" /\ Len(q) > 0 /\ q[1] > K THEN q[1] ELSE K
<1>1. /\ Len(q) \in Nat /\ (q = <<>> <=> Len(q) = 0) /\ s.sent \in Nat
      /\ \A i \in 1..Len(q) : q[i] \in Nat \ {0}
      /\ Len(q) > 0 => q[1] \in 1..s.sent
    <2>1. IsTerminal(s)
        BY DEF Good
    <2>2. s.sent \in Nat
        BY <2>1 DEF IsTerminal
    <2>3. /\ Len(q) \in Nat /\ (q = <<>> <=> Len(q) = 0)
          /\ \A i \in 1..Len(q) : q[i] \in Nat \ {0}
          /\ q # <<>> => q[1] \in 1..s.sent
        BY <2>1, QueueTyped
    <2> QED
        BY <2>2, <2>3
<1>2. Len(a) \in Nat /\ Len(a) <= Len(q)
    <2>1. a \in Seq(Timers) /\ Len(a) <= Len(q)
        BY DEF Good, IsTerminal, First
    <2> QED
        BY <2>1
<1>3. L \in K..s.sent /\ K \in Nat /\ L \in Nat /\ K <= L
    BY <1>1
<1>4. s.iCurWnsrpStatus # "FULL_SUPPORT" /\ Len(q) > 0 => q[1] <= L
    BY <1>1
<1>5. Sends(Own(L), s, r)
    <2>1. s.out \in Seq(Own(L))
        BY <1>3, OwnFrames, SeqLarger
    <2>2. Good(Own(L), s)
        BY <1>3, <1>4, <2>1, OwnOffered DEF Good
    <2> QED
        BY <2>2, SendNextSends
<1>6. /\ r.iCurWnsrpStatus = s.iCurWnsrpStatus /\ r.iSrpWaitQueue = q /\ r.sent = s.sent
      /\ IF s.iCurWnsrpStatus # "FULL_SUPPORT" /\ Len(q) > 0
         THEN r.iSrpCommandSave # NoTimer ELSE r.iSrpCommandSave = NoTimer
      /\ s.iCurWnsrpStatus # "NO_SUPPORT"
            => \/ Len(r.iActiveWnsrpCommandSave) = Len(a) + 1
               \/ Len(r.iActiveWnsrpCommandSave) = Len(q)
      /\ r.iStatus = IF r.iSrpCommandSave = NoTimer /\ r.iActiveWnsrpCommandSave = <<>>
                     THEN "IDLE" ELSE "WAIT_RESPONSE"
    BY <1>1, SendNextIs DEF SendsBoth, Flying
<1>7. /\ Len(r.iActiveWnsrpCommandSave) \in Nat
      /\ Len(r.iActiveWnsrpCommandSave) <= Len(q)
      /\ r.iActiveWnsrpCommandSave = <<>> <=> Len(r.iActiveWnsrpCommandSave) = 0
    <2>1. r.iActiveWnsrpCommandSave \in Seq(Timers) /\ Len(r.iActiveWnsrpCommandSave) <= Len(q)
        BY <1>5, <1>6 DEF Sends, Good, IsTerminal, First
    <2> QED
        BY <2>1
<1>8. s.iCurWnsrpStatus # "NO_SUPPORT" => \A i \in 2..Len(q) : q[i] > L
    <2> SUFFICES ASSUME s.iCurWnsrpStatus # "NO_SUPPORT", NEW i \in 2..Len(q)
                 PROVE  q[i] > L
        OBVIOUS
    <2>1. q[i] > K /\ i \in 1..Len(q) /\ 1 \in 1..Len(q) /\ 1 < i
        BY <1>1
    <2>2. q[i] > q[1]
        BY <2>1, <1>1 DEF Increasing
    <2> QED
        BY <2>1, <2>2
<1> HIDE DEF r, L
<1> DEFINE n == Len(r.iActiveWnsrpCommandSave)
<1>9. Len(q) > 0 => r.iStatus = "WAIT_RESPONSE"
    BY <1>1, <1>2, <1>6, <1>7
<1>10. r.iCurWnsrpStatus # "FULL_SUPPORT" /\ r.iStatus = "WAIT_RESPONSE"
          => r.iSrpCommandSave # NoTimer
    BY <1>1, <1>2, <1>6, <1>7
<1>11. r.iCurWnsrpStatus # "NO_SUPPORT" =>
            /\ Len(q) > 0 => n > 0
            /\ Len(q) > 1 /\ q[1] <= L => n > 1
    <2>1. r.iCurWnsrpStatus # "NO_SUPPORT" /\ Len(q) > 1 /\ q[1] <= L => Len(a) > 0
        BY <1>6 DEF L
    <2> QED
        BY <1>1, <1>2, <1>6, <1>7, <2>1
<1>12. Runs(r, L)
    BY <1>3, <1>4, <1>6, <1>8, <1>9, <1>10, <1>11, <1>1 DEF Runs
<1>13. r.out \in Seq(Own(L))
    BY <1>5 DEF Sends, Good
<1> QED
    BY <1>3, <1>6, <1>12, <1>13 DEF RunsOn, r

LEMMA TakenIncreases ==
    ASSUME NEW q \in Seq(Nat), Increasing(q), NEW a, NEW u \in Seq(Nat), NEW v, NEW seq, NEW i,
           TakenFrom(q, a, u, v, seq, i)
    PROVE  Increasing(u)
<1>1. PICK k \in 0..Len(q) :
        /\ k = 0 => u = q
        /\ k # 0 => /\ Len(u) = Len(q) - 1
                    /\ \A j \in 1..Len(u) : u[j] = IF j < k THEN q[j] ELSE q[j + 1]
    BY DEF TakenFrom
<1>2. CASE k = 0
    BY <1>1, <1>2
<1>3. CASE k # 0
    <2> SUFFICES ASSUME NEW j \in 1..Len(u), NEW m \in 1..Len(u), j < m
                 PROVE  u[j] < u[m]
        BY DEF Increasing
    <2> DEFINE x == IF j < k THEN j ELSE j + 1
               y == IF m < k THEN m ELSE m + 1
    <2>0. /\ k \in Nat /\ Len(q) \in Nat /\ Len(u) = Len(q) - 1
          /\ j \in Nat /\ m \in Nat /\ 1 <= j /\ m <= Len(u)
        BY <1>1, <1>3
    <2>1. x \in 1..Len(q) /\ y \in 1..Len(q) /\ x < y
        BY <2>0
    <2>2. u[j] = q[x] /\ u[m] = q[y]
        BY <1>1, <1>3
    <2> HIDE DEF x, y
    <2> QED
        BY <2>1, <2>2 DEF Increasing
<1> QED
    BY <1>2, <1>3

(* What the numbers of a queue and of the timers are.                      *)
LEMMA RunsTyped ==
    ASSUME NEW s, IsTerminal(s), First(s)
    PROVE  LET q == s.iSrpWaitQueue
               a == s.iActiveWnsrpCommandSave
           IN  /\ q \in Seq(Nat) /\ Len(q) \in Nat /\ (q = <<>> <=> Len(q) = 0)
               /\ Len(a) \in Nat /\ Len(a) <= Len(q) /\ s.sent \in Nat
               /\ \A i \in 1..Len(q) : q[i] \in Nat \ {0} /\ q[i] <= s.sent
               /\ s.iCurWnsrpStatus \in {"NO_SUPPORT", "TX_SUPPORT", "FULL_SUPPORT"}
<1> DEFINE q == s.iSrpWaitQueue
           a == s.iActiveWnsrpCommandSave
<1>1. /\ q \in Seq(Nat \ {0}) /\ Len(q) \in Nat /\ (q = <<>> <=> Len(q) = 0)
      /\ \A i \in 1..Len(q) : q[i] \in Nat \ {0} /\ q[i] \in 1..s.sent
    BY QueueTyped
<1>2. /\ a \in Seq(Timers) /\ s.sent \in Nat
      /\ s.iCurWnsrpStatus \in {"NO_SUPPORT", "TX_SUPPORT", "FULL_SUPPORT"}
    BY DEF IsTerminal
<1>3. Len(a) <= Len(q)
    BY DEF First
<1> HIDE DEF q, a
<1>4. q \in Seq(Nat)
    BY <1>1, SeqLarger
<1>5. \A i \in 1..Len(q) : q[i] <= s.sent
    BY <1>1, <1>2
<1> QED
    BY <1>1, <1>2, <1>3, <1>4, <1>5 DEF q, a

(* The packet of the SRP timer is answered.                                *)
LEMMA HeadTakenRuns ==
    ASSUME NEW s, IsTerminal(s), First(s), NEW K, Runs(s, K), s.iStatus = "WAIT_RESPONSE",
           s.iSrpCommandSave # NoTimer, s.out \in Seq(Own(K)),
           NEW seq, seq = SeqNum(s.iSrpCommandSave.pkt),
           NEW i, IsFirst(i, Running(s.iActiveWnsrpCommandSave, seq))
    PROVE  RunsOn(SendNext([Taken(s, i, seq) EXCEPT !.iSrpCommandSave = NoTimer]), K)
<1> DEFINE q == s.iSrpWaitQueue
           a == s.iActiveWnsrpCommandSave
           c == Taken(s, i, seq)
           d == [c EXCEPT !.iSrpCommandSave = NoTimer]
           u == d.iSrpWaitQueue
           v == d.iActiveWnsrpCommandSave
<1>1. IsTaken(Frames, s, c, i, seq)
    BY TakenTyped, FramesOffered DEF First, Window, IsTerminal
<1>2. c.out = s.out
    BY DEF Taken, IsTerminal, SrpStart
<1> HIDE DEF c
<1>3. c.iCurWnsrpStatus = "NO_SUPPORT" => c.iActiveWnsrpCommandSave = <<>>
    BY <1>1, WithoutNone DEF IsTaken
<1>4. /\ Good(Frames, d) /\ d.sent = c.sent /\ u = c.iSrpWaitQueue
      /\ v = c.iActiveWnsrpCommandSave /\ d.iSrpCommandSave = NoTimer
      /\ d.iStatus = c.iStatus /\ d.iCurWnsrpStatus = c.iCurWnsrpStatus /\ d.out = c.out
    BY <1>1, <1>3, SaveCleared DEF IsTaken
<1> HIDE DEF d
<1>5. Len(v) < TxWindow
    BY <1>1, <1>4, TakenFrees
<1>6. /\ d.sent = s.sent /\ d.iStatus = "WAIT_RESPONSE" /\ d.out = s.out
      /\ d.iCurWnsrpStatus = s.iCurWnsrpStatus /\ TakenFrom(q, a, u, v, seq, i)
    BY <1>1, <1>2, <1>4 DEF IsTaken
<1>7. /\ q \in Seq(Nat) /\ Len(q) \in Nat /\ (q = <<>> <=> Len(q) = 0)
      /\ Len(a) \in Nat /\ Len(a) <= Len(q)
    BY RunsTyped
<1>8. u \in Seq(Nat) /\ Len(u) \in Nat
    BY <1>4, RunsTyped DEF Good
<1>9. q # <<>> /\ q[1] <= K /\ seq = SeqNum(q[1]) /\ Increasing(q) /\ K \in 0..s.sent
    BY DEF First, Runs
<1>10. /\ Len(q) > 0 /\ Len(u) = Len(q) - 1 /\ \A j \in 1..Len(u) : u[j] = q[j + 1]
       /\ Len(a) > 1 => Len(v) > 0
    <2>1. PICK k \in 0..Len(q) :
            /\ IsFirst(k, Matches(q, seq))
            /\ k # 0 => /\ Len(u) = Len(q) - 1
                        /\ \A j \in 1..Len(u) : u[j] = IF j < k THEN q[j] ELSE q[j + 1]
            /\ i # 0 => k = i /\ Len(v) = Len(a) - 1
            /\ i = 0 => v = a /\ (k = 0 \/ k > Len(a))
        BY <1>6 DEF TakenFrom
    <2>2. 1 \in Matches(q, seq)
        BY <1>7, <1>9 DEF Matches
    <2>3. k = 1
        BY <1>7, <2>1, <2>2 DEF IsFirst, Matches
    <2> HIDE DEF u, v
    <2> QED
        BY <1>7, <1>8, <1>9, <2>1, <2>3
<1>11. Increasing(u)
    BY <1>6, <1>7, <1>8, <1>9, TakenIncreases
<1>12. s.iCurWnsrpStatus # "NO_SUPPORT" =>
            /\ \A j \in 2..Len(u) : u[j] > K
            /\ Len(u) > 1 => Len(v) > 0
    <2> SUFFICES ASSUME s.iCurWnsrpStatus # "NO_SUPPORT"
                 PROVE  /\ \A j \in 2..Len(u) : u[j] > K
                        /\ Len(u) > 1 => Len(v) > 0
        OBVIOUS
    <2>1. /\ \A j \in 2..Len(q) : q[j] > K
          /\ Len(q) > 1 /\ q[1] <= K => Len(a) > 1
        BY DEF Runs
    <2>2. /\ Len(q) \in Nat /\ Len(u) \in Nat /\ Len(u) = Len(q) - 1 /\ q[1] <= K
          /\ Len(a) > 1 => Len(v) > 0
          /\ \A j \in 1..Len(u) : u[j] = q[j + 1]
        BY <1>7, <1>8, <1>9, <1>10
    <2> HIDE DEF u, v, q, a
    <2>3. ASSUME NEW j \in 2..Len(u)
          PROVE  u[j] > K
        <3>1. j \in 1..Len(u) /\ j + 1 \in 2..Len(q)
            BY <2>2
        <3> QED
            BY <2>1, <2>2, <3>1
    <2> QED
        BY <2>1, <2>2, <2>3
<1>13. RunsOn(SendNext(d), K)
    BY <1>4, <1>5, <1>6, <1>9, <1>11, <1>12, SendNextRuns
<1> QED
    BY <1>13 DEF d, c

LEMMA RunsItself ==
    ASSUME NEW s, IsTerminal(s), NEW K, Runs(s, K), s.out \in Seq(Own(K))
    PROVE  RunsOn(s, K)
<1>1. s.sent \in Nat /\ K \in 0..s.sent
    BY DEF IsTerminal, Runs
<1>2. K \in K..s.sent
    BY <1>1
<1> QED
    BY <1>2 DEF RunsOn

LEMMA ResponseRuns ==
    ASSUME NEW s, IsTerminal(s), First(s), NEW K, Runs(s, K), s.iStatus = "WAIT_RESPONSE",
           s.out \in Seq(Own(K)), NEW seq
    PROVE  RunsOn(Srp_1_3(s, "RESPONSE", seq), K)
<1>1. CASE s.iSrpCommandSave = NoTimer
    <2>1. Srp_1_3(s, "RESPONSE", seq) = s
        BY <1>1 DEF Srp_1_3
    <2> QED
        BY <2>1, RunsItself
<1>2. CASE s.iSrpCommandSave # NoTimer
    <2> DEFINE number == SeqNum(s.iSrpCommandSave.pkt)
    <2>1. PICK i : /\ IsFirst(i, Running(s.iActiveWnsrpCommandSave, number))
                   /\ Srp_1_3(s, "RESPONSE", seq)
                        = SendNext([Taken(s, i, number) EXCEPT !.iSrpCommandSave = NoTimer])
        BY <1>2, ResponseIs
    <2>2. RunsOn(SendNext([Taken(s, i, number) EXCEPT !.iSrpCommandSave = NoTimer]), K)
        BY <1>2, <2>1, HeadTakenRuns
    <2> QED
        BY <2>1, <2>2
<1> QED
    BY <1>1, <1>2

(* A packet leaves the queue, and nothing is sent.                         *)
LEMMA TakenRuns ==
    ASSUME NEW s, IsTerminal(s), First(s), NEW K, Runs(s, K),
           s.out \in Seq(Own(K)), NEW seq, NEW i, NEW c, IsTaken(Frames, s, c, i, seq),
           c.out = s.out,
           s.iSrpCommandSave # NoTimer => SeqNum(s.iSrpCommandSave.pkt) # seq,
           s.iCurWnsrpStatus # "NO_SUPPORT" =>
              \/ i = 0
              \/ \A k \in 1..Len(s.iSrpWaitQueue) :
                    SeqNum(s.iSrpWaitQueue[k]) = seq => s.iSrpWaitQueue[k] <= K
    PROVE  RunsOn(c, K)
<1> DEFINE q == s.iSrpWaitQueue
           a == s.iActiveWnsrpCommandSave
           u == c.iSrpWaitQueue
           v == c.iActiveWnsrpCommandSave
<1>1. /\ IsTerminal(c) /\ c.sent = s.sent /\ c.iStatus = s.iStatus
      /\ c.iSrpCommandSave = s.iSrpCommandSave /\ c.iCurWnsrpStatus = s.iCurWnsrpStatus
      /\ TakenFrom(q, a, u, v, seq, i)
      /\ q # <<>> /\ SeqNum(q[1]) # seq => u # <<>> /\ u[1] = q[1]
    BY DEF IsTaken
<1>2. /\ q \in Seq(Nat) /\ Len(q) \in Nat /\ (q = <<>> <=> Len(q) = 0)
      /\ Len(a) \in Nat /\ Len(a) <= Len(q) /\ \A j \in 1..Len(q) : q[j] \in Nat
    BY RunsTyped
<1>3. /\ K \in 0..s.sent /\ s.sent \in Nat /\ Increasing(q)
      /\ Len(q) > 0 => s.iStatus = "WAIT_RESPONSE"
      /\ s.iSrpCommandSave # NoTimer => q # <<>> /\ q[1] <= K /\ SeqNum(q[1]) # seq
      /\ s.iCurWnsrpStatus # "FULL_SUPPORT" /\ s.iStatus = "WAIT_RESPONSE"
            => s.iSrpCommandSave # NoTimer
    BY RunsTyped DEF Runs, First
<1>4. /\ u \in Seq(Nat) /\ Len(u) \in Nat
    <2>1. u \in Seq(1..c.sent) /\ c.sent \in Nat
        BY <1>1 DEF IsTerminal
    <2> HIDE DEF u
    <2> QED
        BY <2>1, SeqLarger
<1>5. Increasing(u)
    BY <1>1, <1>2, <1>3, <1>4, TakenIncreases
<1>6. PICK k \in 0..Len(q) :
            /\ IsFirst(k, Matches(q, seq))
            /\ k = 0 => u = q
            /\ k # 0 => /\ Len(u) = Len(q) - 1
                        /\ \A j \in 1..Len(u) : u[j] = IF j < k THEN q[j] ELSE q[j + 1]
            /\ i # 0 => k = i /\ Len(v) = Len(a) - 1
            /\ i = 0 => v = a /\ (k = 0 \/ k > Len(a))
    BY <1>1 DEF TakenFrom
<1>7. s.iCurWnsrpStatus # "NO_SUPPORT" =>
            /\ Len(u) > 0 => Len(v) > 0
            /\ \A j \in 2..Len(u) : u[j] > K
            /\ Len(u) > 1 /\ u[1] <= K => Len(v) > 1
    <2> SUFFICES ASSUME s.iCurWnsrpStatus # "NO_SUPPORT"
                 PROVE  /\ Len(u) > 0 => Len(v) > 0
                        /\ \A j \in 2..Len(u) : u[j] > K
                        /\ Len(u) > 1 /\ u[1] <= K => Len(v) > 1
        OBVIOUS
    <2>1. /\ Len(q) > 0 => Len(a) > 0
          /\ \A j \in 2..Len(q) : q[j] > K
          /\ Len(q) > 1 /\ q[1] <= K => Len(a) > 1
        BY DEF Runs
    <2>2. \/ i = 0
          \/ \A j \in 1..Len(q) : SeqNum(q[j]) = seq => q[j] <= K
        OBVIOUS
    <2>3. k # 0 => k \in 1..Len(q) /\ SeqNum(q[k]) = seq
        BY <1>6 DEF IsFirst, Matches
    <2> HIDE DEF q, a, u, v
    <2>4. \A j \in 1..Len(u) : u[j] = q[j] \/ (j + 1 \in 2..Len(q) /\ u[j] = q[j + 1])
        BY <1>2, <1>4, <1>6
    <2>5. Len(u) <= Len(q) /\ (k # 0 => Len(u) = Len(q) - 1)
        BY <1>2, <1>4, <1>6
    <2>6. K \in Nat
        BY <1>3
    <2>7. ASSUME NEW j \in 2..Len(u)
          PROVE  u[j] > K
        <3>1. j \in 1..Len(u) /\ j \in 2..Len(q)
            BY <1>2, <1>4, <2>5
        <3> QED
            BY <2>1, <2>4, <3>1
    <2>8. CASE i = 0 /\ k = 0
        BY <1>6, <2>1, <2>7, <2>8
    <2>9. CASE i = 0 /\ k # 0
        <3>1. v = a /\ k > Len(a) /\ Len(u) = Len(q) - 1 /\ k \in 1..Len(q)
            BY <1>6, <2>3, <2>9
        <3>2. Len(a) > 0 /\ k > 1
            BY <1>2, <2>1, <3>1
        <3>3. Len(u) > 0 => u[1] = q[1]
            BY <1>4, <1>6, <2>9, <3>2
        <3> QED
            BY <1>2, <1>4, <2>1, <2>7, <3>1, <3>2, <3>3
    <2>10. CASE i # 0
        <3>1. k = i /\ k \in 1..Len(q) /\ q[k] <= K /\ Len(v) = Len(a) - 1
            BY <1>6, <2>2, <2>3, <2>10
        <3>2. k = 1
            BY <1>2, <2>1, <2>6, <3>1
        <3>3. Len(u) = Len(q) - 1 /\ q[1] <= K /\ \A j \in 1..Len(u) : u[j] = q[j + 1]
            BY <1>2, <1>4, <1>6, <2>5, <3>1, <3>2
        <3>4. Len(u) > 0 => u[1] > K
            <4>1. Len(u) > 0 => 1 \in 1..Len(u) /\ 2 \in 2..Len(q)
                BY <1>2, <1>4, <3>3
            <4> QED
                BY <2>1, <3>3, <4>1
        <3>5. Len(u) > 0 => u[1] \in Nat
            BY <1>4
        <3>6. Len(u) > 0 => Len(q) > 1
            BY <1>2, <1>4, <3>3
        <3> QED
            BY <1>2, <1>4, <2>1, <2>6, <2>7, <3>1, <3>3, <3>4, <3>5, <3>6
    <2> QED
        BY <2>8, <2>9, <2>10
<1>8. Len(u) > 0 => s.iStatus = "WAIT_RESPONSE"
    <2>1. Len(u) > 0 => Len(q) > 0
        BY <1>2, <1>4, <1>6
    <2> QED
        BY <1>3, <2>1
<1>9. s.iSrpCommandSave # NoTimer => u[1] <= K
    BY <1>1, <1>3
<1>10. Runs(c, K)
    BY <1>1, <1>3, <1>5, <1>7, <1>8, <1>9 DEF Runs
<1> QED
    BY <1>1, <1>10, RunsItself

LEMMA NsrpResponseRuns ==
    ASSUME NEW s, IsTerminal(s), First(s), NEW K, Runs(s, K), s.iStatus = "WAIT_RESPONSE",
           s.out \in Seq(Own(K)), s.sent < SeqModulus,
           NEW seq \in 0..(SeqModulus - 1), seq + 1 <= K
    PROVE  RunsOn(Srp_1_3(s, "NSRP_RESPONSE", seq), K)
<1> DEFINE i == ActiveIndex(s, seq)
           c == Taken(s, i, seq)
<1>1. IsFirst(i, Running(s.iActiveWnsrpCommandSave, seq))
    BY ActiveIndexFinds DEF IsTerminal
<1>2. Srp_1_3(s, "NSRP_RESPONSE", seq)
        = IF c.iSrpCommandSave # NoTimer /\ SeqNum(c.iSrpCommandSave.pkt) = seq
          THEN SendNext([c EXCEPT !.iSrpCommandSave = NoTimer]) ELSE c
    BY NsrpResponseIs
<1> HIDE DEF i
<1>3. IsTaken(Frames, s, c, i, seq)
    BY <1>1, TakenTyped, FramesOffered DEF First, Window, IsTerminal
<1>4. c.out = s.out /\ c.iSrpCommandSave = s.iSrpCommandSave
    BY DEF Taken, IsTerminal, SrpStart
<1>5. CASE s.iSrpCommandSave # NoTimer /\ SeqNum(s.iSrpCommandSave.pkt) = seq
    <2>1. RunsOn(SendNext([c EXCEPT !.iSrpCommandSave = NoTimer]), K)
        BY <1>1, <1>5, HeadTakenRuns
    <2> HIDE DEF c
    <2> QED
        BY <1>2, <1>4, <1>5, <2>1
<1>6. CASE ~(s.iSrpCommandSave # NoTimer /\ SeqNum(s.iSrpCommandSave.pkt) = seq)
    <2> DEFINE q == s.iSrpWaitQueue
    <2>1. \A k \in 1..Len(q) : q[k] \in Nat \ {0} /\ q[k] <= s.sent /\ s.sent \in Nat
        BY RunsTyped
    <2> HIDE DEF q, c
    <2>2. \A k \in 1..Len(q) : q[k] \in 1..SeqModulus
        BY <2>1, ConstantsTyped
    <2>3. \A k \in 1..Len(q) : SeqNum(q[k]) = q[k] - 1
        BY <2>2, SeqNumTyped
    <2>4. seq \in Nat /\ K \in Nat
        BY ConstantsTyped, RunsTyped DEF Runs
    <2>5. \A k \in 1..Len(q) : SeqNum(q[k]) = seq => q[k] <= K
        BY <2>1, <2>3, <2>4
    <2>6. RunsOn(c, K)
        BY <1>3, <1>4, <1>6, <2>5, TakenRuns DEF q
    <2> QED
        BY <1>2, <1>4, <1>6, <2>6
<1> QED
    BY <1>5, <1>6

LEMMA WnsrpResponseRuns ==
    ASSUME NEW s, IsTerminal(s), First(s), NEW K, Runs(s, K), s.iStatus = "WAIT_RESPONSE",
           s.out \in Seq(Own(K)), s.iCurWnsrpStatus = "FULL_SUPPORT", NEW seq
    PROVE  RunsOn(Srp_1_3(s, "WNSRP_RESPONSE", seq), K)
<1> DEFINE q == s.iSrpWaitQueue
           a == s.iActiveWnsrpCommandSave
           i == ActiveIndex(s, seq)
<1>1. a \in Seq(Timers) /\ Window(q, a) /\ s.iSrpCommandSave = NoTimer
    BY DEF IsTerminal, First, Window
<1>2. IsFirst(i, Running(a, seq))
    BY <1>1, ActiveIndexFinds
<1>3. Srp_1_3(s, "WNSRP_RESPONSE", seq)
        = IF i = 0 THEN Taken(s, i, seq) ELSE SendNext(Taken(ResendBefore(s, i), i, seq))
    BY WnsrpResponseIs
<1> HIDE DEF i
<1>4. /\ K \in 0..s.sent /\ K \in Nat /\ Increasing(q)
      /\ \A j \in 2..Len(q) : q[j] > K
    BY RunsTyped DEF Runs
<1>5. CASE i = 0
    <2> DEFINE c == Taken(s, i, seq)
    <2>1. IsTaken(Frames, s, c, i, seq)
        BY <1>2, TakenTyped, FramesOffered DEF First, Window, IsTerminal
    <2>2. c.out = s.out
        BY DEF Taken, IsTerminal, SrpStart
    <2> HIDE DEF c
    <2>3. RunsOn(c, K)
        BY <1>1, <1>5, <2>1, <2>2, TakenRuns
    <2> QED
        BY <1>3, <1>5, <2>3 DEF c
<1>6. CASE i # 0
    <2> DEFINE s2 == ResendBefore(s, i)
               b == s2.iActiveWnsrpCommandSave
               c == Taken(s2, i, seq)
               u == c.iSrpWaitQueue
               v == c.iActiveWnsrpCommandSave
    <2>1. i \in 1..Len(a)
        BY <1>2, <1>6 DEF IsFirst, Running
    <2>2. OffersAll(Own(K), s)
        BY <1>4, OwnOffered
    <2>3. /\ IsTerminal(s2) /\ OffersAll(Own(K), s2) /\ s2.out \in Seq(Own(K))
          /\ Window(s2.iSrpWaitQueue, b)
          /\ Len(b) = Len(a) /\ \A j \in 1..Len(a) : b[j].pkt = a[j].pkt
          /\ s2.sent = s.sent /\ s2.iSrpWaitQueue = q /\ SameModes(s, s2)
        BY <1>1, <2>1, <2>2, ResendTyped
    <2>4. Running(b, seq) = Running(a, seq)
        BY <2>3 DEF Running
    <2> HIDE DEF s2
    <2>5. IsTaken(Own(K), s2, c, i, seq)
        BY <1>2, <2>3, <2>4, TakenTyped
    <2> HIDE DEF c
    <2>6. /\ IsTerminal(c) /\ c.sent = s.sent /\ c.iSrpCommandSave = NoTimer
          /\ c.iCurWnsrpStatus = "FULL_SUPPORT" /\ c.iStatus = "WAIT_RESPONSE"
          /\ c.out \in Seq(Own(K)) /\ Window(u, v) /\ Offers(Own(K), c)
          /\ Len(v) < TxWindow /\ TakenFrom(q, b, u, v, seq, i)
        BY <1>1, <1>6, <2>3, <2>5 DEF IsTaken, SameModes
    <2>7. Good(Own(K), c)
        BY <2>6 DEF Good, First, Window
    <2>8. /\ q \in Seq(Nat) /\ Len(q) \in Nat /\ Len(a) \in Nat
          /\ \A j \in 1..Len(q) : q[j] \in Nat
        BY RunsTyped
    <2>9. u \in Seq(Nat) /\ Len(u) \in Nat /\ Len(v) \in Nat
        BY <2>7, RunsTyped DEF Good
    <2>10. Increasing(u)
        BY <1>4, <2>6, <2>8, <2>9, TakenIncreases
    <2>11. /\ i \in 1..Len(a) /\ Len(u) = Len(q) - 1 /\ Len(v) = Len(a) - 1
           /\ \A j \in 1..Len(u) : u[j] = IF j < i THEN q[j] ELSE q[j + 1]
        BY <1>6, <2>1, <2>3, <2>6 DEF TakenFrom
    <2> HIDE DEF u, v, q, a
    <2>12. ASSUME NEW j \in 1..Len(u), j > 1 \/ i = 1
           PROVE  u[j] > K
        <3>1. \/ j \in 2..Len(q) /\ u[j] = q[j]
              \/ j + 1 \in 2..Len(q) /\ u[j] = q[j + 1]
            BY <2>8, <2>9, <2>11, <2>12
        <3> QED
            BY <1>4, <3>1
    <2>13. \A j \in 2..Len(u) : u[j] > K
        BY <2>9, <2>12
    <2>14. Len(u) > 1 /\ u[1] <= K => Len(v) > 0
        <3>1. Len(u) > 1 => 1 \in 1..Len(u) /\ u[1] \in Nat
            BY <2>9
        <3>2. Len(u) > 1 /\ u[1] <= K => i # 1
            BY <1>4, <2>12, <3>1
        <3> QED
            BY <2>8, <2>9, <2>11, <3>2
    <2>15. RunsOn(SendNext(c), K)
        BY <1>4, <2>6, <2>7, <2>10, <2>13, <2>14, SendNextRuns DEF u, v
    <2> QED
        BY <1>3, <1>6, <2>15 DEF c, s2
<1> QED
    BY <1>5, <1>6
-----------------------------------------------------------------------------
(* The frames, and the other steps of the sender.                          *)

LEMMA KnowsRuns ==
    ASSUME NEW s, NEW r, Knows(s, r), NEW K, Runs(s, K)
    PROVE  Runs(r, K)
BY DEF Knows, Runs

LEMMA SameSenderRuns ==
    ASSUME NEW s, NEW r, SameSender(s, r), NEW K, Runs(s, K)
    PROVE  Runs(r, K)
BY DEF SameSender, Runs

LEMMA RunsOffers ==
    ASSUME NEW s, IsTerminal(s), First(s), NEW K, Runs(s, K)
    PROVE  K \in Nat /\ Offers(Own(K), s)
<1>1. s.sent \in Nat /\ K \in 0..s.sent
    BY DEF IsTerminal, Runs
<1>2. s.iCurWnsrpStatus # "FULL_SUPPORT" /\ Len(s.iSrpWaitQueue) > 0
            => s.iSrpWaitQueue[1] <= K
    BY DEF Runs
<1> QED
    BY <1>1, <1>2, OwnOffered

(* An NSRP response is for a packet that was sent as SRP.                  *)
LEMMA HandledResponseRuns ==
    ASSUME NEW s, IsTerminal(s), First(s), NEW K, Runs(s, K), s.out = <<>>,
           s.sent < SeqModulus, NEW f \in FromPeer(K), f \notin Commands
    PROVE  RunsOn(Handled(s, f), K)
<1> DEFINE e == SrpGetEventNoFromAL1(s, f)
           c == e.srp
           seq == IF "seq" \in DOMAIN f THEN f.seq ELSE 0
           r == Handled(s, f)
<1>1. f \in Frames /\ (f.kind = "NSRP_RESPONSE" => f.seq + 1 <= K)
    BY DEF FromPeer
<1>2. Good(Own(K), s)
    <2>1. s.out \in Seq(Own(K))
        OBVIOUS
    <2> QED
        BY <2>1, RunsOffers DEF Good
<1>3. /\ Sends(Own(K), s, c)
      /\ e.event \in {"NOP", "RESPONSE", "NSRP_RESPONSE", "WNSRP_RESPONSE"}
      /\ e.event = "NSRP_RESPONSE" => f.kind = "NSRP_RESPONSE" /\ f \in Responses
      /\ e.event = "WNSRP_RESPONSE" => c.iCurWnsrpStatus = "FULL_SUPPORT"
    BY <1>1, <1>2, GetEventSends
<1>4. r = CASE e.event \in {"COMMAND", "WNSRP_COMMAND"} -> Srp_0_2(c, e.event, f.pkt)
            [] /\ e.event \in {"RESPONSE", "NSRP_RESPONSE", "WNSRP_RESPONSE"}
               /\ c.iStatus = "WAIT_RESPONSE" -> Srp_1_3(c, e.event, seq)
            [] OTHER -> c
    BY DEF Handled
<1>5. f \in Responses => seq = f.seq /\ seq \in 0..(SeqModulus - 1)
    BY DEF Responses
<1>6. Knows(s, c)
    BY <1>1, GetEventKnows
<1> HIDE DEF e, seq, r
<1>7. \/ r = c
      \/ /\ r = Srp_1_3(c, e.event, seq) /\ c.iStatus = "WAIT_RESPONSE"
         /\ e.event \in {"RESPONSE", "NSRP_RESPONSE", "WNSRP_RESPONSE"}
    BY <1>3, <1>4
<1> HIDE DEF c
<1>8. /\ IsTerminal(c) /\ First(c) /\ c.out \in Seq(Own(K)) /\ Runs(c, K)
      /\ c.sent < SeqModulus
    BY <1>3, <1>6, KnowsRuns DEF Sends, Good
<1>9. CASE r = c
    BY <1>8, <1>9, RunsItself DEF r
<1>10. CASE /\ r = Srp_1_3(c, e.event, seq) /\ c.iStatus = "WAIT_RESPONSE"
            /\ e.event = "RESPONSE"
    BY <1>8, <1>10, ResponseRuns DEF r
<1>11. CASE /\ r = Srp_1_3(c, e.event, seq) /\ c.iStatus = "WAIT_RESPONSE"
            /\ e.event = "NSRP_RESPONSE"
    BY <1>1, <1>3, <1>5, <1>8, <1>11, NsrpResponseRuns DEF r
<1>12. CASE /\ r = Srp_1_3(c, e.event, seq) /\ c.iStatus = "WAIT_RESPONSE"
            /\ e.event = "WNSRP_RESPONSE"
    BY <1>3, <1>8, <1>12, WnsrpResponseRuns DEF r
<1> QED
    BY <1>7, <1>9, <1>10, <1>11, <1>12

(* A response is NSRP only if it is for an SRP command.                    *)
LEMMA AnswerRuns ==
    ASSUME NEW c, NEW n \in Nat \ {0}, NEW event, NEW L \in Nat,
           n < SeqModulus, event # "WNSRP_COMMAND" => n <= L
    PROVE  SrpResponse(Header(c, event), SeqNum(n)) \in Seq(FromPeer(L))
<1> DEFINE h == Header(c, event)
           f == Response(h, SeqNum(n))
           g == [kind |-> h]
<1>1. SeqNum(n) \in 0..(SeqModulus - 1) /\ SeqNum(n) + 1 = n
    <2>1. n \in 1..SeqModulus
        BY ConstantsTyped
    <2>2. SeqNum(n) = n - 1 /\ SeqNum(n) \in 0..(SeqModulus - 1)
        BY <2>1, SeqNumTyped
    <2> QED
        BY <2>2
<1>2. /\ h \in {"SRP_RESPONSE", "NSRP_RESPONSE", "WNSRP_RESPONSE"}
      /\ h = "NSRP_RESPONSE" => event # "WNSRP_COMMAND"
    BY DEF Header
<1> HIDE DEF h
<1>3. CASE h = "SRP_RESPONSE"
    <2>1. g \in FromPeer(L)
        BY <1>3 DEF FromPeer, Frames
    <2>2. SrpResponse(h, SeqNum(n)) = <<g>>
        BY <1>3 DEF SrpResponse
    <2> HIDE DEF g
    <2> QED
        BY <2>1, <2>2 DEF h
<1>4. CASE h # "SRP_RESPONSE"
    <2>1. f \in Responses /\ f.seq = SeqNum(n) /\ f.kind = h
        BY <1>1, <1>2, <1>4 DEF Responses, Response
    <2>2. SrpResponse(h, SeqNum(n)) = <<f>>
        BY <1>4 DEF SrpResponse
    <2> HIDE DEF f
    <2>3. f \in FromPeer(L)
        BY <1>1, <1>2, <2>1 DEF FromPeer, Frames
    <2> QED
        BY <2>2, <2>3 DEF h
<1> QED
    BY <1>3, <1>4

(* Whatever is in it, a response is no command.                            *)
LEMMA AnswerToPeer ==
    ASSUME NEW c, NEW n \in Nat \ {0}, NEW event, NEW K
    PROVE  SrpResponse(Header(c, event), SeqNum(n)) \in Seq(ToPeer(K))
<1> DEFINE h == Header(c, event)
           f == Response(h, SeqNum(n))
           g == [kind |-> h]
<1>1. SeqNum(n) \in 0..(SeqModulus - 1)
    BY SeqNumTyped
<1>2. h \in {"SRP_RESPONSE", "NSRP_RESPONSE", "WNSRP_RESPONSE"}
    BY DEF Header
<1> HIDE DEF h
<1>3. CASE h = "SRP_RESPONSE"
    <2>1. g \in ToPeer(K)
        BY <1>3 DEF ToPeer, Frames
    <2>2. SrpResponse(h, SeqNum(n)) = <<g>>
        BY <1>3 DEF SrpResponse
    <2> HIDE DEF g
    <2> QED
        BY <2>1, <2>2 DEF h
<1>4. CASE h # "SRP_RESPONSE"
    <2>1. f \in Responses /\ f.kind = h
        BY <1>1, <1>2, <1>4 DEF Responses, Response
    <2>2. SrpResponse(h, SeqNum(n)) = <<f>>
        BY <1>4 DEF SrpResponse
    <2> HIDE DEF f
    <2>3. f \in ToPeer(K)
        BY <1>2, <2>1 DEF ToPeer, Frames
    <2> QED
        BY <2>2, <2>3 DEF h
<1> QED
    BY <1>3, <1>4

LEMMA HandledCommandRuns ==
    ASSUME NEW s, IsTerminal(s), First(s), NEW K, Runs(s, K), s.out = <<>>,
           NEW f \in Commands
    PROVE  LET r == Handled(s, f)
           IN  /\ r.sent = s.sent /\ Runs(r, K) /\ r.out \in Seq(ToPeer(K))
               /\ \A L \in Nat : f.pkt < SeqModulus /\ f \in ToPeer(L)
                                    => r.out \in Seq(FromPeer(L))
<1> DEFINE e == SrpGetEventNoFromAL1(s, f)
           c == e.srp
           n == f.pkt
           d == Srp_0_2(c, e.event, n)
           r == Handled(s, f)
<1>1. f \in Frames /\ n \in Nat \ {0} /\ f.kind \in {"SRP_COMMAND", "WNSRP_COMMAND"}
    BY DEF Commands, Frames
<1>2. Good(Own(K), s) /\ K \in Nat
    <2>1. s.out \in Seq(Own(K))
        OBVIOUS
    <2> QED
        BY <2>1, RunsOffers DEF Good
<1>3. Sends(Own(K), s, c) /\ (e.event = "COMMAND" => f.kind = "SRP_COMMAND")
    BY <1>1, <1>2, GetEventSends
<1>4. Knows(s, c)
    BY <1>1, GetEventKnows
<1>5. r = c \/ (r = d /\ e.event \in {"COMMAND", "WNSRP_COMMAND"})
    BY HandledCommand
<1> HIDE DEF c, e, n, r
<1>6. IsTerminal(c) /\ c.sent = s.sent /\ c.out \in Seq(Own(K)) /\ Runs(c, K)
    BY <1>3, <1>4, KnowsRuns DEF Sends, Good
<1>7. c.out \in Seq(ToPeer(K)) /\ \A L \in Nat : c.out \in Seq(FromPeer(L))
    BY <1>2, <1>6, OwnFrames, SeqLarger
<1>8. CASE r = c
    BY <1>6, <1>7, <1>8 DEF r
<1>9. CASE r = d /\ e.event \in {"COMMAND", "WNSRP_COMMAND"}
    <2> DEFINE x == SrpResponse(Header(c, e.event), SeqNum(n))
    <2>1. SameSender(c, d) /\ (d.out = c.out \/ d.out = c.out \o x)
        <3>1. IsTerminal(c) /\ n \in Nat \ {0}
            BY <1>1, <1>6
        <3> QED
            BY <3>1, Srp_0_2Typed
    <2>2. x \in Seq(ToPeer(K))
        BY <1>1, AnswerToPeer
    <2>3. ASSUME NEW L \in Nat, n < SeqModulus, f \in ToPeer(L)
          PROVE  x \in Seq(FromPeer(L))
        <3>1. e.event # "WNSRP_COMMAND" => n <= L
            BY <1>3, <1>9, <2>3 DEF ToPeer, n
        <3> QED
            BY <1>1, <2>3, <3>1, AnswerRuns
    <2> HIDE DEF d, x
    <2>4. d.sent = s.sent /\ Runs(d, K)
        BY <1>6, <2>1, SameSenderRuns DEF SameSender
    <2>5. d.out \in Seq(ToPeer(K))
        BY <1>7, <2>1, <2>2, ConcatProperties
    <2>6. \A L \in Nat : n < SeqModulus /\ f \in ToPeer(L) => d.out \in Seq(FromPeer(L))
        BY <1>7, <2>1, <2>3, ConcatProperties
    <2> QED
        BY <1>9, <2>4, <2>5, <2>6 DEF r, n
<1> QED
    BY <1>5, <1>8, <1>9

(* Packets that are new come after the others, and fill the window.        *)
LEMMA AppendedIncreases ==
    ASSUME NEW s, IsTerminal(s), First(s), NEW e, NEW k \in Nat \ {0}, Appended(s, e, k),
           Increasing(s.iSrpWaitQueue), NEW K \in 0..s.sent
    PROVE  LET n == Len(s.iSrpWaitQueue)
               x == e.iSrpWaitQueue
           IN  /\ n \in Nat /\ Len(x) = n + k /\ Increasing(x)
               /\ \A j \in 1..n : x[j] = s.iSrpWaitQueue[j]
               /\ \A j \in (n + 1)..Len(x) : x[j] = s.sent + (j - n)
               /\ (\A j \in 2..n : s.iSrpWaitQueue[j] > K) => \A j \in 2..Len(x) : x[j] > K
<1> DEFINE q == s.iSrpWaitQueue
           n == Len(q)
           x == e.iSrpWaitQueue
<1>1. /\ n \in Nat /\ s.sent \in Nat
      /\ \A j \in 1..n : q[j] \in Nat /\ q[j] <= s.sent
    BY RunsTyped
<1>2. /\ Len(x) = n + k /\ (\A j \in 1..n : x[j] = q[j])
      /\ \A j \in 1..k : x[n + j] = s.sent + j
    BY DEF Appended
<1>3. Increasing(q)
    OBVIOUS
<1> HIDE DEF x, n, q
<1>4. ASSUME NEW j \in (n + 1)..Len(x)
      PROVE  x[j] = s.sent + (j - n)
    <2>1. j - n \in 1..k /\ n + (j - n) = j
        BY <1>1, <1>2
    <2> QED
        BY <1>2, <2>1
<1>5. Increasing(x)
    <2> SUFFICES ASSUME NEW i \in 1..Len(x), NEW j \in 1..Len(x), i < j
                 PROVE  x[i] < x[j]
        BY DEF Increasing
    <2>1. CASE j <= n
        <3>1. i \in 1..n /\ j \in 1..n
            BY <1>1, <1>2, <2>1
        <3>2. q[i] < q[j]
            BY <1>3, <3>1 DEF Increasing, n
        <3> QED
            BY <1>2, <3>1, <3>2
    <2>2. CASE ~(j <= n) /\ i <= n
        <3>1. i \in 1..n /\ j \in (n + 1)..Len(x)
            BY <1>1, <1>2, <2>2
        <3>2. x[j] = s.sent + (j - n) /\ x[i] = q[i] /\ q[i] <= s.sent /\ q[i] \in Nat
            BY <1>1, <1>2, <1>4, <3>1
        <3> QED
            BY <1>1, <1>2, <3>1, <3>2
    <2>3. CASE ~(i <= n)
        <3>1. i \in (n + 1)..Len(x) /\ j \in (n + 1)..Len(x)
            BY <1>1, <1>2, <2>3
        <3>2. x[i] = s.sent + (i - n) /\ x[j] = s.sent + (j - n)
            BY <1>4, <3>1
        <3> QED
            BY <1>1, <1>2, <3>1, <3>2
    <2> QED
        BY <2>1, <2>2, <2>3
<1>6. ASSUME \A j \in 2..n : q[j] > K, NEW j \in 2..Len(x)
      PROVE  x[j] > K
    <2>1. CASE j <= n
        <3>1. j \in 2..n /\ j \in 1..n
            BY <1>1, <1>2, <2>1
        <3> QED
            BY <1>2, <1>6, <3>1
    <2>2. CASE ~(j <= n)
        <3>1. j \in (n + 1)..Len(x) /\ j - n \in Nat \ {0}
            BY <1>1, <1>2, <2>2
        <3>2. x[j] = s.sent + (j - n)
            BY <1>4, <3>1
        <3> QED
            BY <1>1, <3>1, <3>2
    <2> QED
        BY <2>1, <2>2
<1> QED
    BY <1>1, <1>2, <1>4, <1>5, <1>6 DEF x, n, q

LEMMA EnqueuedRuns ==
    ASSUME TxWindow > 1, NEW s, IsTerminal(s), First(s), NEW K, Runs(s, K), s.out = <<>>,
           NEW k \in Nat \ {0}
    PROVE  LET e == Enqueued(s, k)
           IN  RunsOn(IF s.iStatus = "IDLE" THEN Srp_0_1(e) ELSE Srp_1_1(e), K)
<1> DEFINE e == Enqueued(s, k)
           q == s.iSrpWaitQueue
           a == s.iActiveWnsrpCommandSave
           n == Len(q)
           x == e.iSrpWaitQueue
           N == Len(x)
           status == s.iCurWnsrpStatus
<1>1. /\ n \in Nat /\ Len(a) \in Nat /\ Len(a) <= n /\ s.sent \in Nat
      /\ Len(a) <= TxWindow /\ K \in 0..s.sent /\ Increasing(q) /\ (q = <<>> <=> n = 0)
      /\ status \in {"NO_SUPPORT", "TX_SUPPORT", "FULL_SUPPORT"}
    BY RunsTyped DEF Runs, First
<1>2. /\ n > 0 => s.iStatus = "WAIT_RESPONSE"
      /\ s.iSrpCommandSave # NoTimer => q # <<>> /\ q[1] <= K
      /\ status # "FULL_SUPPORT" /\ s.iStatus = "WAIT_RESPONSE" => s.iSrpCommandSave # NoTimer
      /\ status = "FULL_SUPPORT" => s.iSrpCommandSave = NoTimer
      /\ status # "NO_SUPPORT" => \A j \in 2..n : q[j] > K
      /\ s.iStatus \in {"IDLE", "WAIT_RESPONSE"}
    BY DEF Runs, First, IsTerminal
<1>3. /\ IsTerminal(e) /\ First(e) /\ e.out = <<>> /\ e.sent = s.sent + k /\ x # <<>>
      /\ Appended(s, e, k)
    BY EnqueuedTyped
<1>4. /\ e.iStatus = s.iStatus /\ e.iCurWnsrpStatus = status
      /\ e.iSrpCommandSave = s.iSrpCommandSave /\ e.iActiveWnsrpCommandSave = a
    BY <1>3 DEF Appended
<1> HIDE DEF e
<1>5. /\ N = n + k /\ Increasing(x) /\ (\A j \in 1..n : x[j] = q[j])
      /\ \A j \in (n + 1)..N : x[j] = s.sent + (j - n)
      /\ (\A j \in 2..n : q[j] > K) => \A j \in 2..N : x[j] > K
    BY <1>1, <1>3, AppendedIncreases
<1> HIDE DEF x, q, a
<1>6. status # "NO_SUPPORT" => \A j \in 2..N : x[j] > K
    BY <1>2, <1>5
<1>7. TxWindow \in Nat /\ K \in Nat /\ N \in Nat /\ N > 0
    BY <1>1, <1>5, ConstantsTyped
<1>8. ASSUME NEW L \in K..e.sent, status # "FULL_SUPPORT" => x[1] <= L
      PROVE  Good(Own(L), e)
    <2>1. e.out \in Seq(Own(L))
        BY <1>3
    <2>2. L \in Nat
        BY <1>7, <1>8
    <2>3. Offers(Own(L), e)
        BY <1>3, <1>4, <1>8, <2>2, OwnOffered DEF x
    <2> QED
        BY <1>3, <2>1, <2>3 DEF Good
<1>9. CASE s.iStatus = "IDLE"
    <2> DEFINE L == IF status # "FULL_SUPPORT" THEN s.sent + 1 ELSE K
               r == Srp_0_1(e)
    <2>1. n = 0 /\ s.iSrpCommandSave = NoTimer /\ Len(a) = 0
        BY <1>1, <1>2, <1>9
    <2>2. \A j \in 1..N : x[j] = s.sent + j
        BY <1>1, <1>5, <1>7, <2>1
    <2>3. x[1] = s.sent + 1
        BY <1>7, <2>2
    <2>4. L \in K..e.sent /\ L \in Nat
        BY <1>1, <1>3, <1>7
    <2>5. Good(Own(L), e)
        BY <1>1, <1>8, <2>3, <2>4
    <2>6. /\ r.out \in Seq(Own(L)) /\ r.sent = e.sent
          /\ SendsBoth(e, r, TxWindow - Len(a)) /\ r.iStatus = "WAIT_RESPONSE"
        BY <1>3, <1>4, <2>5, Srp_0_1Sends, Srp_0_1Is DEF Sends, Good, x
    <2> HIDE DEF r
    <2>7. /\ r.iSrpWaitQueue = x /\ r.iCurWnsrpStatus = status
          /\ IF status # "FULL_SUPPORT" THEN r.iSrpCommandSave # NoTimer
             ELSE r.iSrpCommandSave = NoTimer
          /\ status # "NO_SUPPORT" => /\ Len(r.iActiveWnsrpCommandSave) > 0
                                      /\ N > 1 => Len(r.iActiveWnsrpCommandSave) > 1
        <3>1. status # "NO_SUPPORT" => \/ Len(r.iActiveWnsrpCommandSave) = TxWindow
                                       \/ Len(r.iActiveWnsrpCommandSave) = N
            BY <1>4, <1>7, <2>1, <2>6 DEF SendsBoth, Flying, x
        <3> QED
            BY <1>3, <1>4, <1>7, <2>1, <2>6, <3>1 DEF SendsBoth, x
    <2>8. status # "NO_SUPPORT" => \A j \in 2..N : x[j] > L
        <3>1. ASSUME NEW j \in 2..N
              PROVE  x[j] > s.sent + 1
            <4>1. j \in 1..N
                BY <1>7
            <4> QED
                BY <1>1, <2>2, <4>1
        <3> QED
            BY <1>6, <3>1
    <2>9. r.iSrpCommandSave # NoTimer => x[1] <= L
        BY <1>1, <2>3, <2>7
    <2> HIDE DEF L
    <2>10. L \in 0..r.sent /\ L \in K..r.sent
        BY <1>7, <2>4, <2>6
    <2>11. Runs(r, L)
        BY <1>5, <2>6, <2>7, <2>8, <2>9, <2>10 DEF Runs
    <2> QED
        BY <1>9, <2>6, <2>10, <2>11 DEF RunsOn, r, e
<1>10. CASE s.iStatus = "WAIT_RESPONSE"
    <2> DEFINE r == Srp_1_1(e)
    <2>1. K \in K..e.sent /\ K \in 0..e.sent
        BY <1>1, <1>3, <1>7
    <2>2. q # <<>> => x[1] = q[1]
        BY <1>1, <1>5
    <2>3. s.iSrpCommandSave # NoTimer => x[1] <= K
        BY <1>2, <2>2
    <2>4. Good(Own(K), e)
        BY <1>2, <1>8, <1>10, <2>1, <2>3
    <2>5. CASE status = "NO_SUPPORT"
        <3>1. r = e
            BY <1>4, <2>5 DEF Srp_1_1
        <3>2. Runs(e, K)
            BY <1>2, <1>4, <1>5, <1>10, <2>1, <2>3, <2>5 DEF Runs, x
        <3>3. RunsOn(e, K)
            BY <1>3, <2>4, <3>2, RunsItself DEF Good
        <3> QED
            BY <1>10, <3>1, <3>3 DEF e
    <2>6. CASE status # "NO_SUPPORT"
        <3>1. r = FillWindow(e)
            BY <1>4, <2>6 DEF Srp_1_1
        <3>2. /\ Sends(Own(K), e, r) /\ SameModes(e, r)
              /\ Flying(e, r, TxWindow - Len(a))
            BY <1>4, <2>4, <2>6, <3>1, FillWindowSends
        <3> HIDE DEF r
        <3>3. /\ r.iSrpWaitQueue = x /\ r.iCurWnsrpStatus = status /\ r.sent = e.sent
              /\ r.iStatus = "WAIT_RESPONSE" /\ r.iSrpCommandSave = s.iSrpCommandSave
              /\ r.out \in Seq(Own(K)) /\ IsTerminal(r)
            BY <1>4, <1>10, <3>2 DEF Sends, Good, SameModes, x
        <3>4. \/ Len(r.iActiveWnsrpCommandSave) = TxWindow
              \/ Len(r.iActiveWnsrpCommandSave) = N
            BY <1>1, <1>4, <1>7, <3>2 DEF Flying, x
        <3>5. Runs(r, K)
            BY <1>2, <1>5, <1>6, <1>7, <1>10, <2>1, <2>3, <3>3, <3>4 DEF Runs
        <3> QED
            BY <1>10, <3>3, <3>5, RunsItself DEF r, e
    <2> QED
        BY <2>5, <2>6
<1> QED
    BY <1>2, <1>9, <1>10

(* A command that is sent again changes no timer but its counter.          *)
LEMMA AgainRuns ==
    ASSUME NEW s, IsTerminal(s), First(s), NEW K, Runs(s, K), s.out = <<>>, NEW r,
           \A F : Good(F, s) => Sends(F, s, r), SameTimers(s, r)
    PROVE  RunsOn(r, K)
<1>1. Good(Own(K), s)
    <2>1. s.out \in Seq(Own(K))
        OBVIOUS
    <2> QED
        BY <2>1, RunsOffers DEF Good
<1>2. Sends(Own(K), s, r)
    BY <1>1
<1>3. /\ IsTerminal(r) /\ r.out \in Seq(Own(K)) /\ r.sent = s.sent
      /\ r.iSrpWaitQueue = s.iSrpWaitQueue
    BY <1>2 DEF Sends, Good
<1>4. Runs(r, K)
    BY <1>3 DEF Runs, SameTimers
<1> QED
    BY <1>3, <1>4, RunsItself
-----------------------------------------------------------------------------
(* The inductive invariant of the timers: what is on its way to the peer,  *)
(* and from it, agrees with the last packet that was sent as SRP.          *)
Backed(t) == LET s == srp[t]
             IN  ~s.failed => \E K \in 0..s.sent : /\ Runs(s, K)
                                                  /\ link[Peer(t)] \in Seq(ToPeer(K))
                                                  /\ link[t] \in Seq(FromPeer(K))

RInv == Short => \A t \in Terminals : Backed(t)

(* What a handler makes of terminal t, and what it says to its peer.       *)
RunsTurn(t, r) ==
    LET s == srp[t]
    IN  /\ ~r.failed => ~s.failed
        /\ ~r.failed => \A K \in 0..s.sent : Runs(s, K) /\ link[t] \in Seq(FromPeer(K))
                => \E L \in K..r.sent : Runs(r, L) /\ r.out \in Seq(ToPeer(L))
        /\ \A K \in Nat : link[t] \in Seq(ToPeer(K)) => r.out \in Seq(FromPeer(K))

LEMMA FinishBacked ==
    ASSUME IInv, RInv, NEW t \in Terminals, NEW r, IsTerminal(r), Short => RunsTurn(t, r),
           NEW rest, \A F : link[t] \in Seq(F) => rest \in Seq(F), Finish(t, r, rest)
    PROVE  RInv'
<1> DEFINE p == Peer(t)
           s == srp[t]
           q == srp[p]
           c == Quiet(r)
           frames == (IF r.failed THEN <<>> ELSE link[p]) \o r.out
           last == SubSeq(frames, 1, Min({Len(frames), LinkCapacity}))
<1>1. /\ p \in Terminals /\ p # t /\ Terminals = {t, p} /\ Peer(p) = t /\ Peer(t) = p
    BY Peers
<1>2. TypeOK /\ IsTerminal(s) /\ IsTerminal(q)
    BY <1>1, InvParts, InvFacts
<1>3. DOMAIN srp = Terminals /\ DOMAIN link = Terminals
    BY <1>2 DEF TypeOK
<1>4. ASSUME NEW F, r.failed \/ link[p] \in Seq(F), r.out \in Seq(F)
      PROVE  last \in Seq(F)
    <2>1. <<>> \in Seq(F)
        OBVIOUS
    <2>2. (IF r.failed THEN <<>> ELSE link[p]) \in Seq(F)
        BY <1>4, <2>1
    <2>3. frames \in Seq(F)
        BY <1>4, <2>2, ConcatProperties
    <2> HIDE DEF frames
    <2> QED
        BY <2>3, KeptFrames
<1>5. srp' = [srp EXCEPT ![t] = c] /\ link' = [link EXCEPT ![t] = rest, ![p] = last] /\ use' = use
    BY DEF Finish, Quiet
<1>6. SameSender(r, c)
    BY QuietSame DEF Same
<1> HIDE DEF c, last, frames, p
<1>7. srp'[t] = c /\ srp'[p] = q /\ link'[t] = rest /\ link'[p] = last
    BY <1>1, <1>3, <1>5
<1>8. ASSUME Short
      PROVE  Backed(t)'
    <2> SUFFICES ASSUME ~c.failed
                 PROVE  \E L \in 0..c.sent : /\ Runs(c, L) /\ last \in Seq(ToPeer(L))
                                             /\ rest \in Seq(FromPeer(L))
        BY <1>1, <1>7 DEF Backed
    <2>1. ~r.failed /\ c.sent = r.sent
        BY <1>6 DEF SameSender
    <2>2. ~s.failed /\ RunsTurn(t, r)
        BY <1>8, <2>1 DEF RunsTurn
    <2>3. PICK K \in 0..s.sent : /\ Runs(s, K) /\ link[p] \in Seq(ToPeer(K))
                                 /\ link[t] \in Seq(FromPeer(K))
        BY <1>1, <1>8, <2>2 DEF RInv, Backed
    <2>4. PICK L \in K..r.sent : Runs(r, L) /\ r.out \in Seq(ToPeer(L))
        BY <2>1, <2>2, <2>3 DEF RunsTurn
    <2>5. s.sent \in Nat /\ r.sent \in Nat
        BY <1>2 DEF IsTerminal
    <2>6. K \in Nat /\ L \in Nat /\ K <= L /\ L \in 0..c.sent
        BY <2>1, <2>3, <2>4, <2>5
    <2>7. ToPeer(K) \subseteq ToPeer(L) /\ FromPeer(K) \subseteq FromPeer(L)
        BY <2>6, OwnFrames
    <2>8. link[p] \in Seq(ToPeer(L)) /\ link[t] \in Seq(FromPeer(L))
        BY <2>3, <2>7, SeqLarger
    <2>9. last \in Seq(ToPeer(L)) /\ rest \in Seq(FromPeer(L))
        BY <1>4, <2>4, <2>8
    <2>10. Runs(c, L)
        BY <1>6, <2>4, SameSenderRuns
    <2> QED
        BY <2>6, <2>9, <2>10
<1>9. ASSUME Short
      PROVE  Backed(p)'
    <2> SUFFICES ASSUME ~q.failed
                 PROVE  \E K \in 0..q.sent : /\ Runs(q, K) /\ rest \in Seq(ToPeer(K))
                                             /\ last \in Seq(FromPeer(K))
        BY <1>1, <1>7 DEF Backed
    <2>1. PICK K \in 0..q.sent : /\ Runs(q, K) /\ link[t] \in Seq(ToPeer(K))
                                 /\ link[p] \in Seq(FromPeer(K))
        BY <1>1, <1>9 DEF RInv, Backed
    <2>2. K \in Nat
        BY <1>2, <2>1 DEF IsTerminal
    <2>3. r.out \in Seq(FromPeer(K))
        BY <1>9, <2>1, <2>2 DEF RunsTurn
    <2>4. rest \in Seq(ToPeer(K)) /\ last \in Seq(FromPeer(K))
        BY <1>4, <2>1, <2>3
    <2> QED
        BY <2>1, <2>4
<1>10. Short' => Short
    BY <1>5 DEF Short
<1> QED
    BY <1>1, <1>8, <1>9, <1>10 DEF RInv

(* What a terminal sends of its own needs not agree with what it got.      *)
LEMMA OwnTurn ==
    ASSUME IInv, RInv, Short, NEW t \in Terminals, ~srp[t].failed, NEW r, IsTerminal(r),
           \A K \in 0..srp[t].sent :
                Runs(srp[t], K) /\ link[t] \in Seq(FromPeer(K)) => RunsOn(r, K)
    PROVE  RunsTurn(t, r)
<1> DEFINE s == srp[t]
<1>1. s.sent \in Nat /\ r.sent \in Nat
    BY InvFacts DEF IsTerminal
<1>2. PICK K \in 0..s.sent : Runs(s, K) /\ link[t] \in Seq(FromPeer(K))
    BY DEF RInv, Backed
<1>3. PICK M \in K..r.sent : r.out \in Seq(Own(M))
    BY <1>2 DEF RunsOn
<1>4. M \in Nat
    BY <1>1, <1>2, <1>3
<1>5. \A L \in Nat : r.out \in Seq(FromPeer(L))
    BY <1>3, <1>4, OwnFrames, SeqLarger
<1>6. ASSUME NEW N \in 0..s.sent, Runs(s, N), link[t] \in Seq(FromPeer(N))
      PROVE  \E L \in N..r.sent : Runs(r, L) /\ r.out \in Seq(ToPeer(L))
    <2>1. PICK L \in N..r.sent : Runs(r, L) /\ r.out \in Seq(Own(L))
        BY <1>6 DEF RunsOn
    <2>2. L \in Nat
        BY <1>1, <1>6, <2>1
    <2>3. r.out \in Seq(ToPeer(L))
        BY <2>1, <2>2, OwnFrames, SeqLarger
    <2> QED
        BY <2>1, <2>3
<1> QED
    BY <1>5, <1>6 DEF RunsTurn

LEMMA UpperLayerRxBacked ==
    ASSUME IInv, RInv, TxWindow > 1, NEW t \in Terminals, NEW k \in use.chunks,
           UpperLayerRx(t, k)
    PROVE  RInv'
<1> DEFINE s == srp[t]
           e == Enqueued(s, k)
           r == IF s.iStatus = "IDLE" THEN Srp_0_1(e) ELSE Srp_1_1(e)
<1>1. IsTerminal(s) /\ Within(t, s) /\ s.out = <<>> /\ use \in Uses
    BY InvFacts
<1>2. k \in Nat \ {0}
    BY <1>1, UseTyped
<1>3. ~s.failed /\ Finish(t, r, link[t])
    BY DEF UpperLayerRx, Enqueued
<1>4. First(s)
    BY <1>1, <1>3 DEF Within
<1>5. /\ IsTerminal(e) /\ First(e) /\ e.iSrpWaitQueue # <<>> /\ e.out = <<>>
    BY <1>1, <1>2, <1>4, EnqueuedTyped
<1>6. IsTerminal(r)
    <2> HIDE DEF e
    <2>1. Good(Frames, e)
        BY <1>5, FramesOffered DEF Good
    <2> QED
        BY <1>5, <2>1, Srp_0_1Sends, Srp_1_1Sends DEF Sends, Good
<1>7. \A K \in 0..s.sent : Runs(s, K) /\ link[t] \in Seq(FromPeer(K)) => RunsOn(r, K)
    BY <1>1, <1>2, <1>4, EnqueuedRuns
<1> HIDE DEF r
<1>8. Short => RunsTurn(t, r)
    BY <1>3, <1>6, <1>7, OwnTurn
<1> QED
    BY <1>3, <1>6, <1>8, FinishBacked

LEMMA LowerLayerRxBacked ==
    ASSUME IInv, RInv, NEW t \in Terminals, LowerLayerRx(t)
    PROVE  RInv'
<1> DEFINE s == srp[t]
           q == srp[Peer(t)]
           f == Head(link[t])
           rest == Tail(link[t])
           r == Handled(s, f)
<1>1. link[t] # <<>> /\ ~s.failed /\ Finish(t, r, rest)
    BY LowerLayerRxIs
<1>2. \A F : link[t] \in Seq(F) => f \in F /\ rest \in Seq(F)
    BY <1>1
<1>3. /\ IsTerminal(s) /\ IsTerminal(q) /\ Within(t, s) /\ s.out = <<>>
      /\ f \in Frames
      /\ Short => /\ Ready(Exact, s, q) /\ Ready(Exact, q, s)
                  /\ f \in From(Exact, q, s)
    BY <1>2, InvFacts
<1>4. First(s)
    BY <1>1, <1>3 DEF Within
<1> HIDE DEF f, rest
<1>5. IsTerminal(r)
    <2>1. Turn(t, r)
        BY <1>1, <1>3, CommandTurn, ResponseTurn
    <2> QED
        BY <2>1 DEF Turn
<1>6. ASSUME Short, f \notin Commands
      PROVE  RunsTurn(t, r)
    <2>1. s.sent < SeqModulus
        BY <1>3, <1>6 DEF Ready
    <2>2. ASSUME NEW K \in 0..s.sent, Runs(s, K), link[t] \in Seq(FromPeer(K))
          PROVE  RunsOn(r, K)
        <3>1. f \in FromPeer(K)
            BY <1>2, <2>2
        <3> QED
            BY <1>3, <1>4, <1>6, <2>1, <2>2, <3>1, HandledResponseRuns
    <2> HIDE DEF r
    <2> QED
        BY <1>1, <1>5, <1>6, <2>2, OwnTurn
<1>7. ASSUME Short, f \in Commands
      PROVE  RunsTurn(t, r)
    <2>1. f.pkt < SeqModulus
        <3>1. f.pkt <= q.sent /\ q.sent < SeqModulus /\ q.sent \in Nat /\ f.pkt \in Nat
            BY <1>3, <1>7 DEF From, IsFrom, Ready, IsTerminal, Commands
        <3> QED
            BY <3>1, ConstantsTyped
    <2>2. ASSUME NEW K \in 0..s.sent, Runs(s, K)
          PROVE  /\ r.sent = s.sent /\ Runs(r, K) /\ r.out \in Seq(ToPeer(K))
                 /\ \A L \in Nat : link[t] \in Seq(ToPeer(L)) => r.out \in Seq(FromPeer(L))
        <3>1. /\ r.sent = s.sent /\ Runs(r, K) /\ r.out \in Seq(ToPeer(K))
              /\ \A L \in Nat : f.pkt < SeqModulus /\ f \in ToPeer(L)
                                    => r.out \in Seq(FromPeer(L))
            BY <1>3, <1>4, <1>7, <2>2, HandledCommandRuns
        <3> QED
            BY <1>2, <2>1, <3>1
    <2> HIDE DEF r, q
    <2>3. s.sent \in Nat
        BY <1>3 DEF IsTerminal
    <2>4. \E K \in 0..s.sent : Runs(s, K)
        BY <1>1, <1>7 DEF RInv, Backed
    <2>5. ASSUME NEW K \in 0..s.sent, Runs(s, K)
          PROVE  \E L \in K..r.sent : Runs(r, L) /\ r.out \in Seq(ToPeer(L))
        <3>1. K \in K..s.sent
            BY <2>3, <2>5
        <3> QED
            BY <2>2, <2>5, <3>1
    <2> QED
        BY <1>1, <2>2, <2>4, <2>5 DEF RunsTurn
<1> HIDE DEF r
<1> QED
    BY <1>1, <1>2, <1>5, <1>6, <1>7, FinishBacked

LEMMA CorruptedRxBacked ==
    ASSUME IInv, RInv, NEW t \in Terminals, CorruptedRx(t)
    PROVE  RInv'
<1> DEFINE rest == Tail(link[t])
<1>1. /\ link' = [link EXCEPT ![t] = rest] /\ use' = use /\ srp' = srp /\ link[t] # <<>>
    BY DEF CorruptedRx
<1>2. \A F : link[t] \in Seq(F) => rest \in Seq(F)
    BY <1>1
<1> HIDE DEF rest
<1>3. link \in [Terminals -> Seq(Frames)]
    BY InvParts DEF TypeOK
<1>4. Short' = Short
    BY <1>1 DEF Short
<1>5. ASSUME NEW u \in Terminals, Backed(u)
      PROVE  Backed(u)'
    <2>1. Peer(u) \in Terminals
        BY Peers
    <2>2. \A x \in Terminals : \A F : link[x] \in Seq(F) => link'[x] \in Seq(F)
        BY <1>1, <1>2, <1>3
    <2>3. \A K : /\ link[u] \in Seq(FromPeer(K)) => link'[u] \in Seq(FromPeer(K))
                 /\ link[Peer(u)] \in Seq(ToPeer(K)) => link'[Peer(u)] \in Seq(ToPeer(K))
        BY <2>1, <2>2
    <2> QED
        BY <1>1, <1>5, <2>3 DEF Backed
<1> QED
    BY <1>4, <1>5 DEF RInv

(* Of a terminal that fails nothing is said but what it sends: nothing.    *)
LEMMA FailedRuns ==
    ASSUME NEW t \in Terminals, NEW r, r.failed, r.out = <<>>
    PROVE  RunsTurn(t, r)
<1>1. \A F : <<>> \in Seq(F)
    OBVIOUS
<1> QED
    BY <1>1 DEF RunsTurn

LEMMA SrpTimeoutBacked ==
    ASSUME IInv, RInv, NEW t \in Terminals, SrpTimeout(t)
    PROVE  RInv'
<1> DEFINE s == srp[t]
           r == SrpTimedOut(s)
<1>1. ~s.failed /\ s.iSrpCommandSave # NoTimer /\ Finish(t, r, link[t])
    BY DEF SrpTimeout, SrpTimedOut
<1>2. IsTerminal(s) /\ Within(t, s) /\ s.out = <<>>
    BY InvFacts
<1>3. First(s)
    BY <1>1, <1>2 DEF Within
<1>4. /\ IsTerminal(r)
      /\ \/ r.failed /\ r.out = <<>>
         \/ (\A F : Good(F, s) => Sends(F, s, r)) /\ SameTimers(s, r)
    BY <1>1, <1>2, <1>3, SrpTimedOutIs DEF IsTimedOut
<1> HIDE DEF r
<1>5. CASE r.failed /\ r.out = <<>>
    BY <1>1, <1>4, <1>5, FailedRuns, FinishBacked
<1>6. CASE (\A F : Good(F, s) => Sends(F, s, r)) /\ SameTimers(s, r)
    <2>1. \A K \in 0..s.sent : Runs(s, K) /\ link[t] \in Seq(FromPeer(K)) => RunsOn(r, K)
        BY <1>2, <1>3, <1>6, AgainRuns
    <2>2. Short => RunsTurn(t, r)
        BY <1>1, <1>4, <2>1, OwnTurn
    <2> QED
        BY <1>1, <1>4, <2>2, FinishBacked
<1> QED
    BY <1>4, <1>5, <1>6

LEMMA WnsrpTimeoutBacked ==
    ASSUME IInv, RInv, NEW t \in Terminals, NEW i, WnsrpTimeout(t, i)
    PROVE  RInv'
<1> DEFINE s == srp[t]
           r == WnsrpTimedOut(s, i)
<1>1. ~s.failed /\ i \in DOMAIN s.iActiveWnsrpCommandSave /\ Finish(t, r, link[t])
    BY DEF WnsrpTimeout, WnsrpTimedOut
<1>2. IsTerminal(s) /\ Within(t, s) /\ s.out = <<>>
    BY InvFacts
<1>3. First(s)
    BY <1>1, <1>2 DEF Within
<1>4. /\ IsTerminal(r)
      /\ \/ r.failed /\ r.out = <<>>
         \/ (\A F : Good(F, s) => Sends(F, s, r)) /\ SameTimers(s, r)
    BY <1>1, <1>2, <1>3, WnsrpTimedOutIs DEF IsTimedOut
<1> HIDE DEF r
<1>5. CASE r.failed /\ r.out = <<>>
    BY <1>1, <1>4, <1>5, FailedRuns, FinishBacked
<1>6. CASE (\A F : Good(F, s) => Sends(F, s, r)) /\ SameTimers(s, r)
    <2>1. \A K \in 0..s.sent : Runs(s, K) /\ link[t] \in Seq(FromPeer(K)) => RunsOn(r, K)
        BY <1>2, <1>3, <1>6, AgainRuns
    <2>2. Short => RunsTurn(t, r)
        BY <1>1, <1>4, <2>1, OwnTurn
    <2> QED
        BY <1>1, <1>4, <2>2, FinishBacked
<1> QED
    BY <1>4, <1>5, <1>6
-----------------------------------------------------------------------------
(* The invariant holds, and implies the properties.                        *)

LEMMA StartTyped ==
    ASSUME NEW nsrp \in BOOLEAN, NEW wnsrp \in BOOLEAN
    PROVE  LET s == SrpStart(nsrp, wnsrp)
           IN  /\ IsTerminal(s) /\ First(s) /\ Ordered(s, 0) /\ s.out = <<>>
               /\ s.sent = 0 /\ s.iUseNSRP = nsrp /\ ~s.failed
<1> DEFINE s == SrpStart(nsrp, wnsrp)
           o == (0 - Lag) % SeqModulus
<1>1. o = IF 0 >= Lag THEN 0 - Lag ELSE 0 - Lag + SeqModulus
    BY LagTyped, ConstantsTyped
<1>2. o \in 0..(SeqModulus - 1)
    BY <1>1, LagTyped, ConstantsTyped
<1>3. /\ s.iStatus = "IDLE" /\ s.iCurWnsrpStatus \in {"TX_SUPPORT", "NO_SUPPORT"}
      /\ s.iHandleWNSRP = wnsrp /\ s.iUseNSRP = nsrp /\ s.iFirstNSRPResp = FALSE
      /\ s.iFirstCmd = TRUE /\ s.iN402Counter = 0 /\ s.sent = 0 /\ s.iSrpWaitQueue = <<>>
      /\ s.iSrpCommandSave = NoTimer /\ s.iActiveWnsrpCommandSave = <<>>
      /\ s.iRecvSeqNumber = 0 /\ s.iOldestWNSRPRetransSeqNum = o
      /\ s.iPendingRxFragList = <<>> /\ s.delivered = <<>> /\ s.failed = FALSE /\ s.out = <<>>
    BY DEF SrpStart, Lag
<1>4. DOMAIN s = DOMAIN SrpStart(TRUE, TRUE)
    BY DEF SrpStart
<1> HIDE DEF s, o
<1>5. IsTerminal(s)
    <2>1. /\ s.iHandleWNSRP \in BOOLEAN /\ s.iUseNSRP \in BOOLEAN
          /\ s.iFirstNSRPResp \in BOOLEAN /\ s.iFirstCmd \in BOOLEAN /\ s.failed \in BOOLEAN
        BY <1>3, Zenon
    <2>2. /\ s.iSrpWaitQueue \in Seq(1..s.sent) /\ s.iActiveWnsrpCommandSave \in Seq(Timers)
          /\ s.iPendingRxFragList \in Seq(Nat \ {0}) /\ s.delivered \in Seq(Nat \ {0})
          /\ s.out \in Seq(Frames)
        BY <1>3
    <2>3. /\ s.iN402Counter \in Nat /\ s.sent \in Nat
          /\ s.iRecvSeqNumber \in 0..(SeqModulus - 1)
          /\ s.iOldestWNSRPRetransSeqNum \in 0..(SeqModulus - 1)
        BY <1>2, <1>3, ConstantsTyped
    <2>4. /\ s.iStatus \in {"IDLE", "WAIT_RESPONSE"}
          /\ s.iCurWnsrpStatus \in {"NO_SUPPORT", "TX_SUPPORT", "FULL_SUPPORT"}
          /\ s.iSrpCommandSave \in Timers \cup {NoTimer}
        BY <1>3
    <2> QED
        BY <1>4, <2>1, <2>2, <2>3, <2>4 DEF IsTerminal
<1>6. First(s)
    <2>1. Len(s.iActiveWnsrpCommandSave) = 0 /\ Len(s.iSrpWaitQueue) = 0
        BY <1>3
    <2> QED
        BY <1>3, <2>1, ConstantsTyped DEF First
<1>7. Ordered(s, 0)
    <2>1. Len(s.delivered) = 0 /\ s.iPendingRxFragList \in Seq(1..0)
        BY <1>3
    <2> QED
        BY <1>1, <1>3, <2>1 DEF Ordered
<1> QED
    BY <1>3, <1>5, <1>6, <1>7 DEF s

LEMMA InitInv == Init => IInv
<1> SUFFICES ASSUME Init PROVE IInv
    OBVIOUS
<1>1. use \in Uses /\ link = [t \in Terminals |-> <<>>] /\ DOMAIN srp = Terminals
    BY DEF Init
<1>2. ASSUME NEW t \in Terminals
      PROVE  LET s == srp[t]
             IN  /\ IsTerminal(s) /\ First(s) /\ Ordered(s, 0) /\ s.out = <<>>
                 /\ s.sent = 0 /\ s.iUseNSRP = use.nsrp[t] /\ ~s.failed
                 /\ use.packets[t] \in Nat
    <2>1. srp[t] = SrpStart(use.nsrp[t], use.wnsrp[t])
        BY DEF Init
    <2>2. use.nsrp[t] \in BOOLEAN /\ use.wnsrp[t] \in BOOLEAN /\ use.packets[t] \in Nat
        BY <1>1, UseTyped
    <2> QED
        BY <2>1, <2>2, StartTyped
<1>3. TypeOK
    <2>1. link \in [Terminals -> Seq(Frames)]
        BY <1>1
    <2> QED
        BY <1>1, <1>2, <2>1 DEF TypeOK
<1>4. \A t \in Terminals : Within(t, srp[t])
    BY <1>2 DEF Within
<1>5. ASSUME NEW t \in Terminals
      PROVE  Linked(t)
    <2>1. Peer(t) \in Terminals
        BY Peers
    <2>2. Exact => srp[t].iUseNSRP
        BY <1>2 DEF Exact, Numbered
    <2>3. 1..0 = {}
        OBVIOUS
    <2>4. Ready(Exact, srp[t], srp[Peer(t)])
        BY <1>2, <2>1, <2>2, <2>3, ConstantsTyped DEF Ready
    <2>5. link[Peer(t)] = <<>>
        BY <1>1, <2>1
    <2> QED
        BY <2>4, <2>5 DEF Linked
<1> QED
    BY <1>3, <1>4, <1>5 DEF IInv

LEMMA NextInv == IInv /\ [Next]_vars => IInv'
<1> SUFFICES ASSUME IInv, [Next]_vars PROVE IInv'
    OBVIOUS
<1>1. ASSUME NEW t \in Terminals, NEW k \in use.chunks, UpperLayerRx(t, k)
      PROVE  IInv'
    BY <1>1, UpperLayerRxKeeps
<1>2. ASSUME NEW t \in Terminals, LowerLayerRx(t)
      PROVE  IInv'
    BY <1>2, LowerLayerRxKeeps
<1>3. ASSUME NEW t \in Terminals, CorruptedRx(t)
      PROVE  IInv'
    BY <1>3, CorruptedRxKeeps
<1>4. ASSUME NEW t \in Terminals, SrpTimeout(t)
      PROVE  IInv'
    BY <1>4, SrpTimeoutKeeps
<1>5. ASSUME NEW t \in Terminals, NEW i \in 1..TxWindow, WnsrpTimeout(t, i)
      PROVE  IInv'
    BY <1>5, WnsrpTimeoutKeeps
<1>6. CASE UNCHANGED vars
    BY <1>6 DEF vars, IInv, TypeOK, Within, Linked, Short, Exact, Numbered, Half
<1> QED
    BY <1>1, <1>2, <1>3, <1>4, <1>5, <1>6 DEF Next

(* The inductive invariant: every end keeps its commands in flight at the  *)
(* head of its queue; while the numbers do not wrap around, every frame on *)
(* a link is of a packet that was sent, a numbered response of one that    *)
(* was received, and every packet of an end is in its queue or received.   *)
THEOREM Invariance == Spec => []IInv
<1>1. Init => IInv
    BY InitInv
<1>2. IInv /\ [Next]_vars => IInv'
    BY NextInv
<1> QED
    BY <1>1, <1>2, PTL DEF Spec

(* The records, the timers and the frames on the links keep their types.   *)
THEOREM TypeCorrect == Spec => []TypeOK
<1>1. IInv => TypeOK
    BY DEF IInv
<1> QED
    BY <1>1, Invariance, PTL

LEMMA FirstInFlight == IInv => InFlightAreFirst
<1> SUFFICES ASSUME IInv, NEW t \in Terminals, ~srp[t].failed
             PROVE  LET q == srp[t].iSrpWaitQueue
                        a == srp[t].iActiveWnsrpCommandSave
                    IN  /\ Len(a) <= TxWindow
                        /\ [i \in DOMAIN a |-> a[i].pkt] = SubSeq(q, 1, Len(a))
                        /\ srp[t].iSrpCommandSave # NoTimer =>
                                q # <<>> /\ srp[t].iSrpCommandSave.pkt = Head(q)
    BY DEF InFlightAreFirst
<1> DEFINE s == srp[t]
           q == s.iSrpWaitQueue
           a == s.iActiveWnsrpCommandSave
<1>1. IsTerminal(s) /\ First(s)
    BY InvFacts DEF Within
<1>2. /\ q \in Seq(1..s.sent) /\ Len(q) \in Nat
      /\ q # <<>> => Head(q) = q[1]
    BY <1>1, QueueTyped
<1>3. a \in Seq(Timers)
    BY <1>1 DEF IsTerminal
<1>4. /\ Len(a) <= TxWindow /\ Len(a) <= Len(q)
      /\ \A i \in 1..Len(a) : a[i].pkt = q[i]
      /\ s.iSrpCommandSave # NoTimer => q # <<>> /\ s.iSrpCommandSave.pkt = q[1]
    BY <1>1 DEF First
<1> HIDE DEF a, q, s
<1>5. Len(a) \in Nat /\ DOMAIN a = 1..Len(a)
    BY <1>3
<1> DEFINE n == Len(a)
           p == SubSeq(q, 1, n)
<1>6. n \in 0..Len(q)
    BY <1>2, <1>4, <1>5
<1> HIDE DEF n
<1>7. p = [i \in 1..n |-> q[i]]
    BY <1>2, <1>6
<1>8. [i \in DOMAIN a |-> a[i].pkt] = [i \in 1..n |-> q[i]]
    BY <1>4, <1>5 DEF n
<1> QED
    BY <1>2, <1>4, <1>7, <1>8 DEF n, q, a, s

(* The commands in flight are the first of the queue (Srp_0_1, Srp_1_1 and *)
(* Srp_1_3), for every window, modulus and use.                            *)
THEOREM CommandsAreFirst == Spec => []InFlightAreFirst
BY FirstInFlight, Invariance, PTL

(* In every call in which the numbers do not wrap around, each end gets    *)
(* the packets of the other in their order, once, without holes.           *)
THEOREM PacketsInOrder == Spec => [](Short => InOrder)
<1>1. IInv => (Short => InOrder)
    <2> SUFFICES ASSUME IInv, Short, NEW t \in Terminals
                 PROVE  LET d == srp[Peer(t)].delivered
                        IN  d = [i \in 1..Len(d) |-> i] /\ Len(d) <= srp[t].sent
        BY DEF InOrder
    <2> DEFINE d == srp[Peer(t)].delivered
    <2>1. IsTerminal(srp[Peer(t)]) /\ Ready(Exact, srp[t], srp[Peer(t)])
        BY InvFacts
    <2>2. d \in Seq(Nat \ {0})
        BY <2>1 DEF IsTerminal
    <2>3. Len(d) <= srp[t].sent /\ \A i \in 1..Len(d) : d[i] = i
        BY <2>1 DEF Ready, Ordered
    <2> HIDE DEF d
    <2>4. d = [i \in 1..Len(d) |-> i]
        BY <2>2, <2>3
    <2> QED
        BY <2>3, <2>4 DEF d
<1> QED
    BY <1>1, Invariance, PTL

(* In every call that uses at most half of the numbers, a packet that left *)
(* the queue of an end was received by the other: no response is taken for *)
(* another packet, and none is repeated for one that was not received.     *)
THEOREM AcksAreTruthful == Spec => [](Half => AckedIsReceived)
<1>1. IInv => (Half => AckedIsReceived)
    <2> SUFFICES ASSUME IInv, Half, Numbered, NEW t \in Terminals, ~srp[t].failed,
                        NEW n \in 1..srp[t].sent
                 PROVE  n \in ToSet(srp[t].iSrpWaitQueue) \cup ToSet(srp[Peer(t)].delivered)
                                \cup ToSet(srp[Peer(t)].iPendingRxFragList)
        BY DEF AckedIsReceived, AnyAckIsReceived
    <2>1. use \in Uses
        BY InvFacts
    <2>2. \A u \in Terminals : use.packets[u] \in Nat
        BY <2>1, UseTyped
    <2>3. Short
        BY <2>2, ConstantsTyped DEF Half, Short
    <2>4. Exact /\ Ready(Exact, srp[t], srp[Peer(t)])
        BY <2>3, InvFacts DEF Exact
    <2>5. n \in ToSet(srp[t].iSrpWaitQueue) \cup Received(srp[Peer(t)])
        BY <2>4 DEF Ready
    <2> QED
        BY <2>5 DEF Received
<1> QED
    BY <1>1, Invariance, PTL

LEMMA InitBacked == Init => RInv
<1> SUFFICES ASSUME Init, NEW t \in Terminals PROVE Backed(t)
    BY DEF RInv
<1> DEFINE s == srp[t]
<1>1. s = SrpStart(use.nsrp[t], use.wnsrp[t]) /\ link = [u \in Terminals |-> <<>>]
    BY DEF Init
<1>2. /\ s.iSrpWaitQueue = <<>> /\ s.iActiveWnsrpCommandSave = <<>> /\ s.sent = 0
      /\ s.iSrpCommandSave = NoTimer /\ s.iStatus = "IDLE"
    BY <1>1 DEF SrpStart
<1> HIDE DEF s
<1>3. Len(s.iSrpWaitQueue) = 0
    BY <1>2
<1>4. Runs(s, 0)
    BY <1>2, <1>3 DEF Runs, Increasing
<1>5. \A F : link[t] \in Seq(F) /\ link[Peer(t)] \in Seq(F)
    BY <1>1, Peers
<1> QED
    BY <1>2, <1>4, <1>5 DEF Backed, s

LEMMA NextBacked == TxWindow > 1 /\ IInv /\ RInv /\ [Next]_vars => RInv'
<1> SUFFICES ASSUME TxWindow > 1, IInv, RInv, [Next]_vars PROVE RInv'
    OBVIOUS
<1>1. ASSUME NEW t \in Terminals, NEW k \in use.chunks, UpperLayerRx(t, k)
      PROVE  RInv'
    BY <1>1, UpperLayerRxBacked
<1>2. ASSUME NEW t \in Terminals, LowerLayerRx(t)
      PROVE  RInv'
    BY <1>2, LowerLayerRxBacked
<1>3. ASSUME NEW t \in Terminals, CorruptedRx(t)
      PROVE  RInv'
    BY <1>3, CorruptedRxBacked
<1>4. ASSUME NEW t \in Terminals, SrpTimeout(t)
      PROVE  RInv'
    BY <1>4, SrpTimeoutBacked
<1>5. ASSUME NEW t \in Terminals, NEW i \in 1..TxWindow, WnsrpTimeout(t, i)
      PROVE  RInv'
    BY <1>5, WnsrpTimeoutBacked
<1>6. CASE UNCHANGED vars
    BY <1>6 DEF vars, RInv, Backed, Short
<1> QED
    BY <1>1, <1>2, <1>3, <1>4, <1>5, <1>6 DEF Next

(* With a window of more than one command, and while the numbers do not    *)
(* wrap around, a terminal with a packet in its queue waits for a response *)
(* and a timer of it runs: no handler of the state table (Srp_0_1, Srp_1_1 *)
(* and Srp_1_3, whichever protocol the peer turns out to have) leaves a    *)
(* packet that nothing would send.  In a window of one, what follows an    *)
(* NSRP response would: WNSRP was found supported, so that no SRP timer is *)
(* left, and the response clears the only command in flight (srp.cpp:1537  *)
(* to 1573).  The code's window is DEFAULT_WNSRP_WINDOW, 5 (srp.h:88).     *)
THEOREM TimersRun == TxWindow > 1 => (Spec => [](Short => WindowIsPrefix))
<1> SUFFICES ASSUME TxWindow > 1 PROVE Spec => [](Short => WindowIsPrefix)
    OBVIOUS
<1>1. Init => RInv
    BY InitBacked
<1>2. IInv /\ RInv /\ [Next]_vars => RInv'
    BY NextBacked
<1>3. IInv /\ RInv => (Short => WindowIsPrefix)
    <2> SUFFICES ASSUME IInv, RInv, Short, NEW t \in Terminals,
                        ~srp[t].failed, srp[t].iSrpWaitQueue # <<>>
                 PROVE  /\ srp[t].iStatus = "WAIT_RESPONSE"
                        /\ \/ srp[t].iActiveWnsrpCommandSave # <<>>
                           \/ srp[t].iSrpCommandSave # NoTimer
        BY FirstInFlight DEF WindowIsPrefix
    <2> DEFINE s == srp[t]
    <2>1. IsTerminal(s) /\ First(s)
        BY InvFacts DEF Within
    <2>2. Len(s.iSrpWaitQueue) > 0
        BY <2>1, RunsTyped
    <2>3. PICK K \in 0..s.sent : Runs(s, K)
        BY DEF RInv, Backed
    <2> HIDE DEF s
    <2>4. s.iStatus = "WAIT_RESPONSE"
        BY <2>2, <2>3 DEF Runs
    <2>5. s.iCurWnsrpStatus = "NO_SUPPORT" => s.iSrpCommandSave # NoTimer
        BY <2>3, <2>4 DEF Runs
    <2>6. s.iCurWnsrpStatus # "NO_SUPPORT" => s.iActiveWnsrpCommandSave # <<>>
        BY <2>2, <2>3 DEF Runs
    <2> QED
        BY <2>4, <2>5, <2>6 DEF s
<1> QED
    BY <1>1, <1>2, <1>3, Invariance, PTL DEF Spec
=============================================================================
