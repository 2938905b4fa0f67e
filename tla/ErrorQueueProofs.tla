-------------------------- MODULE ErrorQueueProofs --------------------------
(***************************************************************************)
(* The types of ErrorQueue, and what holds of its queue when one thread at *)
(* a time can run processErrorQueue.                                       *)
(***************************************************************************)
EXTENDS ErrorQueue, SequenceTheorems, TLAPS

\* Erasing an item keeps all others.
LEMMA RemoveAtKeeps ==
  ASSUME NEW S, NEW s \in Seq(S), NEW i \in DOMAIN s
  PROVE  /\ RemoveAt(s, i) \in Seq(S)
         /\ Len(RemoveAt(s, i)) = Len(s) - 1
         /\ \A k \in DOMAIN s \ {i} : \E j \in DOMAIN RemoveAt(s, i) : RemoveAt(s, i)[j] = s[k]
         /\ \A j \in DOMAIN RemoveAt(s, i) : \E k \in DOMAIN s : RemoveAt(s, i)[j] = s[k]
<1> DEFINE a == SubSeq(s, 1, i - 1)
           b == SubSeq(s, i + 1, Len(s))
<1>1. i \in 1..Len(s) /\ Len(s) \in Nat /\ \A k \in 1..Len(s) : s[k] \in S
  BY LenProperties, ElementOfSeq
<1>2. /\ a \in Seq(S) /\ Len(a) = i - 1
      /\ \A k \in 1..(i - 1) : a[k] = s[k]
  BY <1>1, SubSeqProperties
<1>3. /\ b \in Seq(S) /\ Len(b) = Len(s) - i
      /\ \A k \in 1..(Len(s) - i) : b[k] = s[i + k]
  <2>1. /\ b \in Seq(S)
        /\ Len(b) = IF i + 1 <= Len(s) THEN Len(s) - (i + 1) + 1 ELSE 0
        /\ \A k \in 1..(Len(s) - (i + 1) + 1) : b[k] = s[(i + 1) + k - 1]
    BY <1>1, SubSeqProperties
  <2>2. \A k \in 1..(Len(s) - i) : k \in 1..(Len(s) - (i + 1) + 1) /\ (i + 1) + k - 1 = i + k
    BY <1>1
  <2> QED BY <1>1, <2>1, <2>2
<1> HIDE DEF a, b
<1>4. RemoveAt(s, i) = a \o b
  BY DEF RemoveAt, a, b
<1>5. /\ a \o b \in Seq(S) /\ Len(a \o b) = Len(s) - 1
      /\ DOMAIN (a \o b) = 1..(Len(s) - 1)
  BY <1>1, <1>2, <1>3, ConcatProperties, LenProperties
<1>6. \A k \in 1..(i - 1) : (a \o b)[k] = s[k] /\ k \in 1..(Len(s) - 1)
  BY <1>1, <1>2, <1>3, ConcatProperties
<1>7. \A k \in (i + 1)..Len(s) : (a \o b)[k - 1] = s[k] /\ k - 1 \in 1..(Len(s) - 1)
  BY <1>1, <1>2, <1>3, ConcatProperties
<1>8. \A k \in 1..Len(s) : k # i => k \in 1..(i - 1) \/ k \in (i + 1)..Len(s)
  BY <1>1
<1>9. \A k \in DOMAIN s \ {i} : \E j \in DOMAIN (a \o b) : (a \o b)[j] = s[k]
  <2> SUFFICES ASSUME NEW k \in 1..Len(s), k # i
               PROVE  \E j \in 1..(Len(s) - 1) : (a \o b)[j] = s[k]
    BY <1>1, <1>5, LenProperties
  <2>1. CASE k \in 1..(i - 1)
    BY <2>1, <1>6
  <2>2. CASE k \in (i + 1)..Len(s)
    BY <2>2, <1>7
  <2> QED BY <1>8, <2>1, <2>2
<1>10. \A j \in DOMAIN (a \o b) : \E k \in DOMAIN s : (a \o b)[j] = s[k]
  <2> SUFFICES ASSUME NEW j \in 1..(Len(s) - 1)
               PROVE  \E k \in 1..Len(s) : (a \o b)[j] = s[k]
    BY <1>1, <1>5, LenProperties
  <2>1. CASE j \in 1..(i - 1)
    <3>1. j \in 1..Len(s)
      BY <1>1, <2>1
    <3> QED BY <1>6, <2>1, <3>1
  <2>2. CASE j \notin 1..(i - 1)
    <3>1. j + 1 \in (i + 1)..Len(s) /\ (j + 1) - 1 = j /\ j + 1 \in 1..Len(s)
      BY <1>1, <2>2
    <3> QED BY <1>7, <3>1
  <2> QED BY <2>1, <2>2
<1> QED
  BY <1>4, <1>5, <1>9, <1>10

-----------------------------------------------------------------------------
\* A thread in an attempt has made at most Attempts, and its last failure is
\* not counted yet; a thread in the loop has an index, an idle one none.
Counted == \A t \in Threads :
              /\ at[t] = "scan" => idx[t] > 0
              /\ at[t] = "idle" => idx[t] = 0
              /\ at[t] = "wait" => err[t] < tries[t]
              /\ at[t] = "retry" => err[t] <= tries[t] /\ tries[t] < Attempts

Typed == TypeOK /\ Counted

LEMMA AttemptsNat == Attempts \in Nat \ {0}
  BY QueueAssumption DEF Attempts

LEMMA NoJobType == NoJob \in [Threads -> Item]
<1>1. (CHOOSE op \in Ops : TRUE) \in Ops
  BY QueueAssumption
<1> QED BY <1>1 DEF NoJob, Item

LEMMA TypedInit == Init => Typed
<1> SUFFICES ASSUME Init PROVE Typed
  OBVIOUS
<1>1. queue \in Seq(Item) /\ file \in Seq(Ops)
  BY DEF Init
<1>2. /\ at \in [Threads -> {"idle", "scan", "check", "wait", "retry"}]
      /\ \A t \in Threads : at[t] = "idle"
  BY DEF Init, Idle
<1>3. /\ idx \in [Threads -> Nat] /\ \A t \in Threads : idx[t] = 0
      /\ tries \in [Threads -> 0..Attempts] /\ err \in [Threads -> 0..Attempts]
  BY AttemptsNat DEF Init, Zero
<1>4. job \in [Threads -> Item]
  BY NoJobType DEF Init
<1>5. given \in [Ops -> Ids \cup {0}]
  BY DEF Init
<1> QED BY <1>1, <1>2, <1>3, <1>4, <1>5 DEF Init, Typed, TypeOK, Counted

\* What AddQueue does to the queue and the ids, its thread left alone.
LEMMA AddQueueType ==
  ASSUME TypeOK, NEW t \in Threads, AddQueue(t)
  PROVE  /\ queue' \in Seq(Item) /\ queueID' \in Ids \cup {0}
         /\ given' \in [Ops -> Ids \cup {0}]
<1>1. CASE UNCHANGED <<queue, queueID, given>>
  BY <1>1 DEF TypeOK
<1>2. CASE ~UNCHANGED <<queue, queueID, given>>
  <2>1. PICK id \in Ids :
           /\ queue' = Append(queue, [id |-> id, op |-> job[t].op])
           /\ queueID' = id
           /\ given' = [given EXCEPT ![job[t].op] = IF @ = 0 THEN id ELSE @]
    BY <1>2 DEF AddQueue
  <2>2. [id |-> id, op |-> job[t].op] \in Item /\ job[t].op \in Ops
    BY DEF TypeOK, Item
  <2>3. queue' \in Seq(Item)
    BY <2>1, <2>2 DEF TypeOK
  <2> QED BY <2>1, <2>2, <2>3 DEF TypeOK
<1> QED BY <1>1, <1>2

LEMMA ReturnsType ==
  ASSUME TypeOK, NEW t \in Threads, Returns(t)
  PROVE  /\ at' \in [Threads -> {"idle", "scan", "check", "wait", "retry"}]
         /\ idx' \in [Threads -> Nat]
         /\ \A u \in Threads : at'[u] \in {"wait", "retry"} => at'[u] = at[u] /\ u # t
         /\ at'[t] = "scan" => idx'[t] > 0
         /\ at'[t] = "idle" => idx'[t] = 0
         /\ \A u \in Threads : u # t => at'[u] = at[u] /\ idx'[u] = idx[u]
  BY DEF Returns, TypeOK

LEMMA ReturnsTrueType ==
  ASSUME TypeOK, NEW t \in Threads, ReturnsTrue(t)
  PROVE  queue' \in Seq(Item) /\ board' \in {"up", "aborted"}
  BY RemoveAtKeeps DEF ReturnsTrue, TypeOK

\* Restored items come behind those that are there.
LEMMA RestoreKeeps ==
  ASSUME TypeOK, RestoreErrorQueue
  PROVE  /\ queue' \in Seq(Item)
         /\ DOMAIN queue \subseteq DOMAIN queue'
         /\ \A k \in DOMAIN queue : queue'[k] = queue[k]
<1> DEFINE r == [k \in DOMAIN file |-> [id |-> 0, op |-> file[k]]]
<1>1. r = [k \in 1..Len(file) |-> [id |-> 0, op |-> file[k]]] /\ Len(file) \in Nat
  BY LenProperties DEF TypeOK
<1>2. \A k \in 1..Len(file) : [id |-> 0, op |-> file[k]] \in Item
  BY ElementOfSeq DEF TypeOK, Item
<1>3. r \in Seq(Item)
  BY <1>1, <1>2, IsASeq
<1> HIDE DEF r
<1>4. queue' = queue \o r
  BY DEF RestoreErrorQueue, r
<1>5. /\ queue' \in Seq(Item) /\ Len(queue') = Len(queue) + Len(r)
      /\ \A k \in 1..Len(queue) + Len(r) :
            queue'[k] = IF k <= Len(queue) THEN queue[k] ELSE r[k - Len(queue)]
  BY <1>3, <1>4, ConcatProperties DEF TypeOK
<1>6. /\ DOMAIN queue = 1..Len(queue) /\ DOMAIN queue' = 1..Len(queue')
      /\ Len(queue) \in Nat /\ Len(r) \in Nat
  BY <1>3, <1>5, LenProperties DEF TypeOK
<1> QED BY <1>5, <1>6

LEMMA TypedStep == Typed /\ [Next]_vars => Typed'
<1> SUFFICES ASSUME Typed, [Next]_vars PROVE Typed'
  OBVIOUS
<1> USE AttemptsNat DEF Typed, objVars, netVars, thrVars, taskVars, histVars
<1>1. ASSUME NEW t \in Threads, Refused(t) PROVE Typed'
  BY <1>1, ReturnsType DEF Refused, TypeOK, Counted
<1>2. ASSUME NEW t \in Threads, Offline(t) PROVE Typed'
  BY <1>2, ReturnsType, AddQueueType DEF Offline, TypeOK, Counted
<1>3. ASSUME NEW t \in Threads, Attempt(t) PROVE Typed'
  BY <1>3 DEF Attempt, TypeOK, Counted
<1>4. ASSUME NEW t \in Threads, Succeeds(t) PROVE Typed'
  BY <1>4, ReturnsType, ReturnsTrueType DEF Succeeds, ReturnsTrue, TypeOK, Counted, Item
<1>5. ASSUME NEW t \in Threads, PauseSkips(t) PROVE Typed'
  BY <1>5, ReturnsType, ReturnsTrueType DEF PauseSkips, ReturnsTrue, TypeOK, Counted, Item
<1>6. ASSUME NEW t \in Threads, Rejected(t) PROVE Typed'
  <2>1. /\ at[t] \in {"wait", "retry"} /\ tries' \in [Threads -> 0..Attempts]
        /\ err[t] <= tries'[t]
        /\ \A u \in Threads : u # t => tries'[u] = tries[u]
    <3>1. CASE at[t] = "wait" /\ UNCHANGED tries
      BY <3>1 DEF TypeOK, Counted
    <3>2. CASE at[t] = "retry" /\ tries' = [tries EXCEPT ![t] = @ + 1]
      <4>1. tries[t] \in 0..Attempts /\ tries[t] < Attempts /\ err[t] <= tries[t]
            /\ err[t] \in 0..Attempts
        BY <3>2 DEF TypeOK, Counted
      <4> QED BY <3>2, <4>1 DEF TypeOK
    <3> QED BY <1>6, <3>1, <3>2 DEF Rejected
  <2>2. CASE tries'[t] < Attempts
    BY <1>6, <2>1, <2>2 DEF Rejected, TypeOK, Counted
  <2>3. CASE ~(tries'[t] < Attempts)
    BY <1>6, <2>1, <2>3, ReturnsType DEF Rejected, TypeOK, Counted
  <2> QED BY <2>2, <2>3
<1>7. ASSUME NEW t \in Threads, ConnectionError(t) PROVE Typed'
  <2> DEFINE n == IF MaxRetry > 0 THEN err[t] + 1 ELSE 0
  <2>1. /\ at[t] = "wait" /\ AttemptFails(t, n)
        /\ executed' \subseteq Ops
        /\ UNCHANGED <<maxQueue, netVars, job, tries, taskVars, file, board, issued>>
    BY <1>7 DEF ConnectionError, TypeOK, Item
  <2>2. n \in 0..tries[t]
    BY <2>1, QueueAssumption DEF TypeOK, Counted
  <2> HIDE DEF n
  <2>3. CASE tries[t] < Attempts
    <3>1. /\ at' = [at EXCEPT ![t] = "retry"] /\ err' = [err EXCEPT ![t] = n]
          /\ UNCHANGED <<idx, queue, queueID, given>>
      BY <2>1, <2>3 DEF AttemptFails
    <3>2. /\ at' \in [Threads -> {"idle", "scan", "check", "wait", "retry"}]
          /\ err' \in [Threads -> 0..Attempts]
      BY <2>2, <3>1 DEF TypeOK
    <3>3. TypeOK'
      BY <2>1, <3>1, <3>2 DEF TypeOK
    <3>4. Counted'
      BY <2>1, <2>2, <2>3, <3>1 DEF TypeOK, Counted
    <3> QED BY <3>3, <3>4
  <2>4. CASE ~(tries[t] < Attempts)
    <3>1. Returns(t) /\ UNCHANGED err
      BY <2>1, <2>4 DEF AttemptFails
    <3>2. queue' \in Seq(Item) /\ queueID' \in Ids \cup {0} /\ given' \in [Ops -> Ids \cup {0}]
      BY <2>1, <2>4, AddQueueType DEF AttemptFails, TypeOK
    <3> QED BY <2>1, <3>1, <3>2, ReturnsType DEF TypeOK, Counted
  <2> QED BY <2>3, <2>4
<1>8. ASSUME NEW t \in Threads, Passing(t) PROVE Typed'
  <2>1. CASE PassBegins(t)
    BY <2>1 DEF PassBegins, TypeOK, Counted
  <2>2. CASE PassEnds(t)
    BY <2>2 DEF PassEnds, TypeOK, Counted
  <2>3. CASE DropsItem(t)
    <3>1. queue' \in Seq(Item)
      BY <2>3, RemoveAtKeeps, LenProperties DEF DropsItem, TypeOK, Counted
    <3> QED BY <2>3, <3>1 DEF DropsItem, TypeOK, Counted
  <2>4. CASE TakesItem(t)
    <3>1. queue[idx[t]] \in Item
      <4>1. idx[t] \in 1..Len(queue)
        BY <2>4, LenProperties DEF TakesItem, TypeOK, Counted
      <4> QED BY <4>1, ElementOfSeq DEF TypeOK
    <3> QED BY <2>4, <3>1 DEF TakesItem, TypeOK, Counted
  <2> QED BY <1>8, <2>1, <2>2, <2>3, <2>4 DEF Passing
<1>9. ASSUME NEW op \in Ops, Request(op) PROVE Typed'
  BY <1>9 DEF Request, TypeOK, Counted, Item, Threads
<1>10. CASE AppCalls
  <2>1. ASSUME NEW o \in Objects, BeginAutoRunErrorQueue(o) PROVE Typed'
    BY <2>1 DEF BeginAutoRunErrorQueue, TypeOK, Counted
  <2>2. ASSUME NEW o \in Objects, EndAutoRunErrorQueue(o) PROVE Typed'
    <3>1. CASE sessions' = {}
      <4>1. /\ at' = [t \in Threads |-> IF t = handle THEN "idle" ELSE at[t]]
            /\ idx' = [t \in Threads |-> IF t = handle THEN 0 ELSE idx[t]]
            /\ tasks' = tasks \ {handle} /\ handle' = NoTask /\ sessions' \subseteq Objects
        BY <2>2, <3>1 DEF EndAutoRunErrorQueue
      <4>2. /\ at' \in [Threads -> {"idle", "scan", "check", "wait", "retry"}]
            /\ idx' \in [Threads -> Nat]
        BY <4>1 DEF TypeOK
      <4> QED BY <2>2, <4>1, <4>2 DEF EndAutoRunErrorQueue, TypeOK, Counted
    <3>2. CASE sessions' # {}
      BY <2>2, <3>2 DEF EndAutoRunErrorQueue, TypeOK, Counted
    <3> QED BY <3>1, <3>2
  <2>3. ASSUME NEW num \in Limits, SetMaxErrorQueue(num) PROVE Typed'
    BY <2>3 DEF SetMaxErrorQueue, TypeOK, Counted
  <2>4. CASE ClearErrorQueue
    BY <2>4 DEF ClearErrorQueue, vars, TypeOK, Counted
  <2>5. CASE SaveErrorQueue
    <3>1. file' \in Seq(Ops)
      <4>1. file' = [k \in 1..Len(queue) |-> queue[k].op] /\ Len(queue) \in Nat
        BY <2>5, LenProperties DEF SaveErrorQueue, TypeOK
      <4>2. \A k \in 1..Len(queue) : queue[k].op \in Ops
        <5>1. \A k \in 1..Len(queue) : queue[k] \in Item
          BY ElementOfSeq DEF TypeOK
        <5> QED BY <5>1 DEF Item
      <4> QED BY <4>1, <4>2, IsASeq
    <3> QED BY <2>5, <3>1 DEF SaveErrorQueue, TypeOK, Counted
  <2>6. CASE RestoreErrorQueue
    <3>1. queue' \in Seq(Item)
      BY <2>6, RestoreKeeps
    <3> QED BY <2>6, <3>1 DEF RestoreErrorQueue, TypeOK, Counted
  <2>7. ASSUME NEW pause \in BOOLEAN, PauseFirebase(pause) PROVE Typed'
    BY <2>7 DEF PauseFirebase, TypeOK, Counted
  <2> QED BY <1>10, <2>1, <2>2, <2>3, <2>4, <2>5, <2>6, <2>7 DEF AppCalls
<1>11. CASE NetworkChanges
  BY <1>11 DEF NetworkChanges, TypeOK, Counted
<1>12. CASE Restart
  <2>1. queue' \in Seq(Item)
    BY <1>12 DEF Restart
  <2>2. /\ at' \in [Threads -> {"idle", "scan", "check", "wait", "retry"}]
        /\ \A t \in Threads : at'[t] = "idle"
    BY <1>12 DEF Restart, Idle
  <2>3. /\ idx' \in [Threads -> Nat] /\ \A t \in Threads : idx'[t] = 0
        /\ tries' \in [Threads -> 0..Attempts] /\ err' \in [Threads -> 0..Attempts]
    BY <1>12 DEF Restart, Zero
  <2>4. job' \in [Threads -> Item]
    BY <1>12, NoJobType DEF Restart
  <2>5. given' \in [Ops -> Ids \cup {0}]
    BY <1>12 DEF Restart
  <2> QED BY <1>12, <2>1, <2>2, <2>3, <2>4, <2>5 DEF Restart, TypeOK, Counted
<1>13. CASE UNCHANGED vars
  BY <1>13 DEF vars, TypeOK, Counted
<1> QED
  BY <1>1, <1>2, <1>3, <1>4, <1>5, <1>6, <1>7, <1>8, <1>9, <1>10, <1>11, <1>12, <1>13
     DEF Next, Handling

\* For every set of requests, tasks and limits, whatever fails: the types of
\* the queue, of the threads and of the histories.
THEOREM TypeCorrect == Spec => []TypeOK
<1>1. Spec => []Typed
  BY TypedInit, TypedStep, PTL DEF Spec
<1>2. Typed => TypeOK
  BY DEF Typed
<1> QED BY <1>1, <1>2, PTL

-----------------------------------------------------------------------------
\* One thread at most can run processErrorQueue: the application, which then
\* lets no task do it, or the only task.
OneProcessor == /\ "process" \in Calls => Tasks = {}
                /\ \A s, t \in Tasks : s = t

\* Threads that are in a re-run: App only if it processes.
Processing == \A t \in Threads : idx[t] > 0 => (t = App => "process" \in Calls)

LEMMA OneAtATime ==
  ASSUME OneProcessor, Processing, NEW s \in Threads, NEW t \in Threads,
         idx[s] > 0, idx[t] > 0
  PROVE  s = t
  BY DEF OneProcessor, Processing, Threads

QueueInv == Typed /\ Processing /\ RightItem

LEMMA ReturnsProcessing ==
  ASSUME TypeOK, Processing, NEW t \in Threads, Returns(t)
  PROVE  Processing'
  BY DEF Returns, Processing, TypeOK

\* A request queued behind the others moves none of them.
LEMMA AddQueueKeeps ==
  ASSUME TypeOK, NEW t \in Threads, AddQueue(t)
  PROVE  /\ DOMAIN queue \subseteq DOMAIN queue'
         /\ \A k \in DOMAIN queue : queue'[k] = queue[k]
<1>1. CASE UNCHANGED <<queue, queueID, given>>
  BY <1>1
<1>2. CASE ~UNCHANGED <<queue, queueID, given>>
  <2>1. PICK id \in Ids : queue' = Append(queue, [id |-> id, op |-> job[t].op])
    BY <1>2 DEF AddQueue
  <2>2. [id |-> id, op |-> job[t].op] \in Item
    BY DEF TypeOK, Item
  <2> QED BY <2>1, <2>2, LenProperties DEF TypeOK
<1> QED BY <1>1, <1>2

\* What RightItem says of the threads that stay in their attempt.
LEMMA RightItemKept ==
  ASSUME RightItem, NEW t \in Threads,
         DOMAIN queue \subseteq DOMAIN queue',
         \A k \in DOMAIN queue : queue'[k] = queue[k],
         \A u \in Threads : at'[u] \in {"check", "wait", "retry"} /\ idx'[u] > 0 =>
             /\ at[u] \in {"check", "wait", "retry"}
             /\ idx'[u] = idx[u] /\ job'[u] = job[u]
  PROVE  RightItem'
  BY DEF RightItem

LEMMA QueueInvStep ==
  ASSUME OneProcessor
  PROVE  QueueInv /\ [Next]_vars => QueueInv'
<1> SUFFICES ASSUME QueueInv, [Next]_vars PROVE QueueInv'
  OBVIOUS
<1> USE DEF QueueInv, objVars, netVars, thrVars, taskVars, histVars
<1>0. Typed' /\ TypeOK /\ TypeOK'
  BY TypedStep DEF Typed
<1> SUFFICES Processing' /\ RightItem'
  BY <1>0
<1> USE <1>0
<1>1. ASSUME NEW t \in Threads, Returns(t), UNCHANGED job,
             DOMAIN queue \subseteq DOMAIN queue', \A k \in DOMAIN queue : queue'[k] = queue[k]
      PROVE  Processing' /\ RightItem'
  <2>1. \A u \in Threads : at'[u] \in {"check", "wait", "retry"} /\ idx'[u] > 0 =>
             /\ at[u] \in {"check", "wait", "retry"}
             /\ idx'[u] = idx[u] /\ job'[u] = job[u]
    BY <1>1 DEF Returns, TypeOK
  <2> QED BY <1>1, <2>1, ReturnsProcessing, RightItemKept
<1>2. ASSUME NEW t \in Threads, ReturnsTrue(t), UNCHANGED job
      PROVE  Processing' /\ RightItem'
  <2>1. CASE idx[t] = 0
    <3>1. idx[t] \notin DOMAIN queue
      BY <2>1, LenProperties DEF TypeOK
    <3> QED BY <1>1, <1>2, <3>1 DEF ReturnsTrue
  <2>2. CASE idx[t] > 0
    <3>1. \A u \in Threads : u # t => ~(idx'[u] > 0)
      BY <1>2, <2>2, OneAtATime DEF ReturnsTrue, Returns, TypeOK
    <3>2. at'[t] = "scan"
      BY <1>2, <2>2 DEF ReturnsTrue, Returns, TypeOK
    <3> QED BY <1>2, <3>1, <3>2, ReturnsProcessing DEF ReturnsTrue, RightItem
  <2> QED BY <2>1, <2>2 DEF TypeOK
\* Steps in which the queue, the indices and the requests stay.
<1>3. ASSUME UNCHANGED <<queue, idx, job>>,
             \A u \in Threads : at'[u] \in {"check", "wait", "retry"} =>
                                at[u] \in {"check", "wait", "retry"}
      PROVE  Processing' /\ RightItem'
  BY <1>3 DEF Processing, RightItem
<1>4. ASSUME NEW t \in Threads, Handling(t) PROVE Processing' /\ RightItem'
  <2>1. CASE Refused(t)
    BY <1>1, <2>1 DEF Refused
  <2>2. CASE Offline(t)
    BY <1>1, <2>2, AddQueueKeeps DEF Offline
  <2>3. CASE Attempt(t)
    BY <1>3, <2>3 DEF Attempt, TypeOK
  <2>4. CASE Succeeds(t)
    BY <1>2, <2>4 DEF Succeeds
  <2>5. CASE PauseSkips(t)
    BY <1>2, <2>5 DEF PauseSkips
  <2>6. CASE Rejected(t)
    <3>1. CASE at' = [at EXCEPT ![t] = "retry"] /\ UNCHANGED idx
      <4>1. at[t] \in {"wait", "retry"}
        BY <2>6 DEF Rejected
      <4> QED BY <1>3, <2>6, <3>1, <4>1 DEF Rejected, TypeOK
    <3>2. CASE Returns(t)
      BY <1>1, <2>6, <3>2 DEF Rejected
    <3> QED BY <2>6, <3>1, <3>2 DEF Rejected
  <2>7. CASE ConnectionError(t)
    <3>1. at[t] = "wait" /\ UNCHANGED job
      BY <2>7 DEF ConnectionError
    <3>2. CASE at' = [at EXCEPT ![t] = "retry"] /\ UNCHANGED <<idx, queue>>
      BY <1>3, <3>1, <3>2 DEF TypeOK
    <3>3. CASE Returns(t) /\ (AddQueue(t) \/ UNCHANGED <<queue, queueID, given>>)
      BY <1>1, <3>1, <3>3, AddQueueKeeps
    <3> QED BY <2>7, <3>2, <3>3 DEF ConnectionError, AttemptFails
  <2> QED BY <1>4, <2>1, <2>2, <2>3, <2>4, <2>5, <2>6, <2>7 DEF Handling
<1>5. ASSUME NEW t \in Threads, Passing(t) PROVE Processing' /\ RightItem'
  <2>1. CASE PassBegins(t)
    <3>1. Processing'
      BY <2>1 DEF PassBegins, Processing, TypeOK
    <3> QED BY <2>1, <3>1 DEF PassBegins, RightItem, TypeOK
  <2>2. CASE PassEnds(t)
    <3>1. Processing'
      BY <2>2 DEF PassEnds, Processing, TypeOK
    <3> QED BY <2>2, <3>1 DEF PassEnds, RightItem, TypeOK
  <2>3. CASE DropsItem(t)
    <3>1. idx[t] > 0
      BY <2>3 DEF DropsItem, Typed, Counted
    <3>2. Processing'
      BY <2>3, <3>1 DEF DropsItem, Processing, TypeOK
    <3>3. \A u \in Threads : u # t => ~(idx'[u] > 0)
      BY <2>3, <3>1, OneAtATime DEF DropsItem, TypeOK
    <3> QED BY <2>3, <3>2, <3>3 DEF DropsItem, RightItem
  <2>4. CASE TakesItem(t)
    <3>1. idx[t] \in DOMAIN queue
      BY <2>4, LenProperties DEF TakesItem, TypeOK, Typed, Counted
    <3>2. Processing'
      BY <2>4 DEF TakesItem, Processing
    <3>3. job'[t] = queue[idx[t]] /\ \A u \in Threads : u # t => job'[u] = job[u] /\ at'[u] = at[u]
      BY <2>4 DEF TakesItem, TypeOK
    <3> QED BY <2>4, <3>1, <3>2, <3>3 DEF TakesItem, RightItem
  <2> QED BY <1>5, <2>1, <2>2, <2>3, <2>4 DEF Passing
<1>6. ASSUME NEW op \in Ops, Request(op) PROVE Processing' /\ RightItem'
  <2>1. idx[App] = 0
    BY <1>6 DEF Request, Typed, Counted, Threads
  <2> QED BY <1>6, <2>1 DEF Request, Processing, RightItem, TypeOK, Threads
<1>7. CASE AppCalls
  <2>1. ASSUME NEW o \in Objects, BeginAutoRunErrorQueue(o) PROVE Processing' /\ RightItem'
    BY <1>3, <2>1 DEF BeginAutoRunErrorQueue
  <2>2. ASSUME NEW o \in Objects, EndAutoRunErrorQueue(o) PROVE Processing' /\ RightItem'
    <3>1. CASE UNCHANGED <<at, idx>>
      BY <1>3, <2>2, <3>1 DEF EndAutoRunErrorQueue
    <3>2. CASE /\ at' = [t \in Threads |-> IF t = handle THEN "idle" ELSE at[t]]
               /\ idx' = [t \in Threads |-> IF t = handle THEN 0 ELSE idx[t]]
      <4>1. UNCHANGED <<queue, job>>
        BY <2>2 DEF EndAutoRunErrorQueue
      <4> QED BY <3>2, <4>1 DEF Processing, RightItem
    <3> QED BY <2>2, <3>1, <3>2 DEF EndAutoRunErrorQueue
  <2>3. ASSUME NEW num \in Limits, SetMaxErrorQueue(num) PROVE Processing' /\ RightItem'
    BY <1>3, <2>3 DEF SetMaxErrorQueue
  <2>4. CASE ClearErrorQueue
    BY <1>3, <2>4 DEF ClearErrorQueue, vars
  <2>5. CASE SaveErrorQueue
    BY <1>3, <2>5 DEF SaveErrorQueue
  <2>6. CASE RestoreErrorQueue
    <3>1. /\ DOMAIN queue \subseteq DOMAIN queue'
          /\ \A k \in DOMAIN queue : queue'[k] = queue[k]
      BY <2>6, RestoreKeeps
    <3> QED BY <2>6, <3>1 DEF RestoreErrorQueue, Processing, RightItem
  <2>7. ASSUME NEW pause \in BOOLEAN, PauseFirebase(pause) PROVE Processing' /\ RightItem'
    BY <1>3, <2>7 DEF PauseFirebase
  <2> QED BY <1>7, <2>1, <2>2, <2>3, <2>4, <2>5, <2>6, <2>7 DEF AppCalls
<1>8. CASE NetworkChanges
  BY <1>3, <1>8 DEF NetworkChanges
<1>9. CASE Restart
  BY <1>9 DEF Restart, Processing, RightItem, Idle, Zero
<1>10. CASE UNCHANGED vars
  BY <1>3, <1>10 DEF vars
<1> QED BY <1>4, <1>5, <1>6, <1>7, <1>8, <1>9, <1>10 DEF Next

\* When one thread at a time processes the queue: the item erased at the
\* index is the one that was run, however many requests fail meanwhile, tasks
\* are deleted or limits changed.
THEOREM ErasesWhatItRan ==
  ASSUME OneProcessor
  PROVE  Spec => []RightItem
<1>1. Init => QueueInv
  <2> SUFFICES ASSUME Init PROVE Processing /\ RightItem
    BY TypedInit DEF QueueInv
  <2> QED BY DEF Init, Processing, RightItem, Idle, Zero
<1>2. QueueInv => RightItem
  BY DEF QueueInv
<1>3. Spec => []QueueInv
  BY <1>1, QueueInvStep, PTL DEF Spec
<1> QED BY <1>2, <1>3, PTL

-----------------------------------------------------------------------------
\* The application pauses nothing.
NeverPaused == "pause" \notin Calls

\* A request that was queued is there under the id it was given, or done.
Kept == /\ ~paused
        /\ \A op \in Ops : given[op] # 0 =>
              \/ op \in executed
              \/ \E k \in DOMAIN queue : queue[k] = [id |-> given[op], op |-> op]

\* Items may be added and ids given to what is added.
LEMMA KeptByAdding ==
  ASSUME TypeOK, Kept, NEW t \in Threads,
         AddQueue(t) \/ UNCHANGED <<queue, queueID, given>>,
         executed \subseteq executed', UNCHANGED paused
  PROVE  Kept'
<1>1. CASE UNCHANGED <<queue, queueID, given>>
  BY <1>1 DEF Kept
<1>2. CASE AddQueue(t) /\ ~UNCHANGED <<queue, queueID, given>>
  <2>1. PICK id \in Ids :
           /\ queue' = Append(queue, [id |-> id, op |-> job[t].op])
           /\ given' = [given EXCEPT ![job[t].op] = IF @ = 0 THEN id ELSE @]
    BY <1>2 DEF AddQueue
  <2>2. [id |-> id, op |-> job[t].op] \in Item /\ job[t].op \in Ops
    BY DEF TypeOK, Item
  <2>3. /\ DOMAIN queue \subseteq DOMAIN queue'
        /\ \A k \in DOMAIN queue : queue'[k] = queue[k]
    BY <1>2, AddQueueKeeps
  <2>4. \E k \in DOMAIN queue' : queue'[k] = [id |-> id, op |-> job[t].op]
    <3>1. /\ Len(queue) + 1 \in DOMAIN queue'
          /\ queue'[Len(queue) + 1] = [id |-> id, op |-> job[t].op]
      BY <2>1, <2>2, LenProperties DEF TypeOK
    <3> QED BY <3>1
  <2>5. \A op \in Ops : given'[op] = given[op] \/ (op = job[t].op /\ given'[op] = id)
    BY <2>1 DEF TypeOK
  <2> QED BY <2>3, <2>4, <2>5 DEF Kept
<1> QED BY <1>1, <1>2

\* An item may be erased when its request is done, or has no id.
LEMMA KeptByErasing ==
  ASSUME TypeOK, Kept, NEW i \in DOMAIN queue, queue' = RemoveAt(queue, i),
         queue[i].id = 0 \/ queue[i].op \in executed',
         executed \subseteq executed', UNCHANGED <<given, paused>>
  PROVE  Kept'
<1>1. \A k \in DOMAIN queue \ {i} : \E j \in DOMAIN queue' : queue'[j] = queue[k]
  BY RemoveAtKeeps DEF TypeOK
<1>2. ASSUME NEW op \in Ops, given'[op] # 0, op \notin executed'
      PROVE  \E j \in DOMAIN queue' : queue'[j] = [id |-> given'[op], op |-> op]
  <2>1. PICK k \in DOMAIN queue : queue[k] = [id |-> given[op], op |-> op]
    BY <1>2 DEF Kept
  <2>2. k # i
    BY <1>2, <2>1
  <2> QED BY <1>1, <2>1, <2>2
<1> QED BY <1>2 DEF Kept

LEMMA KeptStep ==
  ASSUME OneProcessor, NeverPaused
  PROVE  QueueInv /\ Kept /\ [Next]_vars => Kept'
<1> SUFFICES ASSUME QueueInv, Kept, [Next]_vars PROVE Kept'
  OBVIOUS
<1> USE DEF objVars, netVars, thrVars, taskVars, histVars
<1>0. TypeOK /\ RightItem
  BY DEF QueueInv, Typed
<1>1. ASSUME UNCHANGED <<queue, given, paused>>, executed \subseteq executed' PROVE Kept'
  BY <1>1 DEF Kept
<1>2. ASSUME NEW t \in Threads, Handling(t) PROVE Kept'
  <2>1. CASE Refused(t)
    BY <1>1, <2>1 DEF Refused
  <2>2. CASE Offline(t)
    BY <1>0, <2>2, KeptByAdding DEF Offline
  <2>3. CASE Attempt(t)
    BY <1>1, <2>3 DEF Attempt
  <2>4. CASE Succeeds(t)
    <3>1. CASE idx[t] \in DOMAIN queue
      <4>1. idx[t] > 0
        BY <1>0, <3>1, LenProperties DEF TypeOK
      <4>2. queue[idx[t]] = job[t]
        BY <1>0, <2>4, <4>1 DEF Succeeds, RightItem
      <4>3. /\ queue' = RemoveAt(queue, idx[t]) /\ UNCHANGED <<given, paused>>
            /\ executed' = executed \cup {job[t].op}
        BY <2>4, <3>1 DEF Succeeds, ReturnsTrue
      <4> QED BY <1>0, <3>1, <4>2, <4>3, KeptByErasing
    <3>2. CASE idx[t] \notin DOMAIN queue
      BY <1>1, <2>4, <3>2 DEF Succeeds, ReturnsTrue
    <3> QED BY <3>1, <3>2
  <2>5. CASE PauseSkips(t)
    BY <2>5 DEF PauseSkips, Kept
  <2>6. CASE Rejected(t)
    BY <1>1, <2>6 DEF Rejected
  <2>7. CASE ConnectionError(t)
    BY <1>0, <2>7, KeptByAdding DEF ConnectionError, AttemptFails
  <2> QED BY <1>2, <2>1, <2>2, <2>3, <2>4, <2>5, <2>6, <2>7 DEF Handling
<1>3. ASSUME NEW t \in Threads, Passing(t) PROVE Kept'
  <2>1. CASE PassBegins(t) \/ PassEnds(t) \/ TakesItem(t)
    BY <1>1, <2>1 DEF PassBegins, PassEnds, TakesItem
  <2>2. CASE DropsItem(t)
    <3>1. idx[t] \in DOMAIN queue
      BY <1>0, <2>2, LenProperties DEF DropsItem, TypeOK, QueueInv, Typed, Counted
    <3>2. /\ queue' = RemoveAt(queue, idx[t]) /\ queue[idx[t]].id = 0
          /\ UNCHANGED <<given, paused, executed>>
      BY <2>2 DEF DropsItem
    <3> QED BY <1>0, <3>1, <3>2, KeptByErasing
  <2> QED BY <1>3, <2>1, <2>2 DEF Passing
<1>4. ASSUME NEW op \in Ops, Request(op) PROVE Kept'
  BY <1>1, <1>4 DEF Request
<1>5. CASE AppCalls
  <2>1. CASE RestoreErrorQueue
    BY <1>0, <2>1, RestoreKeeps DEF RestoreErrorQueue, Kept
  <2>2. ~\E pause \in BOOLEAN : PauseFirebase(pause)
    BY DEF NeverPaused, PauseFirebase, Free
  <2>3. CASE ~RestoreErrorQueue
    <3>1. UNCHANGED <<queue, given, paused, executed>>
      BY <1>5, <2>2, <2>3
         DEF AppCalls, BeginAutoRunErrorQueue, EndAutoRunErrorQueue, SetMaxErrorQueue,
             ClearErrorQueue, SaveErrorQueue, vars
    <3> QED BY <1>1, <3>1
  <2> QED BY <2>1, <2>3
<1>6. CASE NetworkChanges
  BY <1>1, <1>6 DEF NetworkChanges
<1>7. CASE Restart
  BY <1>7 DEF Restart, Kept
<1>8. CASE UNCHANGED vars
  BY <1>1, <1>8 DEF vars
<1> QED BY <1>2, <1>3, <1>4, <1>5, <1>6, <1>7, <1>8 DEF Next

\* ... and if nobody pauses the object, a request that was queued stays in
\* the queue until the server has done it: README.md:1216's test of its id is
\* then a true one, also when ids collide.
THEOREM GoneMeansDone ==
  ASSUME OneProcessor, NeverPaused
  PROVE  Spec => []DoneWhenGone
<1>1. Init => QueueInv /\ Kept
  <2> SUFFICES ASSUME Init PROVE Processing /\ RightItem /\ Kept
    BY TypedInit DEF QueueInv
  <2> QED BY DEF Init, Processing, RightItem, Kept, Idle, Zero
<1>2. QueueInv /\ Kept => DoneWhenGone
  BY DEF Kept, DoneWhenGone, Existed
<1>3. QueueInv /\ Kept /\ [Next]_vars => (QueueInv /\ Kept)'
  BY QueueInvStep, KeptStep
<1> QED BY <1>1, <1>2, <1>3, PTL DEF Spec

-----------------------------------------------------------------------------
\* When one thread at a time processes the queue and the limit is at least 1:
\* no erasure at an index and no loop over one runs off the end of the queue.
THEOREM NothingAborts ==
  ASSUME OneProcessor, 0 \notin Limits
  PROVE  Spec => []CallsReturn
<1>1. Init => QueueInv /\ CallsReturn
  <2> SUFFICES ASSUME Init PROVE Processing /\ RightItem /\ CallsReturn
    BY TypedInit DEF QueueInv
  <2> QED BY DEF Init, Processing, RightItem, CallsReturn, Idle, Zero
<1>2. QueueInv /\ CallsReturn /\ [Next]_vars => CallsReturn'
  <2> SUFFICES ASSUME QueueInv, CallsReturn, [Next]_vars PROVE board' = "up"
    BY DEF CallsReturn
  <2> USE DEF CallsReturn
  <2>1. ASSUME NEW t \in Threads, ReturnsTrue(t), at[t] = "wait" PROVE board' = "up"
    <3>1. Len(queue) \in Nat /\ DOMAIN queue = 1..Len(queue) /\ idx[t] \in Nat
      BY LenProperties DEF QueueInv, Typed, TypeOK
    <3>2. CASE idx[t] = 0
      BY <2>1, <3>1, <3>2 DEF ReturnsTrue
    <3>3. CASE idx[t] > 0
      <4>1. idx[t] \in DOMAIN queue
        BY <2>1, <3>3 DEF QueueInv, RightItem
      <4> QED BY <2>1, <3>1, <4>1 DEF ReturnsTrue
    <3> QED BY <3>1, <3>2, <3>3
  <2>2. ASSUME NEW t \in Threads, Handling(t) PROVE board' = "up"
    BY <2>1, <2>2 DEF Handling, Refused, Offline, Attempt, Succeeds, PauseSkips,
                      Rejected, ConnectionError
  <2>3. ASSUME NEW t \in Threads, Passing(t) PROVE board' = "up"
    BY <2>3 DEF Passing, PassBegins, PassEnds, DropsItem, TakesItem
  <2>4. ASSUME NEW op \in Ops, Request(op) PROVE board' = "up"
    BY <2>4 DEF Request
  <2>5. ASSUME NEW num \in Limits, SetMaxErrorQueue(num) PROVE board' = "up"
    BY <2>5 DEF SetMaxErrorQueue
  <2>6. CASE AppCalls
    BY <2>5, <2>6 DEF AppCalls, BeginAutoRunErrorQueue, EndAutoRunErrorQueue,
         ClearErrorQueue, SaveErrorQueue, RestoreErrorQueue, PauseFirebase, vars
  <2>7. CASE NetworkChanges \/ Restart \/ UNCHANGED vars
    BY <2>7 DEF NetworkChanges, Restart, vars
  <2> QED BY <2>2, <2>3, <2>4, <2>6, <2>7 DEF Next
<1>3. QueueInv /\ [Next]_vars => QueueInv'
  BY QueueInvStep
<1> QED BY <1>1, <1>2, <1>3, PTL DEF Spec

-----------------------------------------------------------------------------
\* With a legacy token a request to store that ends at once for want of the
\* network is in the queue, if there was room: no check refuses it earlier.
THEOREM FailsIntoQueue ==
  ASSUME Legacy
  PROVE  Spec => OfflineIsQueued
<1>1. ASSUME TypeOK, NEW op \in Ops, StoreEndsOffline(op)
      PROVE  \E k \in DOMAIN queue' : queue'[k].op = op
  <2>1. App \in Threads /\ at[App] = "check" /\ at'[App] = "idle" /\ job[App].op = op
    BY <1>1 DEF StoreEndsOffline, Threads
  <2>2. Offline(App)
    BY <1>1, <2>1 DEF StoreEndsOffline, Handling, Refused, Refuses, Attempt, Succeeds,
                      PauseSkips, Rejected, ConnectionError, TypeOK
  <2>3. PICK id \in Ids : queue' = Append(queue, [id |-> id, op |-> op])
    BY <1>1, <2>1, <2>2 DEF Offline, AddQueue, StoreEndsOffline
  <2>4. [id |-> id, op |-> op] \in Item
    BY DEF Item
  <2>5. Len(queue) + 1 \in DOMAIN queue' /\ queue'[Len(queue) + 1].op = op
    BY <1>1, <2>3, <2>4, LenProperties DEF TypeOK
  <2> QED BY <2>5
<1>2. TypeOK /\ [Next]_vars =>
         [\A op \in Ops : StoreEndsOffline(op) => \E k \in DOMAIN queue' : queue'[k].op = op]_vars
  BY <1>1
<1> QED BY <1>2, TypeCorrect, PTL DEF Spec, OfflineIsQueued

-----------------------------------------------------------------------------
(* The queue implements KeptRequests.                                      *)

\* Erasing an item takes that item, or one of its copies.
LEMMA RemoveAtRange ==
  ASSUME NEW S, NEW s \in Seq(S), NEW i \in DOMAIN s
  PROVE  \/ Range(RemoveAt(s, i)) = Range(s)
         \/ Range(RemoveAt(s, i)) = Range(s) \ {s[i]}
<1> DEFINE r == RemoveAt(s, i)
<1>1. /\ \A k \in DOMAIN s \ {i} : \E j \in DOMAIN r : r[j] = s[k]
      /\ \A j \in DOMAIN r : \E k \in DOMAIN s : r[j] = s[k]
  BY RemoveAtKeeps
<1> HIDE DEF r
<1>2. Range(r) \subseteq Range(s)
  BY <1>1 DEF Range
<1>3. Range(s) \ {s[i]} \subseteq Range(r)
  <2> SUFFICES ASSUME NEW k \in DOMAIN s, s[k] # s[i] PROVE s[k] \in Range(r)
    BY DEF Range
  <2>1. k \in DOMAIN s \ {i}
    OBVIOUS
  <2> QED BY <1>1, <2>1 DEF Range
<1>4. Range(r) = Range(s) \/ Range(r) = Range(s) \ {s[i]}
  <2>1. s[i] \in Range(r) => Range(r) = Range(s)
    BY <1>2, <1>3
  <2>2. s[i] \notin Range(r) => Range(r) = Range(s) \ {s[i]}
    BY <1>2, <1>3
  <2> QED BY <2>1, <2>2
<1> QED BY <1>4 DEF r

LEMMA AppendRange ==
  ASSUME NEW S, NEW s \in Seq(S), NEW e \in S
  PROVE  Range(Append(s, e)) = Range(s) \cup {e}
<1> DEFINE r == Append(s, e)
<1>1. /\ Len(s) \in Nat /\ DOMAIN s = 1 .. Len(s) /\ DOMAIN r = 1 .. Len(s) + 1
      /\ \A k \in 1 .. Len(s) : r[k] = s[k]
      /\ r[Len(s) + 1] = e
  BY LenProperties, AppendProperties
<1> HIDE DEF r
<1>2. Range(r) \subseteq Range(s) \cup {e}
  <2> SUFFICES ASSUME NEW k \in 1 .. Len(s) + 1 PROVE r[k] \in Range(s) \cup {e}
    BY <1>1 DEF Range
  <2>1. k \in 1 .. Len(s) \/ k = Len(s) + 1
    BY <1>1
  <2> QED BY <1>1, <2>1 DEF Range
<1>3. Range(s) \cup {e} \subseteq Range(r)
  <2>1. \A k \in 1 .. Len(s) : k \in DOMAIN r
    BY <1>1
  <2>2. Len(s) + 1 \in DOMAIN r
    BY <1>1
  <2> QED BY <1>1, <2>1, <2>2 DEF Range
<1> QED BY <1>2, <1>3 DEF r

\* What is queued, in the file or being run is a request of the application.
Issued == /\ \A k \in DOMAIN queue : queue[k].op \in issued
          /\ \A k \in DOMAIN file : file[k] \in issued
          /\ \A t \in Threads : at[t] \in {"check", "wait", "retry"} => job[t].op \in issued

LEMMA IssuedByAdding ==
  ASSUME TypeOK, Issued, NEW t \in Threads, job[t].op \in issued,
         AddQueue(t) \/ UNCHANGED <<queue, queueID, given>>
  PROVE  \A k \in DOMAIN queue' : queue'[k].op \in issued
<1>1. CASE UNCHANGED queue
  BY <1>1 DEF Issued
<1>2. CASE \E id \in Ids : queue' = Append(queue, [id |-> id, op |-> job[t].op])
  <2>1. PICK id \in Ids : queue' = Append(queue, [id |-> id, op |-> job[t].op])
    BY <1>2
  <2>2. [id |-> id, op |-> job[t].op] \in Item
    BY DEF TypeOK, Item
  <2>3. Range(queue') = Range(queue) \cup {[id |-> id, op |-> job[t].op]}
    BY <2>1, <2>2, AppendRange DEF TypeOK
  <2>4. \A k \in DOMAIN queue' : queue'[k] \in Range(queue')
    BY DEF Range
  <2> QED BY <2>3, <2>4 DEF Issued, Range
<1> QED BY <1>1, <1>2 DEF AddQueue

LEMMA IssuedByErasing ==
  ASSUME TypeOK, Issued, NEW i \in DOMAIN queue, queue' = RemoveAt(queue, i)
  PROVE  \A k \in DOMAIN queue' : queue'[k].op \in issued
<1>1. \A j \in DOMAIN queue' : \E k \in DOMAIN queue : queue'[j] = queue[k]
  BY RemoveAtKeeps DEF TypeOK
<1> QED BY <1>1 DEF Issued

\* What RestoreErrorQueue puts behind the items.
LEMMA RestoreRange ==
  ASSUME TypeOK, RestoreErrorQueue
  PROVE  Range(queue') = Range(queue) \cup {[id |-> 0, op |-> op] : op \in Range(file)}
<1> DEFINE r == [k \in DOMAIN file |-> [id |-> 0, op |-> file[k]]]
           q == queue \o r
<1>1. /\ Len(queue) \in Nat /\ DOMAIN queue = 1 .. Len(queue)
      /\ Len(file) \in Nat /\ DOMAIN file = 1 .. Len(file)
  BY LenProperties DEF TypeOK
<1>2. r \in Seq(Item) /\ Len(r) = Len(file)
  <2>1. \A k \in 1 .. Len(file) : file[k] \in Ops
    BY <1>1 DEF TypeOK
  <2>2. \A k \in 1 .. Len(file) : [id |-> 0, op |-> file[k]] \in Item
    BY <2>1 DEF Item
  <2>3. r \in [1 .. Len(file) -> Item]
    BY <1>1, <2>2
  <2> QED BY <1>1, <2>3
<1>3. \A k \in 1 .. Len(file) : r[k] = [id |-> 0, op |-> file[k]]
  BY <1>1
<1> HIDE DEF r
<1>4. /\ DOMAIN q = 1 .. Len(queue) + Len(file)
      /\ \A k \in 1 .. Len(queue) : q[k] = queue[k]
      /\ \A k \in 1 .. Len(queue) + Len(file) :
             k > Len(queue) => q[k] = r[k - Len(queue)]
  <2>1. queue \in Seq(Item)
    BY DEF TypeOK
  <2>2. /\ q \in Seq(Item) /\ Len(q) = Len(queue) + Len(file)
        /\ \A k \in 1 .. Len(queue) + Len(file) :
              q[k] = IF k <= Len(queue) THEN queue[k] ELSE r[k - Len(queue)]
    <3>1. /\ q \in Seq(Item) /\ Len(q) = Len(queue) + Len(r)
          /\ \A k \in 1 .. Len(queue) + Len(r) :
                q[k] = IF k <= Len(queue) THEN queue[k] ELSE r[k - Len(queue)]
      BY <1>2, <2>1, ConcatProperties, Zenon
    <3> QED BY <1>2, <3>1, Zenon
  <2> HIDE DEF q
  <2>3. DOMAIN q = 1 .. Len(queue) + Len(file)
    BY <2>2, LenProperties
  <2>4. \A k \in 1 .. Len(queue) : k \in 1 .. Len(queue) + Len(file) /\ k <= Len(queue)
    BY <1>1
  <2>5. \A k \in 1 .. Len(queue) + Len(file) : k > Len(queue) => ~(k <= Len(queue))
    BY <1>1
  <2> QED BY <2>2, <2>3, <2>4, <2>5
<1>5. queue' = q
  BY DEF RestoreErrorQueue, r
<1> HIDE DEF q
<1>6. Range(q) \subseteq Range(queue) \cup {[id |-> 0, op |-> op] : op \in Range(file)}
  <2> SUFFICES ASSUME NEW k \in 1 .. Len(queue) + Len(file)
               PROVE  q[k] \in Range(queue) \cup {[id |-> 0, op |-> op] : op \in Range(file)}
    BY <1>4 DEF Range
  <2>1. k \in 1 .. Len(queue) \/ (k > Len(queue) /\ k - Len(queue) \in 1 .. Len(file))
    BY <1>1
  <2>2. CASE k \in 1 .. Len(queue)
    BY <1>1, <1>4, <2>2 DEF Range
  <2>3. CASE k > Len(queue) /\ k - Len(queue) \in 1 .. Len(file)
    <3> DEFINE j == k - Len(queue)
    <3>1. j \in DOMAIN file /\ q[k] = [id |-> 0, op |-> file[j]]
      BY <1>1, <1>3, <1>4, <2>3
    <3> HIDE DEF j
    <3> QED BY <3>1 DEF Range
  <2> QED BY <2>1, <2>2, <2>3
<1>7. Range(queue) \subseteq Range(q)
  <2>1. \A k \in 1 .. Len(queue) : k \in DOMAIN q
    BY <1>1, <1>4
  <2> QED BY <1>1, <1>4, <2>1 DEF Range
<1>8. \A k \in DOMAIN file : [id |-> 0, op |-> file[k]] \in Range(q)
  <2> TAKE k \in DOMAIN file
  <2> DEFINE j == Len(queue) + k
  <2>1. j \in DOMAIN q /\ j > Len(queue) /\ j - Len(queue) = k
    BY <1>1, <1>4
  <2>2. q[j] = [id |-> 0, op |-> file[k]]
    BY <1>1, <1>3, <1>4, <2>1
  <2> HIDE DEF j
  <2> QED BY <2>1, <2>2 DEF Range
<1> QED BY <1>5, <1>6, <1>7, <1>8 DEF Range

LEMMA IssuedStep == Typed /\ Issued /\ [Next]_vars => Issued'
<1> SUFFICES ASSUME Typed, Issued, [Next]_vars PROVE Issued'
  OBVIOUS
<1> USE DEF objVars, netVars, thrVars, taskVars, histVars
<1>0. TypeOK /\ TypeOK'
  BY TypedStep DEF Typed
\* Steps after which the threads run what they ran before, or nothing.
<1>1. ASSUME UNCHANGED <<file, job>>, issued \subseteq issued',
             \A k \in DOMAIN queue' : queue'[k].op \in issued,
             \A u \in Threads : at'[u] \in {"check", "wait", "retry"} =>
                                at[u] \in {"check", "wait", "retry"}
      PROVE  Issued'
  BY <1>1 DEF Issued
<1>2. \A k \in DOMAIN queue : queue[k].op \in issued
  BY DEF Issued
<1>3. ASSUME NEW t \in Threads, Returns(t)
      PROVE  \A u \in Threads : at'[u] \in {"check", "wait", "retry"} =>
                                at[u] \in {"check", "wait", "retry"}
  BY <1>0, <1>3 DEF Returns, TypeOK
<1>4. ASSUME NEW t \in Threads, ReturnsTrue(t), UNCHANGED <<file, job, issued>>
      PROVE  Issued'
  <2>1. \A k \in DOMAIN queue' : queue'[k].op \in issued
    BY <1>0, <1>2, <1>4, IssuedByErasing DEF ReturnsTrue
  <2> QED BY <1>1, <1>3, <1>4, <2>1 DEF ReturnsTrue
<1>5. ASSUME NEW t \in Threads, Handling(t) PROVE Issued'
  <2>1. CASE Refused(t)
    BY <1>1, <1>2, <1>3, <2>1 DEF Refused
  <2>2. CASE Offline(t)
    <3>1. job[t].op \in issued
      BY <2>2 DEF Offline, Issued
    <3>2. \A k \in DOMAIN queue' : queue'[k].op \in issued
      BY <1>0, <2>2, <3>1, IssuedByAdding DEF Offline
    <3> QED BY <1>1, <1>3, <2>2, <3>2 DEF Offline
  <2>3. CASE Attempt(t)
    BY <1>0, <1>1, <1>2, <2>3 DEF Attempt, TypeOK
  <2>4. CASE Succeeds(t)
    BY <1>4, <2>4 DEF Succeeds
  <2>5. CASE PauseSkips(t)
    BY <1>4, <2>5 DEF PauseSkips
  <2>6. CASE Rejected(t)
    <3>1. CASE at' = [at EXCEPT ![t] = "retry"]
      <4>1. at[t] \in {"wait", "retry"}
        BY <2>6 DEF Rejected
      <4> QED BY <1>0, <1>1, <1>2, <2>6, <3>1, <4>1 DEF Rejected, TypeOK
    <3>2. CASE Returns(t)
      BY <1>1, <1>2, <1>3, <2>6, <3>2 DEF Rejected
    <3> QED BY <2>6, <3>1, <3>2 DEF Rejected
  <2>7. CASE ConnectionError(t)
    <3>1. at[t] = "wait" /\ UNCHANGED <<job, file, issued>>
      BY <2>7 DEF ConnectionError
    <3>2. job[t].op \in issued
      BY <3>1 DEF Issued
    <3>3. CASE at' = [at EXCEPT ![t] = "retry"] /\ UNCHANGED queue
      BY <1>0, <1>1, <1>2, <3>1, <3>3 DEF TypeOK
    <3>4. CASE Returns(t) /\ (AddQueue(t) \/ UNCHANGED <<queue, queueID, given>>)
      <4>1. \A k \in DOMAIN queue' : queue'[k].op \in issued
        BY <1>0, <3>2, <3>4, IssuedByAdding
      <4> QED BY <1>1, <1>3, <3>1, <3>4, <4>1
    <3> QED BY <2>7, <3>3, <3>4 DEF ConnectionError, AttemptFails
  <2> QED BY <1>5, <2>1, <2>2, <2>3, <2>4, <2>5, <2>6, <2>7 DEF Handling
<1>6. ASSUME NEW t \in Threads, Passing(t) PROVE Issued'
  <2>1. CASE PassBegins(t) \/ PassEnds(t)
    BY <1>0, <1>1, <1>2, <2>1 DEF PassBegins, PassEnds, TypeOK
  <2>2. CASE DropsItem(t)
    <3>1. idx[t] \in DOMAIN queue
      BY <1>0, <2>2, LenProperties DEF DropsItem, TypeOK, Typed, Counted
    <3>2. \A k \in DOMAIN queue' : queue'[k].op \in issued
      BY <1>0, <2>2, <3>1, IssuedByErasing DEF DropsItem
    <3> QED BY <1>1, <2>2, <3>2 DEF DropsItem
  <2>3. CASE TakesItem(t)
    <3>1. idx[t] \in DOMAIN queue
      BY <1>0, <2>3, LenProperties DEF TakesItem, TypeOK, Typed, Counted
    <3>2. /\ job'[t] = queue[idx[t]]
          /\ \A u \in Threads : u # t => job'[u] = job[u] /\ at'[u] = at[u]
      BY <1>0, <2>3 DEF TakesItem, TypeOK
    <3> QED BY <2>3, <3>1, <3>2 DEF TakesItem, Issued
  <2> QED BY <1>6, <2>1, <2>2, <2>3 DEF Passing
<1>7. ASSUME NEW op \in Ops, Request(op) PROVE Issued'
  <2>1. /\ issued' = issued \cup {op} /\ job'[App].op = op
        /\ \A u \in Threads : u # App => job'[u] = job[u] /\ at'[u] = at[u]
    BY <1>0, <1>7 DEF Request, TypeOK, Threads
  <2> QED BY <1>7, <2>1 DEF Request, Issued
<1>8. CASE AppCalls
  <2>1. ASSUME NEW o \in Objects, EndAutoRunErrorQueue(o) PROVE Issued'
    <3>1. \A u \in Threads : at'[u] \in {"check", "wait", "retry"} =>
                             at[u] \in {"check", "wait", "retry"}
      BY <2>1 DEF EndAutoRunErrorQueue
    <3> QED BY <1>1, <1>2, <2>1, <3>1 DEF EndAutoRunErrorQueue
  <2>2. CASE SaveErrorQueue
    BY <2>2 DEF SaveErrorQueue, Issued
  <2>3. CASE RestoreErrorQueue
    <3>1. Range(queue') = Range(queue) \cup {[id |-> 0, op |-> op] : op \in Range(file)}
      BY <1>0, <2>3, RestoreRange
    <3>2. \A k \in DOMAIN queue' : queue'[k] \in Range(queue')
      BY DEF Range
    <3>3. \A item \in Range(queue) : item.op \in issued
      BY <1>2 DEF Range
    <3>4. \A op \in Range(file) : op \in issued
      BY DEF Range, Issued
    <3>5. \A item \in {[id |-> 0, op |-> op] : op \in Range(file)} : item.op \in issued
      BY <3>4
    <3>6. \A k \in DOMAIN queue' : queue'[k].op \in issued
      BY <3>1, <3>2, <3>3, <3>5
    <3> QED BY <1>1, <2>3, <3>6 DEF RestoreErrorQueue
  <2>4. CASE ~RestoreErrorQueue /\ ~SaveErrorQueue /\ ~\E o \in Objects : EndAutoRunErrorQueue(o)
    <3>1. UNCHANGED <<queue, file, at, job, issued>>
      BY <1>8, <2>4
         DEF AppCalls, BeginAutoRunErrorQueue, SetMaxErrorQueue, ClearErrorQueue,
             PauseFirebase, vars
    <3> QED BY <1>1, <1>2, <3>1
  <2> QED BY <2>1, <2>2, <2>3, <2>4
<1>9. CASE NetworkChanges \/ UNCHANGED vars
  BY <1>1, <1>2, <1>9 DEF NetworkChanges, vars
<1>10. CASE Restart
  BY <1>10 DEF Restart, Issued, Idle
<1> QED BY <1>5, <1>6, <1>7, <1>8, <1>9, <1>10 DEF Next

\* What happens to a request that was sent or failed before: it is queued
\* or not ...
LEMMA AddsImplements ==
  ASSUME TypeOK, NEW t \in Threads, job[t].op \in issued,
         AddQueue(t) \/ UNCHANGED <<queue, queueID, given>>,
         executed' \in {executed, executed \cup {job[t].op}},
         UNCHANGED <<issued, file, paused>>
  PROVE  Promise!KeepNext
<1>1. job[t].op \in Ops
  BY DEF TypeOK, Item
<1>2. CASE UNCHANGED <<queue, given>>
  <2>1. UNCHANGED <<Range(queue), Range(file), given>>
    BY <1>2
  <2> QED BY <1>1, <2>1 DEF Promise!KeepNext, Promise!Runs
<1>3. CASE \E id \in Ids :
              /\ queue' = Append(queue, [id |-> id, op |-> job[t].op])
              /\ given' = [given EXCEPT ![job[t].op] = IF @ = 0 THEN id ELSE @]
  <2>1. PICK id \in Ids :
              /\ queue' = Append(queue, [id |-> id, op |-> job[t].op])
              /\ given' = [given EXCEPT ![job[t].op] = IF @ = 0 THEN id ELSE @]
    BY <1>3
  <2>2. [id |-> id, op |-> job[t].op] \in Item
    BY <1>1 DEF Item
  <2>3. Range(queue') = Range(queue) \cup {[id |-> id, op |-> job[t].op]}
    BY <2>1, <2>2, AppendRange DEF TypeOK
  <2>4. Promise!Keeps(job[t].op, id) /\ UNCHANGED Range(file)
    BY <2>1, <2>3 DEF Promise!Keeps
  <2> QED BY <1>1, <2>4 DEF Promise!KeepNext, Promise!Runs
<1> QED BY <1>2, <1>3 DEF AddQueue

\* ... or its item is erased, if it was a re-run.
LEMMA ReturnsTrueImplements ==
  ASSUME TypeOK, RightItem, NEW t \in Threads, at[t] = "wait", job[t].op \in issued,
         ReturnsTrue(t), job[t].op \in executed' \/ paused,
         executed' \in {executed, executed \cup {job[t].op}},
         UNCHANGED <<issued, given, file, paused>>
  PROVE  Promise!KeepNext
<1>1. job[t].op \in Ops
  BY DEF TypeOK, Item
<1>2. CASE UNCHANGED Range(queue)
  <2>1. UNCHANGED Range(file)
    OBVIOUS
  <2> QED BY <1>1, <1>2, <2>1 DEF Promise!KeepNext, Promise!Runs
<1>3. CASE idx[t] \notin DOMAIN queue
  BY <1>2, <1>3 DEF ReturnsTrue
<1>4. CASE idx[t] \in DOMAIN queue /\ ~UNCHANGED Range(queue)
  <2>1. idx[t] > 0
    BY <1>4, LenProperties DEF TypeOK
  <2>2. queue[idx[t]] = job[t]
    BY <2>1 DEF RightItem
  <2>3. queue' = RemoveAt(queue, idx[t])
    BY <1>4 DEF ReturnsTrue
  <2>4. Range(queue') = Range(queue) \ {job[t]}
    BY <1>4, <2>2, <2>3, RemoveAtRange DEF TypeOK
  <2>5. job[t] \in Range(queue)
    BY <1>4, <2>2 DEF Range
  <2>6. Promise!Erases(job[t]) /\ UNCHANGED Range(file)
    BY <2>4 DEF Promise!Erases
  <2> QED BY <1>1, <2>5, <2>6 DEF Promise!KeepNext, Promise!Runs
<1> QED BY <1>2, <1>3, <1>4

\* Steps in which the abstract queue does nothing.
LEMMA StutterKeeps ==
  ASSUME UNCHANGED <<queue, file, issued, executed, given, paused>>
  PROVE  [Promise!KeepNext]_(Promise!keepVars)
<1>1. UNCHANGED <<Range(queue), Range(file)>>
  OBVIOUS
<1> QED BY <1>1 DEF Promise!keepVars

LEMMA KeepStep ==
  ASSUME QueueInv, Issued, [Next]_vars
  PROVE  [Promise!KeepNext]_(Promise!keepVars)
<1> USE DEF objVars, netVars, thrVars, taskVars, histVars
<1>0. TypeOK /\ RightItem /\ Typed
  BY DEF QueueInv, Typed
<1>1. ASSUME NEW t \in Threads, Handling(t) PROVE [Promise!KeepNext]_(Promise!keepVars)
  <2>1. CASE Refused(t) \/ Attempt(t) \/ Rejected(t)
    BY <2>1, StutterKeeps DEF Refused, Attempt, Rejected
  <2>2. CASE Offline(t)
    <3>1. job[t].op \in issued
      BY <2>2 DEF Offline, Issued
    <3> QED BY <1>0, <2>2, <3>1, AddsImplements DEF Offline
  <2>3. CASE Succeeds(t)
    <3>1. job[t].op \in issued
      BY <2>3 DEF Succeeds, Issued
    <3> QED BY <1>0, <2>3, <3>1, ReturnsTrueImplements DEF Succeeds
  <2>4. CASE PauseSkips(t)
    <3>1. job[t].op \in issued
      BY <2>4 DEF PauseSkips, Issued
    <3> QED BY <1>0, <2>4, <3>1, ReturnsTrueImplements DEF PauseSkips
  <2>5. CASE ConnectionError(t)
    <3>1. job[t].op \in issued
      BY <2>5 DEF ConnectionError, Issued
    <3>2. AddQueue(t) \/ UNCHANGED <<queue, queueID, given>>
      BY <2>5 DEF ConnectionError, AttemptFails
    <3> QED BY <1>0, <2>5, <3>1, <3>2, AddsImplements DEF ConnectionError
  <2> QED BY <1>1, <2>1, <2>2, <2>3, <2>4, <2>5 DEF Handling
<1>2. ASSUME NEW t \in Threads, Passing(t) PROVE [Promise!KeepNext]_(Promise!keepVars)
  <2>1. CASE PassBegins(t) \/ PassEnds(t) \/ TakesItem(t)
    BY <2>1, StutterKeeps DEF PassBegins, PassEnds, TakesItem
  <2>2. CASE DropsItem(t)
    <3>1. idx[t] \in DOMAIN queue
      BY <1>0, <2>2, LenProperties DEF DropsItem, TypeOK, Typed, Counted
    <3>2. /\ queue' = RemoveAt(queue, idx[t]) /\ queue[idx[t]].id = 0
          /\ UNCHANGED <<file, issued, executed, given, paused>>
      BY <2>2 DEF DropsItem
    <3>3. queue[idx[t]] \in Range(queue) /\ UNCHANGED Range(file)
      BY <3>1, <3>2 DEF Range
    <3>4. CASE Range(queue') = Range(queue)
      BY <3>2, <3>3, <3>4 DEF Promise!keepVars
    <3>5. CASE Range(queue') = Range(queue) \ {queue[idx[t]]}
      <4>1. Promise!Drops
        BY <3>2, <3>3, <3>5 DEF Promise!Drops
      <4> QED BY <4>1 DEF Promise!KeepNext
    <3> QED BY <1>0, <3>1, <3>2, <3>4, <3>5, RemoveAtRange DEF TypeOK
  <2> QED BY <1>2, <2>1, <2>2 DEF Passing
<1>3. ASSUME NEW op \in Ops, Request(op) PROVE [Promise!KeepNext]_(Promise!keepVars)
  <2>1. UNCHANGED <<Range(queue), Range(file)>>
    BY <1>3 DEF Request
  <2>2. Promise!Makes(op)
    BY <1>3, <2>1 DEF Request, Promise!Makes
  <2> QED BY <2>2 DEF Promise!KeepNext
<1>4. CASE AppCalls
  <2>1. CASE SaveErrorQueue
    <3>1. /\ UNCHANGED <<queue, issued, executed, given, paused>>
          /\ file' = [k \in DOMAIN queue |-> queue[k].op]
      BY <2>1 DEF SaveErrorQueue
    <3>2. Range(file') = {item.op : item \in Range(queue)}
      BY <3>1 DEF Range
    <3>3. UNCHANGED Range(queue)
      BY <3>1
    <3>4. Promise!Saves
      BY <3>1, <3>2, <3>3 DEF Promise!Saves
    <3> QED BY <3>4 DEF Promise!KeepNext
  <2>2. CASE RestoreErrorQueue
    <3>1. Range(queue') = Range(queue) \cup {[id |-> 0, op |-> op] : op \in Range(file)}
      BY <1>0, <2>2, RestoreRange
    <3>2. UNCHANGED <<file, issued, executed, given, paused, Range(file)>>
      BY <2>2 DEF RestoreErrorQueue
    <3>3. Promise!Restores
      BY <3>1, <3>2 DEF Promise!Restores
    <3> QED BY <3>3 DEF Promise!KeepNext
  <2>3. ASSUME NEW pause \in BOOLEAN, PauseFirebase(pause)
        PROVE  [Promise!KeepNext]_(Promise!keepVars)
    <3>1. UNCHANGED <<queue, file, issued, executed, given>> /\ paused' = pause
      BY <2>3 DEF PauseFirebase
    <3>2. CASE paused' = paused
      BY <3>1, <3>2, StutterKeeps
    <3>3. CASE paused' # paused
      <4>1. paused' = ~paused
        BY <1>0, <2>3, <3>1, <3>3 DEF TypeOK
      <4>2. UNCHANGED <<Range(queue), Range(file)>>
        BY <3>1
      <4>3. Promise!Pauses
        BY <3>1, <4>1, <4>2, Zenon DEF Promise!Pauses
      <4> QED BY <4>3 DEF Promise!KeepNext
    <3> QED BY <3>2, <3>3
  <2>4. CASE ~RestoreErrorQueue /\ ~SaveErrorQueue /\ ~\E pause \in BOOLEAN : PauseFirebase(pause)
    <3>1. UNCHANGED <<queue, file, issued, executed, given, paused>>
      BY <1>4, <2>4
         DEF AppCalls, BeginAutoRunErrorQueue, EndAutoRunErrorQueue, SetMaxErrorQueue,
             ClearErrorQueue, vars
    <3> QED BY <3>1, StutterKeeps
  <2> QED BY <2>1, <2>2, <2>3, <2>4
<1>5. CASE NetworkChanges \/ UNCHANGED vars
  BY <1>5, StutterKeeps DEF NetworkChanges, vars
<1>6. CASE Restart
  <2>1. Range(queue') = {} /\ UNCHANGED Range(file)
    BY <1>6 DEF Restart, Range
  <2>2. Promise!Restarts
    BY <1>6, <2>1 DEF Restart, Promise!Restarts
  <2> QED BY <2>2 DEF Promise!KeepNext
<1> QED BY <1>1, <1>2, <1>3, <1>4, <1>5, <1>6 DEF Next

\* One thread at a time that processes the queue implements KeptRequests: no
\* item goes but that of a request that is done, of whatever id, however many
\* re-runs queue it again; what a pause, a file and a restart do to that is
\* said there, and nothing else does.
THEOREM QueueImplemented ==
  ASSUME OneProcessor
  PROVE  Spec => ImplementsKeptRequests
<1>1. Init => QueueInv /\ Issued
  <2> SUFFICES ASSUME Init PROVE Processing /\ RightItem /\ Issued
    BY TypedInit DEF QueueInv
  <2> QED BY DEF Init, Processing, RightItem, Issued, Idle, Zero
<1>2. Init => Promise!KeepInit
  <2> SUFFICES ASSUME Init PROVE Promise!KeepInit
    OBVIOUS
  <2>1. Range(queue) = {} /\ Range(file) = {}
    BY DEF Init, Range
  <2> QED BY <2>1 DEF Init, Promise!KeepInit
<1>3. QueueInv /\ Issued /\ [Next]_vars => (QueueInv /\ Issued)'
  BY QueueInvStep, IssuedStep DEF QueueInv
<1>4. QueueInv /\ Issued /\ [Next]_vars => [Promise!KeepNext]_(Promise!keepVars)
  BY KeepStep
<1> QED BY <1>1, <1>2, <1>3, <1>4, PTL DEF Spec, ImplementsKeptRequests, Promise!KeepSpec
=============================================================================
