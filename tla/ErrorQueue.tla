----------------------------- MODULE ErrorQueue -----------------------------
(***************************************************************************)
(* The error queue of one FirebaseData object of the Firebase-ESP32        *)
(* library (src/lib/Firebase-ESP32-4.4.8, named here by the paths under    *)
(* it; src/rtdb/FB_RTDB.cpp): requests that failed for want of a           *)
(* connection are kept and run again, by the application's own calls of    *)
(* processErrorQueue or by the tasks that beginAutoRunErrorQueue creates.  *)
(***************************************************************************)
EXTENDS Naturals, Sequences, SequencesExt

CONSTANTS Ops,         \* the requests of the application, each made once
          Gets,        \* those that read (http_get)
          Oversize,    \* those whose payload is longer than max_blob_size
          Ids,         \* random(100000, 200000): ids may collide
          App,         \* the application's thread
          Tasks,       \* the RTOS tasks that can be created
          NoTask,      \* queue_task_handle == NULL
          Objects,     \* the FirebaseData objects of the application
          Fbdo,        \* the one whose queue this is
          MaxRetry,    \* setMaxRetry
          Limits,      \* arguments of setMaxErrorQueue, the first call's too
          Legacy,      \* the token is a legacy one, or test mode
          Calls,       \* which other calls the application makes
          MaxFile      \* bound: items in the queue when a file is restored

ASSUME QueueAssumption ==
    /\ Ops # {} /\ Gets \subseteq Ops /\ Oversize \subseteq Ops /\ Fbdo \in Objects
    /\ Ids \subseteq Nat \ {0}
    /\ App \notin Tasks /\ NoTask \notin Tasks
    /\ MaxRetry \in Nat /\ Limits \subseteq Nat /\ MaxFile \in Nat
    /\ Legacy \in BOOLEAN

VARIABLES queue,                  \* _qMan._queueCollection
          maxQueue,               \* _qMan._maxQueue
          queueID,                \* session.rtdb.queue_ID
          online,                 \* networkReady()
          paused,                 \* session.rtdb.pause
          at, idx, job,           \* per thread: where it is, the position in
          tries, err,             \* the queue (0: not a re-run), its request
          sessions, tasks, handle,  \* Core.internal: queueSessions, the tasks
                                  \* that exist, queue_task_handle
          file,                   \* what saveErrorQueue wrote
          board,                  \* "up", or "aborted" until it has rebooted
          issued, executed,       \* histories: requests made, and carried
          given                   \* out by the server; the id a request was
                                  \* queued under

objVars  == <<queue, maxQueue, queueID>>
netVars  == <<online, paused>>
thrVars  == <<at, idx, job, tries, err>>
taskVars == <<sessions, tasks, handle>>
histVars == <<issued, executed, given>>
vars == <<objVars, netVars, thrVars, taskVars, file, board, histVars>>

Threads  == Tasks \cup {App}
Item     == [id : Ids \cup {0}, op : Ops]
Attempts == IF MaxRetry > 0 THEN MaxRetry ELSE 1
Up == board = "up"
Existed(id) == \E k \in DOMAIN queue : queue[k].id = id

Idle  == [t \in Threads |-> "idle"]
Zero  == [t \in Threads |-> 0]
NoJob == [t \in Threads |-> [id |-> 0, op |-> CHOOSE op \in Ops : TRUE]]

Init == /\ queue = <<>> /\ maxQueue \in Limits /\ queueID = 0
        /\ online \in BOOLEAN /\ paused = FALSE
        /\ at = Idle /\ idx = Zero /\ job = NoJob /\ tries = Zero /\ err = Zero
        /\ sessions = {} /\ tasks = {} /\ handle = NoTask
        /\ file = <<>> /\ board = "up"
        /\ issued = {} /\ executed = {} /\ given = [op \in Ops |-> 0]

-----------------------------------------------------------------------------
(* A request, made by the application or re-run by processErrorQueue.      *)

\* processRequest and buildRequest return false; processErrorQueue leaves
\* the item where it is and goes on to the next.
Returns(t) == /\ at'  = [at EXCEPT ![t] = IF idx[t] = 0 THEN "idle" ELSE "scan"]
              /\ idx' = [idx EXCEPT ![t] = IF @ = 0 THEN 0 ELSE @ + 1]

\* Mutant: the item erased is the one after.
ReturnsTrueNext(t) ==
    /\ Returns(t)
    /\ queue' = IF idx'[t] \in DOMAIN queue THEN RemoveAt(queue, idx'[t]) ELSE queue
    /\ UNCHANGED board

\* ... returns true: the item at the index is erased, and i++ skips the one
\* that moves into its place.  Erasing past the end does not return.
ReturnsTrue(t) ==
    /\ Returns(t)
    /\ queue' = IF idx[t] \in DOMAIN queue THEN RemoveAt(queue, idx[t]) ELSE queue
    /\ board' = IF idx[t] <= Len(queue) THEN "up" ELSE "aborted"

\* Mutant: the newest item goes to the front.
AddQueueFront(t) ==
    IF Len(queue) < maxQueue /\ job[t].op \notin Oversize
    THEN \E id \in Ids :
            /\ queue' = <<[id |-> id, op |-> job[t].op]>> \o queue
            /\ queueID' = id
            /\ given' = [given EXCEPT ![job[t].op] = IF @ = 0 THEN id ELSE @]
    ELSE UNCHANGED <<queue, queueID, given>>

\* addQueueData with addQueue and QueueManager::add.  _NO_QUEUE is false, and
\* passed by everyone, so a re-run may be queued again, under a new id.  The
\* test of the size and the push are one step here; the code holds no lock
\* between them, so that two threads in these lines may both take the last
\* place.
AddQueue(t) ==
    IF Len(queue) < maxQueue /\ job[t].op \notin Oversize
    THEN \E id \in Ids :
            /\ queue' = Append(queue, [id |-> id, op |-> job[t].op])
            /\ queueID' = id
            /\ given' = [given EXCEPT ![job[t].op] = IF @ = 0 THEN id ELSE @]
    ELSE UNCHANGED <<queue, queueID, given>>

\* The application makes a request.
Request(op) ==
    /\ Up /\ at[App] = "idle" /\ op \notin issued
    /\ issued' = issued \cup {op}
    /\ at' = [at EXCEPT ![App] = "check"]
    /\ job' = [job EXCEPT ![App] = [id |-> 0, op |-> op]]
    /\ UNCHANGED <<objVars, netVars, idx, tries, err, taskVars, file, board,
                   executed, given>>

\* Mutant: the network is among the checks.
RefusesOffline == paused \/ ~Legacy \/ ~online

\* preRequestCheck refuses: paused, or the token is not ready, as any token
\* but a legacy one is without network (tokenReady calls reconnect).  The
\* refusal for a long_running_task never comes: nothing sets that field.
Refuses == paused \/ ~Legacy

Refused(t) == /\ Up /\ at[t] = "check" /\ Refuses
              /\ Returns(t)
              /\ UNCHANGED <<objVars, netVars, job, tries, err, taskVars, file,
                             board, histVars>>

\* The network is gone when processRequest tests it: a request to store is
\* queued, and nothing has reset queue_ID.
Offline(t) == /\ Up /\ at[t] = "check" /\ ~paused
              /\ ~online /\ job[t].op \notin Gets
              /\ AddQueue(t) /\ Returns(t)
              /\ UNCHANGED <<maxQueue, netVars, job, tries, err, taskVars, file,
                             board, issued, executed>>

\* The checks are passed and the request goes out, first or once more.
Attempt(t) ==
    /\ Up /\ at[t] \in {"check", "retry"} /\ ~paused
    /\ \/ online
       \/ Legacy /\ (at[t] = "retry" \/ job[t].op \in Gets)
    /\ at' = [at EXCEPT ![t] = "wait"]
    /\ tries' = [tries EXCEPT ![t] = IF at[t] = "retry" THEN @ + 1 ELSE 1]
    /\ err' = [err EXCEPT ![t] = IF at[t] = "retry" THEN @ ELSE 0]
    /\ queueID' = 0
    /\ UNCHANGED <<queue, maxQueue, netVars, idx, job, taskVars, file, board,
                   histVars>>

\* The response arrives and says that the server did it.
Succeeds(t) == /\ Up /\ at[t] = "wait" /\ online
               /\ executed' = executed \cup {job[t].op}
               /\ ReturnsTrue(t)
               /\ UNCHANGED <<maxQueue, queueID, netVars, job, tries, err, taskVars,
                              file, issued, given>>

\* handleResponse returns true on a paused object, whatever came of the
\* request that was sent.
PauseSkips(t) == /\ Up /\ at[t] = "wait" /\ paused
                 /\ executed' \in {executed, executed \cup {job[t].op}}
                 /\ ReturnsTrue(t)
                 /\ UNCHANGED <<maxQueue, queueID, netVars, job, tries, err, taskVars,
                                file, issued, given>>

\* Mutant: one attempt too many.
AttemptFailsAgain(t, n) ==
    IF tries[t] <= Attempts
    THEN /\ at' = [at EXCEPT ![t] = "retry"]
         /\ err' = [err EXCEPT ![t] = n]
         /\ UNCHANGED <<idx, queue, queueID, given>>
    ELSE /\ IF n = Attempts THEN AddQueue(t) ELSE UNCHANGED <<queue, queueID, given>>
         /\ Returns(t)
         /\ UNCHANGED err

\* An attempt was the last, or another one follows.  The request is queued
\* if every attempt failed with a connection error; max_retry 0 counts none.
AttemptFails(t, n) ==
    IF tries[t] < Attempts
    THEN /\ at' = [at EXCEPT ![t] = "retry"]
         /\ err' = [err EXCEPT ![t] = n]
         /\ UNCHANGED <<idx, queue, queueID, given>>
    ELSE /\ IF n = Attempts THEN AddQueue(t) ELSE UNCHANGED <<queue, queueID, given>>
         /\ Returns(t)
         /\ UNCHANGED err

\* The server says no, or a further attempt meets a token not ready.
Rejected(t) == /\ Up
               /\ \/ at[t] = "wait" /\ online /\ UNCHANGED tries
                  \/ /\ at[t] = "retry" /\ Refuses
                     /\ tries' = [tries EXCEPT ![t] = @ + 1]
               /\ IF tries'[t] < Attempts
                  THEN at' = [at EXCEPT ![t] = "retry"] /\ UNCHANGED idx
                  ELSE Returns(t)
               /\ UNCHANGED <<objVars, netVars, job, err, taskVars, file, board,
                              histVars>>

\* The connection is refused, lost or times out; the server may have done
\* what was asked.
ConnectionError(t) ==
    /\ Up /\ at[t] = "wait"
    /\ executed' \in {executed, executed \cup {job[t].op}}
    /\ AttemptFails(t, IF MaxRetry > 0 THEN err[t] + 1 ELSE 0)
    /\ UNCHANGED <<maxQueue, netVars, job, tries, taskVars, file, board, issued>>

Handling(t) == \/ Refused(t) \/ Offline(t) \/ Attempt(t) \/ Succeeds(t)
               \/ PauseSkips(t) \/ Rejected(t) \/ ConnectionError(t)

-----------------------------------------------------------------------------
(* processErrorQueue.                                                      *)

\* Mutant: the loop starts at index 1.
PassBeginsLater(t) == /\ Up /\ at[t] = "idle" /\ online
                      /\ t \in tasks /\ Fbdo \in sessions
                      /\ at' = [at EXCEPT ![t] = "scan"]
                      /\ idx' = [idx EXCEPT ![t] = 2]
                      /\ UNCHANGED <<objVars, netVars, job, tries, err, taskVars,
                                     file, board, histVars>>

\* reconnect() found the network; the loop starts at index 0.
PassBegins(t) == /\ Up /\ at[t] = "idle" /\ online
                 /\ IF t = App THEN "process" \in Calls
                    ELSE t \in tasks /\ Fbdo \in sessions
                 /\ at' = [at EXCEPT ![t] = "scan"]
                 /\ idx' = [idx EXCEPT ![t] = 1]
                 /\ UNCHANGED <<objVars, netVars, job, tries, err, taskVars, file,
                                board, histVars>>

PassEnds(t) == /\ Up /\ at[t] = "scan" /\ idx[t] > Len(queue)
               /\ at' = [at EXCEPT ![t] = "idle"]
               /\ idx' = [idx EXCEPT ![t] = 0]
               /\ UNCHANGED <<objVars, netVars, job, tries, err, taskVars, file,
                              board, histVars>>

\* Mutant: an item is dropped whether or not it has an id.
DropsItemAny(t) == /\ Up /\ at[t] = "scan" /\ idx[t] <= Len(queue)
                   /\ queue' = RemoveAt(queue, idx[t])
                   /\ idx' = [idx EXCEPT ![t] = @ + 1]
                   /\ UNCHANGED <<maxQueue, queueID, netVars, at, job, tries, err,
                                  taskVars, file, board, histVars>>

\* An item without an id is erased; the loop's i++ skips the next one.
DropsItem(t) == /\ Up /\ at[t] = "scan" /\ idx[t] <= Len(queue)
                /\ queue[idx[t]].id = 0
                /\ queue' = RemoveAt(queue, idx[t])
                /\ idx' = [idx EXCEPT ![t] = @ + 1]
                /\ UNCHANGED <<maxQueue, queueID, netVars, at, job, tries, err,
                               taskVars, file, board, histVars>>

\* The item is copied and its request built from the copy.
TakesItem(t) == /\ Up /\ at[t] = "scan" /\ idx[t] <= Len(queue)
                /\ queue[idx[t]].id # 0
                /\ job' = [job EXCEPT ![t] = queue[idx[t]]]
                /\ at' = [at EXCEPT ![t] = "check"]
                /\ UNCHANGED <<objVars, netVars, idx, tries, err, taskVars, file,
                               board, histVars>>

Passing(t) == PassBegins(t) \/ PassEnds(t) \/ DropsItem(t) \/ TakesItem(t)

-----------------------------------------------------------------------------
(* The application's other calls.                                          *)

Free(call) == Up /\ at[App] = "idle" /\ call \in Calls

\* Every call creates a task, which goes over all registered objects, and
\* the handle of the one before is overwritten.
BeginAutoRunErrorQueue(o) ==
    /\ Free("auto")
    /\ sessions' = sessions \cup {o}
    /\ \E t \in Tasks \ tasks : tasks' = tasks \cup {t} /\ handle' = t
    /\ UNCHANGED <<objVars, netVars, thrVars, file, board, histVars>>

\* The last object gone, the task of the handle is deleted wherever it is.
EndAutoRunErrorQueue(o) ==
    /\ Free("auto")
    /\ sessions' = sessions \ {o}
    /\ IF sessions' = {}
       THEN /\ tasks' = tasks \ {handle} /\ handle' = NoTask
            /\ at' = [t \in Threads |-> IF t = handle THEN "idle" ELSE at[t]]
            /\ idx' = [t \in Threads |-> IF t = handle THEN 0 ELSE idx[t]]
       ELSE UNCHANGED <<tasks, handle, at, idx>>
    /\ UNCHANGED <<objVars, netVars, job, tries, err, file, board, histVars>>

\* Mutant: what is over the limit is erased.
SetMaxErrorQueueErases(num) ==
    /\ Free("setMax")
    /\ maxQueue' = num
    /\ queue' = IF Len(queue) > num THEN SubSeq(queue, 1, num) ELSE queue
    /\ UNCHANGED <<queueID, netVars, thrVars, taskVars, file, board, histVars>>

\* Only copies of the items are cleared.  With num 0 the index of the loop,
\* a uint8_t, is never below num: it wraps, and at(255) does not return.
SetMaxErrorQueue(num) ==
    /\ Free("setMax")
    /\ maxQueue' = num
    /\ board' = IF num = 0 /\ queue # <<>> THEN "aborted" ELSE board
    /\ UNCHANGED <<queue, queueID, netVars, thrVars, taskVars, file, histVars>>

\* Here too only copies are cleared.
ClearErrorQueue ==
    /\ Free("clear")
    /\ UNCHANGED vars

\* Mutant: what is written leaves the queue.
SaveErrorQueueMoves ==
    /\ Free("file")
    /\ file' = [k \in DOMAIN queue |-> queue[k].op] /\ queue' = <<>>
    /\ UNCHANGED <<maxQueue, queueID, netVars, thrVars, taskVars, board, histVars>>

\* All items are written, without their ids.
SaveErrorQueue ==
    /\ Free("file")
    /\ file' = [k \in DOMAIN queue |-> queue[k].op]
    /\ UNCHANGED <<objVars, netVars, thrVars, taskVars, board, histVars>>

\* The items are pushed back without ids, whatever the limit.
RestoreErrorQueue ==
    /\ Free("file") /\ Len(queue) + Len(file) <= MaxFile
    /\ queue' = queue \o [k \in DOMAIN file |-> [id |-> 0, op |-> file[k]]]
    /\ UNCHANGED <<maxQueue, queueID, netVars, thrVars, taskVars, file, board,
                   histVars>>

PauseFirebase(pause) ==
    /\ Free("pause")
    /\ paused' = pause
    /\ UNCHANGED <<objVars, online, thrVars, taskVars, file, board, histVars>>

AppCalls == \/ \E o \in Objects : BeginAutoRunErrorQueue(o) \/ EndAutoRunErrorQueue(o)
            \/ \E num \in Limits : SetMaxErrorQueue(num)
            \/ ClearErrorQueue \/ SaveErrorQueue \/ RestoreErrorQueue
            \/ \E pause \in BOOLEAN : PauseFirebase(pause)

-----------------------------------------------------------------------------
NetworkChanges == /\ Up /\ online' = ~online
                  /\ UNCHANGED <<objVars, paused, thrVars, taskVars, file, board,
                                 histVars>>

\* The board restarts: all but the file is gone, the ids too.
Restart == /\ queue' = <<>> /\ maxQueue' \in Limits /\ queueID' = 0
           /\ paused' = FALSE
           /\ at' = Idle /\ idx' = Zero /\ job' = NoJob /\ tries' = Zero /\ err' = Zero
           /\ sessions' = {} /\ tasks' = {} /\ handle' = NoTask
           /\ board' = "up"
           /\ given' = [op \in Ops |-> 0]
           /\ UNCHANGED <<online, file, issued, executed>>

Next == \/ \E t \in Threads : Handling(t) \/ Passing(t)
        \/ \E op \in Ops : Request(op)
        \/ AppCalls
        \/ NetworkChanges
        \/ Restart

Spec == Init /\ [][Next]_vars

\* A call goes on, and a task goes round its loop for ever; the application
\* need not call anything.
TaskStep(t) == Handling(t) \/ (t # App /\ Passing(t))

FairSpec == Spec /\ \A t \in Threads : WF_vars(TaskStep(t))

-----------------------------------------------------------------------------
(* Properties.                                                             *)

\* Types of the queue, the threads and the histories.
TypeOK == /\ queue \in Seq(Item) /\ maxQueue \in Limits
          /\ queueID \in Ids \cup {0}
          /\ online \in BOOLEAN /\ paused \in BOOLEAN
          /\ at \in [Threads -> {"idle", "scan", "check", "wait", "retry"}]
          /\ idx \in [Threads -> Nat]
          /\ job \in [Threads -> Item]
          /\ tries \in [Threads -> 0..Attempts]
          /\ err \in [Threads -> 0..Attempts]
          /\ sessions \subseteq Objects /\ tasks \subseteq Tasks
          /\ handle \in tasks \cup {NoTask}
          /\ file \in Seq(Ops)
          /\ board \in {"up", "aborted"}
          /\ issued \subseteq Ops /\ executed \subseteq Ops
          /\ given \in [Ops -> Ids \cup {0}]

\* The item that processErrorQueue will erase at its index is the one whose
\* request it is running: no other thread has moved it meanwhile.
RightItem == \A t \in Threads :
                (idx[t] > 0 /\ at[t] \in {"check", "wait", "retry"}) =>
                   /\ idx[t] \in DOMAIN queue
                   /\ queue[idx[t]] = job[t]

\* README.md:1216: "If Error Queue ID does not exist in Error Queues
\* collection, that queue is already done." - the server has done what the
\* request asked.
DoneWhenGone == \A op \in Ops :
                   (given[op] # 0 /\ ~Existed(given[op])) => op \in executed

\* README.md:1174: reads and writes that fail for network problems are queued
\* (and FB_RTDB.cpp:1884: the check before a request must not keep them from
\* it).  A request to store that ends at once because the network is gone
\* is in the queue, if there was room.
StoreEndsOffline(op) ==
    /\ Handling(App) /\ at[App] = "check" /\ at'[App] = "idle"
    /\ job[App].op = op /\ op \notin Gets \cup Oversize
    /\ ~online /\ ~paused /\ Len(queue) < maxQueue
OfflineIsQueued == [][\A op \in Ops : StoreEndsOffline(op) =>
                         \E k \in DOMAIN queue' : queue'[k].op = op]_vars

\* No call runs off the end of the queue: neither processErrorQueue, which
\* erases at an index it took before the request, nor setMaxErrorQueue, whose
\* index is a uint8_t (FB_RTDB.h:2310 allows it "(0 255)"; here at least 1).
CallsReturn == board = "up"

\* No attempt fails any more, and a task has the network.
NoFailure == \A t \in Threads :
                ~(Refused(t) \/ Offline(t) \/ Rejected(t) \/ ConnectionError(t))
Attended == online /\ Fbdo \in sessions /\ tasks # {}

\* However long the queue, and although an erased item makes the loop skip
\* the next one: with a task running and the network back it drains.
Drains == (<>[]Attended /\ <>[][NoFailure]_vars) => <>[](queue = <<>>)

-----------------------------------------------------------------------------
(* The abstract queue.                                                     *)

Promise == INSTANCE KeptRequests WITH
              made <- issued, done <- executed, told <- given,
              kept <- Range(queue), saved <- Range(file)

\* However threads, failures, re-runs, files and restarts interleave: every
\* item of the queue, not only the first of a request, stays until the
\* request is done, and every id the application is told is that of an item
\* put there with it.
ImplementsKeptRequests == Promise!KeepSpec
=============================================================================
