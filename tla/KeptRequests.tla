---------------------------- MODULE KeptRequests ----------------------------
(***************************************************************************)
(* What the error queue of a FirebaseData object promises, without the     *)
(* loop that works it off, its index, the attempts and the tasks: a        *)
(* request that fails may be kept under an id, and leaves again only when  *)
(* the server has done it.  The exceptions are named: an item without an   *)
(* id, a paused object, a restart.                                         *)
(***************************************************************************)
EXTENDS Naturals

CONSTANTS Ops,   \* the requests of the application
          Ids    \* what addQueue gives them for an id

VARIABLES made,    \* requests that the application has made
          done,    \* those that the server has carried out
          told,    \* the id a request was kept under first, 0 before
          kept,    \* the items of the queue, copies left out
          saved,   \* the requests in the file
          paused   \* pauseFirebase

keepVars == <<made, done, told, kept, saved, paused>>

KeepInit == /\ made = {} /\ done = {} /\ told = [op \in Ops |-> 0]
            /\ kept = {} /\ saved = {} /\ paused = FALSE

Makes(op) == /\ op \notin made /\ made' = made \cup {op}
             /\ UNCHANGED <<done, told, kept, saved, paused>>

Keeps(op, id) == /\ kept' = kept \cup {[id |-> id, op |-> op]}
                 /\ told' = [told EXCEPT ![op] = IF @ = 0 THEN id ELSE @]

\* The item of a request goes when the request is done; on a paused object
\* nobody looks whether it is.
Erases(item) == /\ item.op \in done' \/ paused
                /\ kept' = kept \ {item} /\ UNCHANGED told

\* A request was sent, for the first time or again: whether the server has
\* done it need not be known.
Runs(op) == /\ op \in made
            /\ done' \in {done, done \cup {op}}
            /\ \/ UNCHANGED <<kept, told>>
               \/ \E id \in Ids : Keeps(op, id)
               \/ \E item \in kept : item.op = op /\ Erases(item)
            /\ UNCHANGED <<made, saved, paused>>

\* processErrorQueue drops what has no id.
Drops == /\ \E item \in kept : item.id = 0 /\ kept' = kept \ {item}
         /\ UNCHANGED <<made, done, told, saved, paused>>

Saves == /\ saved' = {item.op : item \in kept}
         /\ UNCHANGED <<made, done, told, kept, paused>>

\* Ids are not in the file.
Restores == /\ kept' = kept \cup {[id |-> 0, op |-> op] : op \in saved}
            /\ UNCHANGED <<made, done, told, saved, paused>>

Pauses == /\ paused' = ~paused
          /\ UNCHANGED <<made, done, told, kept, saved>>

Restarts == /\ kept' = {} /\ told' = [op \in Ops |-> 0] /\ paused' = FALSE
            /\ UNCHANGED <<made, done, saved>>

KeepNext == \/ \E op \in Ops : Makes(op) \/ Runs(op)
            \/ Drops \/ Saves \/ Restores \/ Pauses \/ Restarts

KeepSpec == KeepInit /\ [][KeepNext]_keepVars
=============================================================================
