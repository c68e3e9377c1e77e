-------------------------- MODULE OperationContract --------------------------
(***************************************************************************)
(* The life of an async_operations row as its readers see it: which status *)
(* may follow which when the commands of the row come from a sequential    *)
(* queue.  The transitions of panel/worker/CONTRACT.md ("Operation state") *)
(* are Listed; the requests that write the column take no lock, and        *)
(* Overtaken is all that their races add.  The module AsyncOperations      *)
(* models the code that writes the column.                                 *)
(***************************************************************************)

CONSTANT Operations

VARIABLE status

Reported == {"succeeded", "failed"}
Finished == Reported \cup {"failed_by_timeout", "enqueue_failed"}
Statuses == {"absent", "queued", "running"} \cup Finished

Listed ==
  {<<"absent", "queued">>, <<"queued", "enqueue_failed">>, <<"queued", "running">>}
    \cup ({"running"} \X (Reported \cup {"failed_by_timeout"}))

\* A publish may report an error after its message was handled; the requests it
\* overtook write over the error; a report and a timeout may each overtake the
\* other.  What the worker reported is never replaced by another report of the
\* worker's, and a row that left `queued' never returns to it.
Overtaken ==
  ((Statuses \ {"absent"}) \X {"enqueue_failed"})
    \cup ({"enqueue_failed"} \X ({"running", "failed_by_timeout"} \cup Reported))
    \cup (Reported \X {"failed_by_timeout"})
    \cup ({"failed_by_timeout"} \X Reported)

Init == status = [o \in Operations |-> "absent"]

Next ==
  \E o \in Operations, to \in Statuses :
    /\ <<status[o], to>> \in Listed \cup Overtaken
    /\ status' = [status EXCEPT ![o] = to]

Spec == Init /\ [][Next]_status
=============================================================================
