------------------------------- MODULE Reindex -------------------------------
(***************************************************************************)
(* The `holdingpen reindex` command and its batch_reindex tasks, next to   *)
(* the requests and runs of HoldingPen, with which they share the rows and *)
(* the search index and nothing else: a task reads its rows one by one and *)
(* sends their documents in one bulk request later, under no lock.         *)
(***************************************************************************)
EXTENDS HoldingPen, FiniteSetsExt

CONSTANTS
    Types,          \* the data types given with -t
    BatchSizes,     \* what may be given with -s
    Pythons         \* major versions of Python the command may run on

ASSUME ReindexAssumption ==
    /\ Types \subseteq DataTypes /\ Types # {}
    /\ BatchSizes \subseteq Nat
    /\ Pythons \subseteq {2, 3}

VARIABLES
    size,           \* the batch size given
    cli,            \* how far the command has come
    items,          \* identifiers of the query it has not scheduled yet
    batches,        \* the tasks it created
    report          \* what it printed at the end, or None

commandVars == <<size, cli, items, batches, report>>
allVars == <<vars, commandVars>>

(* A line of a bulk request. *)
BulkAction == [obj : Objects, index : Indices \cup {None}, doc : Doc]

Batch == [ids      : SUBSET Objects,
          state    : {"queued", "reading", "done", "raised", "lost"},
          todo     : SUBSET Objects,
          actions  : SUBSET BulkAction,
          success  : Nat,
          failures : SUBSET Objects]

ReindexTypeOK ==
    /\ size \in BatchSizes
    /\ cli \in {"start", "scheduling", "waiting", "reported", "failed"}
    /\ items \subseteq Objects
    /\ batches \subseteq Batch
    /\ \A b \in batches : b.todo \subseteq b.ids
    /\ report \in [success : Nat, failures : SUBSET Objects] \cup {None}

ReindexInit ==
    /\ Init
    /\ size \in BatchSizes
    /\ cli = "start" /\ items = {} /\ batches = {} /\ report = None

-----------------------------------------------------------------------------
(* The command.                                                            *)

(* The indices are destroyed and created again, empty, which is what a     *)
(* reindex is for.                                                         *)
RecreateIndices ==
    /\ cli = "start"
    /\ docs' = [i \in Indices |-> [o \in Objects |-> None]]
    /\ UNCHANGED <<row, queue, clock, pc, req, img, pend, reply, requests>>
    /\ UNCHANGED commandVars

(* The query selects by the data_type column, in no particular order.      *)
Select ==
    /\ cli = "start"
    /\ items' = {o \in Objects : row[o] # None /\ row[o].data_type \in Types}
    /\ cli' = "scheduling"
    /\ UNCHANGED <<vars, size, batches, report>>

(* The last batch is dropped when it is not a full one.                    *)
OnlyFullBatches(set) ==
    IF Cardinality(set) < size THEN {{}} ELSE kSubset(size, set)

(* batch_size elements, or those that are left.                            *)
next_batch(set) ==
    IF Cardinality(set) < size THEN {set} ELSE kSubset(size, set)

(* Every batch is given all the identifiers there are left.                *)
ScheduleAll ==
    /\ cli = "scheduling"
    /\ \E ids \in next_batch(items) \ {{}} :
          /\ items' = items \ ids
          /\ batches' = batches \cup
               {[ids |-> ids, state |-> "queued", todo |-> items, actions |-> {},
                 success |-> 0, failures |-> {}]}
    /\ UNCHANGED <<vars, size, cli, report>>

Schedule ==
    /\ cli = "scheduling"
    /\ \E ids \in next_batch(items) \ {{}} :
          /\ items' = items \ ids
          /\ batches' = batches \cup
               {[ids |-> ids, state |-> "queued", todo |-> ids, actions |-> {},
                 success |-> 0, failures |-> {}]}
    /\ UNCHANGED <<vars, size, cli, report>>

(* The broker does not take the task: apply_async raises.                  *)
ScheduleFails ==
    /\ "broker" \in Faults /\ cli = "scheduling"
    /\ next_batch(items) # {{}}
    /\ cli' = "failed"
    /\ UNCHANGED <<vars, size, items, batches, report>>

(* An empty batch ends the loop: the query is exhausted, or -s is 0.       *)
Scheduled ==
    /\ cli = "scheduling" /\ {} \in next_batch(items)
    /\ cli' = "waiting"
    /\ UNCHANGED <<vars, size, items, batches, report>>

Ready(b) == b.state \in {"done", "raised"}

(* Python 2: when all tasks are ready the results are added up; that of a  *)
(* task that raised is not a dictionary, and raises here.                  *)
Finished ==
    /\ 2 \in Pythons /\ cli = "waiting"
    /\ \A b \in batches : Ready(b)
    /\ \/ /\ \E b \in batches : b.state = "raised"
          /\ cli' = "failed" /\ UNCHANGED report
       \/ /\ \A b \in batches : b.state = "done"
          /\ cli' = "reported"
          /\ report' = [success  |-> MapThenSumSet(LAMBDA b : b.success, batches),
                        failures |-> UNION {b.failures : b \in batches}]
    /\ UNCHANGED <<vars, size, items, batches>>

(* Python 3: filter has no length, and counting the finished tasks raises. *)
CountFails ==
    /\ 3 \in Pythons /\ cli = "waiting"
    /\ cli' = "failed"
    /\ UNCHANGED <<vars, size, items, batches, report>>

-----------------------------------------------------------------------------
(* A worker of the indexing queue, at batch b.                             *)

Becomes(b, c) == batches' = (batches \ {b}) \cup {c}

TakeBatch(b) ==
    /\ b.state = "queued"
    /\ Becomes(b, [b EXCEPT !.state = "reading"])
    /\ UNCHANGED <<vars, size, cli, items, report>>

(* The document gets the stamp of the reindex, not that of the object.     *)
ReadObjectStamped(b, o) ==
    LET action == [obj   |-> o,
                   index |-> record_to_index(record_from_object(row[o])),
                   doc   |-> [prepare_record(row[o]) EXCEPT !.updated = clock]]
    IN  /\ b.state = "reading" /\ o \in b.todo
        /\ Becomes(b, [b EXCEPT !.todo = @ \ {o},
                                !.actions = IF row[o] = None THEN @
                                            ELSE @ \cup {action}])
        /\ UNCHANGED <<vars, size, cli, items, report>>

(* The generator loads one object and makes its line; an object that is    *)
(* missing is logged and left out.                                         *)
ReadObject(b, o) ==
    LET action == [obj   |-> o,
                   index |-> record_to_index(record_from_object(row[o])),
                   doc   |-> prepare_record(row[o])]
    IN  /\ b.state = "reading" /\ o \in b.todo
        /\ Becomes(b, [b EXCEPT !.todo = @ \ {o},
                                !.actions = IF row[o] = None THEN @
                                            ELSE @ \cup {action}])
        /\ UNCHANGED <<vars, size, cli, items, report>>

(* The documents of `sent` replace what the index has, whatever is there.  *)
Overwritten(sent) ==
    [i \in Indices |-> [o \in Objects |->
        IF \E a \in sent : a.index = i /\ a.obj = o
          THEN (CHOOSE a \in sent : a.index = i /\ a.obj = o).doc
          ELSE docs[i][o]]]

(* A line that fails is not in the task's result.                          *)
BulkForgetsFailures(b) ==
    /\ b.state = "reading" /\ b.todo = {}
    /\ \E failed \in SUBSET b.actions :
          /\ "index" \in Faults \/ failed = {}
          /\ docs' = Overwritten({a \in b.actions \ failed : a.index # None})
          /\ Becomes(b, [b EXCEPT !.state = "done", !.actions = {},
                                  !.success = Cardinality(b.actions \ failed)])
    /\ UNCHANGED <<row, queue, clock, pc, req, img, pend, reply, requests>>
    /\ UNCHANGED <<size, cli, items, report>>

(* The task stores no result (ignore_result=True).                         *)
BulkIgnoresResult(b) ==
    /\ b.state = "reading" /\ b.todo = {} /\ b.actions # {}
    /\ docs' = Overwritten(b.actions)
    /\ Becomes(b, [b EXCEPT !.actions = {}])
    /\ UNCHANGED <<row, queue, clock, pc, req, img, pend, reply, requests>>
    /\ UNCHANGED <<size, cli, items, report>>

(* helpers.bulk: one request; lines without an index fail, or have the     *)
(* search server refuse the whole request, and nothing is raised.          *)
bulk(b) ==
    LET noIndex == {a \in b.actions : a.index = None}
    IN  /\ b.state = "reading" /\ b.todo = {}
        /\ \E failed \in SUBSET b.actions :
              /\ noIndex \subseteq failed
              /\ \/ failed = noIndex
                 \/ noIndex # {} /\ failed = b.actions
                 \/ "index" \in Faults
              /\ docs' = Overwritten(b.actions \ failed)
              /\ Becomes(b, [b EXCEPT !.state = "done", !.actions = {},
                                      !.success = Cardinality(b.actions \ failed),
                                      !.failures = {a.obj : a \in failed}])
        /\ UNCHANGED <<row, queue, clock, pc, req, img, pend, reply, requests>>
        /\ UNCHANGED <<size, cli, items, report>>

(* Something batch_reindex does not catch: the task is ready, with the     *)
(* exception as its result.                                                *)
BatchRaises(b) ==
    /\ "batch" \in Faults /\ b.state = "reading"
    /\ Becomes(b, [b EXCEPT !.state = "raised", !.actions = {}])
    /\ UNCHANGED <<vars, size, cli, items, report>>

(* The worker dies with the task it took; nobody takes it again.           *)
BatchLost(b) ==
    /\ "lost" \in Faults /\ b.state = "reading"
    /\ Becomes(b, [b EXCEPT !.state = "lost", !.actions = {}])
    /\ UNCHANGED <<vars, size, cli, items, report>>

-----------------------------------------------------------------------------
Command == Select \/ Schedule \/ Scheduled \/ Finished

Worker(b) == TakeBatch(b) \/ (\E o \in Objects : ReadObject(b, o)) \/ bulk(b)

ReindexNext ==
    \/ Next /\ UNCHANGED commandVars
    \/ RecreateIndices
    \/ Command
    \/ ScheduleFails \/ CountFails
    \/ \E b \in batches : Worker(b) \/ BatchRaises(b) \/ BatchLost(b)

ReindexSpec == ReindexInit /\ [][ReindexNext]_allVars

(* Once started the command and the workers of its queue go on.            *)
ReindexFairSpec ==
    /\ ReindexSpec
    /\ WF_allVars(Schedule) /\ WF_allVars(Scheduled) /\ WF_allVars(Finished)
    /\ WF_allVars(\E b \in batches : Worker(b))

-----------------------------------------------------------------------------
(* Properties.                                                             *)

Reported == cli = "reported"

Current(o) ==
    LET i == record_to_index(record_from_object(row[o]))
    IN  i # None /\ docs[i][o] = prepare_record(row[o])

(* When nothing else changed the objects and the command reports no        *)
(* failure, every object of the data types asked for has an index and is   *)
(* in it as it is (cli.py:83-134, tasks.py:48-90), whatever the batches.   *)
CleanReportIsComplete ==
    Reported /\ requests = 0 /\ report.failures = {} =>
        \A o \in Objects : row[o].data_type \in Types => Current(o)

(* What the command's query found.                                         *)
Selected == items \cup UNION {b.ids : b \in batches}

(* Whatever goes on at the same time, an object the query found is counted *)
(* as indexed or as failed unless it has been deleted (cli.py:124-134).    *)
AllAreCounted ==
    Reported =>
        report.success + Cardinality(report.failures) >=
            Cardinality({o \in Selected : row[o] # None})

(* After a reindex that reports no failure every object the query found    *)
(* can be found in the index, even if requests and runs save it while it   *)
(* is read and sent, and even if the index did not take their documents.   *)
(* An object that gets its data type meanwhile may be in no index.         *)
FoundAfterReindex ==
    Reported /\ report.failures = {} =>
        \A o \in Selected :
            row[o] # None /\ Quiet(o) => \E i \in Indices : docs[i][o] # None

(* The command ends, with a report or an error, unless a worker dies with  *)
(* a batch: it waits for the result of every task (cli.py:115-134).        *)
ReindexEnds ==
    cli = "scheduling" ~>
        cli \in {"reported", "failed"} \/ \E b \in batches : b.state = "lost"
=============================================================================
