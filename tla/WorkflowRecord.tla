--------------------------- MODULE WorkflowRecord ---------------------------
(***************************************************************************)
(* The data of one workflow object and its conversions: the database row   *)
(* (WorkflowObject and its model), the JSON record WorkflowUIRecord builds *)
(* from it, the document sent to the search index, and the way back from a *)
(* record to the row.                                                      *)
(***************************************************************************)
EXTENDS Naturals

CONSTANTS
    DataTypes,       \* data types an object may carry (data_type column)
    Indices,         \* search indices named in the configuration
    SearchIndex,     \* WORKFLOWS_UI_DATA_TYPES: data type -> index, or None
    Workflows,       \* identities of workflow runs (id_workflow column)
    Registered,      \* those whose workflow name is in the `workflows` registry
    DefinitionType,  \* data_type attribute of the workflow class, or None
    Metadata,        \* values of the data column (key "metadata")
    ActionNames,     \* values of extra_data["_action"]
    Positions,       \* values of callback_pos, with 0 for the list [0]
    None,            \* Python None; also: no row, no document, no index
    Absent           \* a key that a request body does not have

ASSUME RecordAssumption ==
    /\ Registered \subseteq Workflows
    /\ DefinitionType \in DataTypes \cup {None}
    /\ SearchIndex \in [DataTypes -> Indices \cup {None}]
    /\ 0 \in Positions
    /\ None # Absent
    /\ {None, Absent} \cap
         (DataTypes \cup Indices \cup Workflows \cup Metadata \cup ActionNames) = {}

Status == {"INITIAL", "RUNNING", "WAITING", "HALTED", "COMPLETED", "ERROR"}

(* A row of the workflow object table. *)
Row == [status       : Status,
        data_type    : DataTypes \cup {None},
        id_workflow  : Workflows \cup {None},
        callback_pos : Positions,
        data         : Metadata,
        extra_data   : ActionNames \cup {None},
        modified     : Nat]

(* The "_workflow" part of a record. *)
WorkflowPart == [status       : Status,
                 data_type    : DataTypes \cup {None},
                 id_workflow  : Workflows \cup {None},
                 callback_pos : Positions]

Record == [workflow   : WorkflowPart,
           metadata   : Metadata,
           extra_data : ActionNames \cup {None}]

(* The JSON body of an edit or a put: any of the three keys may be missing,*)
(* and "_workflow" may be something that has not the keys update_model     *)
(* reads (None).                                                           *)
Body == [workflow   : WorkflowPart \cup {None, Absent},
         metadata   : Metadata \cup {Absent},
         extra_data : ActionNames \cup {None, Absent}]

EmptyBody == [workflow |-> Absent, metadata |-> Absent, extra_data |-> Absent]

ASSUME SentinelAssumption ==
    /\ None \notin Row /\ Absent \notin Row
    /\ None \notin WorkflowPart /\ Absent \notin WorkflowPart

(* A document: the record plus the "_updated" stamp. *)
Doc == [record : Record, updated : Nat]

-----------------------------------------------------------------------------
(* A slip: the identifier of the workflow run is left out of the record.   *)
RecordWithoutRun(w) ==
    [workflow   |-> [status       |-> w.status,
                     data_type    |-> w.data_type,
                     id_workflow  |-> None,
                     callback_pos |-> w.callback_pos],
     metadata   |-> w.data,
     extra_data |-> w.extra_data]

(* id_workflow, workflow_class and the data type of the workflow class are *)
(* only filled in when the workflow is one the registry knows.             *)
record_from_object(w) ==
    LET known == w.id_workflow \in Registered
    IN  [workflow   |-> [status       |-> w.status,
                         data_type    |-> IF w.data_type = None /\ known
                                            THEN DefinitionType
                                            ELSE w.data_type,
                         id_workflow  |-> IF known THEN w.id_workflow ELSE None,
                         callback_pos |-> w.callback_pos],
         metadata   |-> w.data,
         extra_data |-> w.extra_data]

(* The index of a record, None when its data type is not configured.       *)
record_to_index(rec) ==
    IF rec.workflow.data_type = None THEN None
                                     ELSE SearchIndex[rec.workflow.data_type]

(* A copy-paste slip: "_updated" is taken from the creation time.          *)
PrepareWithCreated(w) == [record |-> record_from_object(w), updated |-> 0]

(* The document of a row: its record, stamped with the row's modified.     *)
prepare_record(w) == [record |-> record_from_object(w), updated |-> w.modified]

(* dict.update: the keys of the body win, the others stay.                 *)
UpdateDict(rec, b) ==
    [workflow   |-> IF b.workflow = Absent THEN rec.workflow ELSE b.workflow,
     metadata   |-> IF b.metadata = Absent THEN rec.metadata ELSE b.metadata,
     extra_data |-> IF b.extra_data = Absent THEN rec.extra_data ELSE b.extra_data]

(* update_model reads every key: a missing one raises KeyError.            *)
HasAllKeys(rec) == rec.workflow \notin {None, Absent}
                   /\ rec.metadata # Absent /\ rec.extra_data # Absent

update_model(w, rec) ==
    [w EXCEPT !.status       = rec.workflow.status,
              !.data_type    = rec.workflow.data_type,
              !.id_workflow  = rec.workflow.id_workflow,
              !.callback_pos = rec.workflow.callback_pos,
              !.data         = rec.metadata,
              !.extra_data   = rec.extra_data]

(* Every column is written, those the request did not change included.     *)
UpdateEveryColumn(cur, old, new) == new

(* The UPDATE statement the session emits for an object it loaded as `old` *)
(* and changed to `new`, applied to the row as it is now.  A plain column  *)
(* is written when its value differs from the one loaded; save marks       *)
(* callback_pos, data and extra_data as modified and sets modified.        *)
UpdateStatement(cur, old, new) ==
    [new EXCEPT !.status      = IF new.status = old.status THEN cur.status ELSE @,
                !.data_type   = IF new.data_type = old.data_type
                                  THEN cur.data_type ELSE @,
                !.id_workflow = IF new.id_workflow = old.id_workflow
                                  THEN cur.id_workflow ELSE @]
=============================================================================
