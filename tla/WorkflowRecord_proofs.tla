----------------------- MODULE WorkflowRecord_proofs -----------------------
(***************************************************************************)
(* Lemmas about the conversions of WorkflowRecord, for the proofs about    *)
(* the modules that use them.                                              *)
(***************************************************************************)
EXTENDS WorkflowRecord, TLAPS

(* The conversions keep rows, records and documents well typed.            *)

(* A row makes a record (record_from_object, api.py:134-183).              *)
LEMMA RecordType ==
    ASSUME NEW w \in Row
    PROVE  record_from_object(w) \in Record
BY RecordAssumption DEF Row, Record, WorkflowPart, record_from_object

(* A row makes a document with its stamp (_prepare_record, indexer.py).    *)
LEMMA DocType ==
    ASSUME NEW w \in Row
    PROVE  prepare_record(w) \in Doc
BY RecordType DEF Doc, Row, prepare_record

(* A record is sent to a configured index or to none.                      *)
LEMMA IndexType ==
    ASSUME NEW rec \in Record
    PROVE  record_to_index(rec) \in Indices \cup {None}
BY RecordAssumption DEF Record, WorkflowPart, record_to_index

(* update_model (api.py:185-198) takes a record that has every key back to *)
(* a row, whatever it was updated with.                                    *)
LEMMA UpdateModelType ==
    ASSUME NEW w \in Row, NEW rec \in Body, HasAllKeys(rec)
    PROVE  update_model(w, rec) \in Row
BY DEF Body, HasAllKeys, update_model, Row, WorkflowPart

(* A record updated with a body is again something a body can be.          *)
LEMMA UpdateDictType ==
    ASSUME NEW rec \in Record, NEW b \in Body
    PROVE  UpdateDict(rec, b) \in Body
BY DEF Record, Body, UpdateDict

(* The UPDATE statement writes a row.                                      *)
LEMMA UpdateStatementType ==
    ASSUME NEW cur \in Row, NEW old \in Row, NEW new \in Row
    PROVE  UpdateStatement(cur, old, new) \in Row
BY DEF UpdateStatement, Row

=============================================================================
