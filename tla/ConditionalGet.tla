--------------------------- MODULE ConditionalGet ---------------------------
(***************************************************************************)
(* Clients that keep what a GET or a PUT answered, with its ETag and its   *)
(* Last-Modified, and ask again with If-None-Match or If-Modified-Since,   *)
(* next to the requests and runs of HoldingPen.  A GET reads one committed *)
(* row.  A PUT with a body answers with the record of its body and with    *)
(* the tag of the row as it is when it answers: its commit expired what it *)
(* had loaded.                                                             *)
(***************************************************************************)
EXTENDS HoldingPen

CONSTANTS
    Clients,
    TicksPerSecond  \* values of modified within one second

ASSUME ConditionalAssumption == TicksPerSecond \in Nat \ {0}

VARIABLES
    kept,       \* kept[c]: the last answer with a representation, or None
    answered,   \* answered[c]: status code of the last answer, or 0
    owed        \* PUTs that are through and have not answered

conditionalVars == <<vars, kept, answered, owed>>

(* last_modified is a date in whole seconds, the tag is a hash of modified.*)
Second(stamp) == stamp \div TicksPerSecond

(* The tag is made from the second, like the date.                         *)
AnswerTaggedBySecond(o, copy, stamp) ==
    [obj |-> o, copy |-> copy, tag |-> Second(stamp), date |-> Second(stamp)]

Answer(o, copy, stamp) ==
    [obj |-> o, copy |-> copy, tag |-> stamp, date |-> Second(stamp)]

(* A whole record as it was sent, the stamp of the row it was read from or *)
(* saved as, and whether it was read from a row.                           *)
PenCopy == [record : Record, stamp : Nat, read : BOOLEAN]

(* The record of a row, which get_record made when it was loaded.          *)
ReadCopy(w) ==
    [record |-> record_from_object(w), stamp |-> w.modified, read |-> TRUE]

(* The record a body was taken into, as update_model wrote it to w.        *)
PutCopy(w) ==
    [record |-> [workflow   |-> [status       |-> w.status,
                                 data_type    |-> w.data_type,
                                 id_workflow  |-> w.id_workflow,
                                 callback_pos |-> w.callback_pos],
                 metadata   |-> w.data,
                 extra_data |-> w.extra_data],
     stamp  |-> w.modified,
     read   |-> FALSE]

ConditionalTypeOK ==
    /\ kept \in [Clients -> [obj : Objects, copy : PenCopy, tag : Nat, date : Nat]
                              \cup {None}]
    /\ answered \in [Clients -> {0, 200, 304, 404, 500}]
    /\ owed \subseteq [obj : Objects, copy : PenCopy, expired : BOOLEAN]

ConditionalInit ==
    /\ Init
    /\ kept = [c \in Clients |-> None]
    /\ answered = [c \in Clients |-> 0]
    /\ owed = {}

Answers(c, code) == answered' = [answered EXCEPT ![c] = code]

(* The dates are compared the wrong way round.                             *)
NotModifiedSwapped(known, headers, w) ==
    \/ "tag" \in headers /\ known.tag = w.modified
    \/ "date" \in headers /\ known.date <= Second(w.modified)

(* check_etag, then check_if_modified_since, which asks again even when a  *)
(* tag was given and is another one.                                       *)
NotModified(known, headers, w) ==
    \/ "tag" \in headers /\ known.tag = w.modified
    \/ "date" \in headers /\ Second(w.modified) <= known.date

(* That there is no object is kept like a representation.                  *)
GetKeepingMissing(c, o, headers) ==
    /\ kept' = [kept EXCEPT ![c] = Answer(o, IF row[o] = None THEN None
                                              ELSE ReadCopy(row[o]), 0)]
    /\ Answers(c, IF row[o] = None THEN 404 ELSE 200)
    /\ UNCHANGED <<vars, owed>>

(* get: with headers only about an object whose answer the client keeps.   *)
Get(c, o, headers) ==
    /\ headers # {} => kept[c] # None /\ kept[c].obj = o
    /\ \/ row[o] = None /\ Answers(c, 404) /\ UNCHANGED kept
       \/ /\ row[o] # None /\ NotModified(kept[c], headers, row[o])
          /\ Answers(c, 304) /\ UNCHANGED kept
       \/ /\ row[o] # None /\ ~NotModified(kept[c], headers, row[o])
          /\ Answers(c, 200)
          /\ kept' = [kept EXCEPT ![c] =
                        Answer(o, ReadCopy(row[o]), row[o].modified)]
    /\ UNCHANGED <<vars, owed>>

(* A PUT without a body stores nothing and answers what it loaded.         *)
PutsNothing(s) ==
    /\ Handles(s, "put") /\ pc'[s] = "idle" /\ reply'[s] = 200

(* A step of HoldingPen; a PUT that is through still has to answer.        *)
PenStep ==
    /\ Next
    /\ owed' = owed \cup
         {[obj |-> req[s].obj, copy |-> PutCopy(img[s]), expired |-> TRUE] :
            s \in {s \in Sessions : Commits(s, "put")}} \cup
         {[obj |-> req[s].obj, copy |-> ReadCopy(img[s]), expired |-> FALSE] :
            s \in {s \in Sessions : PutsNothing(s)}}
    /\ UNCHANGED <<kept, answered>>

(* make_response at the end of put: the body is the record of the request; *)
(* after a commit modified is read again, which fails when the row has     *)
(* been deleted since.                                                     *)
AnswerPut(c, put_) ==
    LET o == put_.obj
        stamp == IF put_.expired THEN row[o].modified ELSE put_.copy.stamp
    IN  /\ owed' = owed \ {put_}
        /\ \/ put_.expired /\ row[o] = None /\ Answers(c, 500) /\ UNCHANGED kept
           \/ /\ put_.expired => row[o] # None
              /\ Answers(c, 200)
              /\ kept' = [kept EXCEPT ![c] = Answer(o, put_.copy, stamp)]
        /\ UNCHANGED vars

ConditionalNext ==
    \/ PenStep
    \/ \E c \in Clients :
         \/ \E o \in Objects, headers \in SUBSET {"tag", "date"} :
               Get(c, o, headers)
         \/ \E p \in owed : AnswerPut(c, p)

ConditionalSpec == ConditionalInit /\ [][ConditionalNext]_conditionalVars

-----------------------------------------------------------------------------
(* Properties.                                                             *)

(* The tag of an answer is that of the save its representation comes from. *)
(* Not so when another save is committed between the commit of a PUT and   *)
(* its answer.                                                             *)
OwnTag(known) == known.tag = known.copy.stamp

(* What a copy shows of the row it is a copy of: all of it when it was     *)
(* read, and what every save writes when it is the record of a body (the   *)
(* status, data type and workflow of a body that agree with what the PUT   *)
(* loaded are not written, api.py:190-194, and another save may change     *)
(* them before the PUT is flushed).                                        *)
Shows(copy, w) ==
    /\ SavedAlike(copy, w)
    /\ copy.read => copy.record = record_from_object(w)

(* A client that is told "not modified" has what a GET would have shown    *)
(* it, whatever was saved in between: the whole record if it was read, and *)
(* metadata, extra_data and position if it is the answer to a PUT, whose   *)
(* status may be another one.  Not so for saves of the same second when it *)
(* asked by date, and for a PUT that did not get its own tag               *)
(* (views/rest.py:304-308, response.py:44-53, json.py:55-60).              *)
NotModifiedIsCurrent ==
    [][\A c \in Clients, o \in Objects, headers \in SUBSET {"tag", "date"} :
          /\ Get(c, o, headers) /\ answered'[c] = 304 /\ OwnTag(kept[c])
          => \/ kept[c].copy.stamp = row[o].modified /\ Shows(kept[c].copy, row[o])
             \/ /\ "date" \in headers
                /\ kept[c].date = Second(row[o].modified)]_conditionalVars

(* No client is ever ahead of the database, nor shown a save that was      *)
(* rolled back: what it keeps comes from a save that was committed, and a  *)
(* row of its own tag is what it keeps: all of it after a GET, and what    *)
(* every save writes after a PUT (get and put, views/rest.py:296-327,      *)
(* while saves are indexed before their commit).                           *)
TagIdentifiesAnswer ==
    \A c \in Clients :
        /\ kept[c] # None /\ row[kept[c].obj] # None
        => /\ kept[c].copy.stamp <= kept[c].tag
           /\ kept[c].tag <= row[kept[c].obj].modified
           /\ OwnTag(kept[c]) /\ kept[c].tag = row[kept[c].obj].modified
                => Shows(kept[c].copy, row[kept[c].obj])
=============================================================================
