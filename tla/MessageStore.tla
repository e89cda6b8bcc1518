------------------------------ MODULE MessageStore ------------------------------
(***************************************************************************)
(* The HTTPS server's REST interface (denm_cam/views.py): two tables of    *)
(* messages, CAM and DENM, served by concurrent request workers over one   *)
(* SQLite database in autocommit mode.  Each query is atomic; a view that  *)
(* makes two, the DELETE of a detail view, is not.                         *)
(***************************************************************************)
EXTENDS Naturals

CONSTANTS
    Workers,   \* requests the server may be handling at once
    Bodies,    \* messages the serializers accept: at most 100 characters
    NoBody,    \* no message, or one they refuse: too long, or no field chars
    MaxId      \* bound: rows ever created in a table

ASSUME MessageStoreAssumption == MaxId \in Nat /\ NoBody \notin Bodies

VARIABLES
    rows,    \* the body of each row, NoBody where there is none
    seq,     \* the last id each table gave
    req,     \* the request each worker handles
    found,   \* the body of the row its get_object returned, else NoBody
    status   \* what it answered, 0 until then

store == <<rows, seq>>
vars == <<store, req, found, status>>

Tables == {"cam", "denm"}
Ids == 1..MaxId

Ops == {"none", "list", "create", "retrieve", "delete"}
Request == [op : Ops, table : Tables, pk : Nat, body : Bodies \cup {NoBody}]
NewRequest(op, t, i, b) == [op |-> op, table |-> t, pk |-> i, body |-> b]
NoRequest == NewRequest("none", "cam", 0, NoBody)

\* The statuses with which each kind of view answers.
AnswerFits(w) ==
    /\ status[w] = 200 => req[w].op \in {"list", "retrieve"}
    /\ status[w] \in {201, 400} => req[w].op = "create"
    /\ status[w] = 204 => req[w].op = "delete"
    /\ status[w] = 404 => req[w].op \in {"retrieve", "delete"}
    /\ status[w] = 500 => req[w].op # "none"

TypeOK ==
    /\ rows \in [Tables -> [Ids -> Bodies \cup {NoBody}]]
    /\ seq \in [Tables -> 0..MaxId]
    /\ req \in [Workers -> Request]
    /\ found \in [Workers -> Bodies \cup {NoBody}]
    /\ status \in [Workers -> {0, 200, 201, 204, 400, 404, 500}]
    /\ \A w \in Workers : AnswerFits(w)

Init ==
    /\ rows = [t \in Tables |-> [i \in Ids |-> NoBody]]
    /\ seq = [t \in Tables |-> 0]
    /\ req = [w \in Workers |-> NoRequest]
    /\ found = [w \in Workers |-> NoBody]
    /\ status = [w \in Workers |-> 0]

-----------------------------------------------------------------------------

\* A client sends a request; urls.py takes it to a view by its table, and to
\* the list or the detail view by whether it has a primary key.
Receive(w) ==
    /\ req[w] = NoRequest
    /\ \E t \in Tables :
          \/ req' = [req EXCEPT ![w] = NewRequest("list", t, 0, NoBody)]
          \/ \E b \in Bodies \cup {NoBody} :
                req' = [req EXCEPT ![w] = NewRequest("create", t, 0, b)]
          \/ \E op \in {"retrieve", "delete"}, i \in Ids :
                req' = [req EXCEPT ![w] = NewRequest(op, t, i, NoBody)]
    /\ UNCHANGED <<store, found, status>>

Handles(w, op) == req[w].op = op /\ status[w] = 0
Answers(w, s) == status' = [status EXCEPT ![w] = s] /\ UNCHANGED <<req, found>>

\* DenmList.get, CamList.get.
List(w) == Handles(w, "list") /\ Answers(w, 200) /\ UNCHANGED store

Refuse(w) ==
    Handles(w, "create") /\ req[w].body = NoBody /\ Answers(w, 400) /\ UNCHANGED store

\* Mutant of NextId: a plain SQLite rowid, one more than the largest in use.
NextRowid(t) == IF \E i \in Ids : rows[t][i] # NoBody
                THEN 1 + CHOOSE i \in Ids :
                            /\ rows[t][i] # NoBody
                            /\ \A j \in Ids : rows[t][j] # NoBody => j <= i
                ELSE 1

NextId(t) == seq[t] + 1

Create(w) ==
    LET t == req[w].table
    IN  /\ Handles(w, "create") /\ req[w].body # NoBody
        /\ NextId(t) <= MaxId
        /\ rows' = [rows EXCEPT ![t][NextId(t)] = req[w].body]
        /\ seq' = [seq EXCEPT ![t] = NextId(t)]
        /\ Answers(w, 201)

\* get_object, the first query of both detail views.
GetObject(w) ==
    LET row == rows[req[w].table][req[w].pk]
    IN  /\ Handles(w, "retrieve") \/ Handles(w, "delete")
        /\ found[w] = NoBody
        /\ \/ row = NoBody /\ Answers(w, 404)
           \/ row # NoBody /\ found' = [found EXCEPT ![w] = row] /\ UNCHANGED <<req, status>>
        /\ UNCHANGED store

Retrieve(w) ==
    Handles(w, "retrieve") /\ found[w] # NoBody /\ Answers(w, 200) /\ UNCHANGED store

\* Mutant of Delete: CamDetail.delete left as it was copied from DenmDetail.
DeleteDenm(w) ==
    /\ Handles(w, "delete") /\ found[w] # NoBody
    /\ rows' = [rows EXCEPT !["denm"][req[w].pk] = NoBody]
    /\ Answers(w, 204)
    /\ UNCHANGED seq

\* delete(): DELETE ... WHERE id = pk, which succeeds if no row is left too.
Delete(w) ==
    /\ Handles(w, "delete") /\ found[w] # NoBody
    /\ rows' = [rows EXCEPT ![req[w].table][req[w].pk] = NoBody]
    /\ Answers(w, 204)
    /\ UNCHANGED seq

\* A query raises OperationalError (the database stays locked): no view
\* catches it.
Fails(w) ==
    req[w].op # "none" /\ status[w] = 0 /\ Answers(w, 500) /\ UNCHANGED store

\* The answer is sent, and the worker is free.
Finish(w) ==
    /\ status[w] # 0
    /\ req' = [req EXCEPT ![w] = NoRequest]
    /\ found' = [found EXCEPT ![w] = NoBody]
    /\ status' = [status EXCEPT ![w] = 0]
    /\ UNCHANGED store

Next == \E w \in Workers :
    \/ Receive(w) \/ List(w) \/ Refuse(w) \/ Create(w) \/ GetObject(w)
    \/ Retrieve(w) \/ Delete(w) \/ Fails(w) \/ Finish(w)

Spec == Init /\ [][Next]_vars

-----------------------------------------------------------------------------
(* Properties.                                                             *)

\* A detail view works on the row it looked up: if there still is a row under
\* that id when it deletes or shows it, it is the same message, although
\* other workers created and deleted rows in between (views.py:39-42).
FoundIsCurrent ==
    \A w \in Workers :
        LET row == rows[req[w].table][req[w].pk]
        IN  (found[w] # NoBody /\ row # NoBody) => row = found[w]

\* Once a DELETE has answered 204 there is no such row, whoever deleted it and
\* whatever was created since (views.py:42).
DeletedIsGone ==
    \A w \in Workers : status[w] = 204 => rows[req[w].table][req[w].pk] = NoBody
===============================================================================
