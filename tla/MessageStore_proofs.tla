--------------------------- MODULE MessageStore_proofs ---------------------------
(***************************************************************************)
(* For every number of workers, set of messages and bound on the ids:      *)
(* requests racing for a row never act on another message than the one     *)
(* they looked up, and a row whose deletion was answered never comes back. *)
(* The argument is that ids only grow: a worker that looked a row up, or   *)
(* deleted one, holds an id no later INSERT can give.                      *)
(***************************************************************************)
EXTENDS MessageStore, TLAPS

Detail(w) == req[w].op \in {"retrieve", "delete"}

\* A detail view has a primary key, from its URL.
DetailHasId == \A w \in Workers : Detail(w) => req[w].pk \in Ids

\* Rows only have ids their table has given.
IdsGiven == \A t \in Tables, i \in Ids : rows[t][i] # NoBody => i <= seq[t]

\* So has a row that was looked up, or deleted; only a detail view looks up.
LookedUpGiven ==
    \A w \in Workers : (found[w] # NoBody \/ status[w] = 204) =>
        Detail(w) /\ req[w].pk <= seq[req[w].table]

IInv == TypeOK /\ DetailHasId /\ IdsGiven /\ LookedUpGiven /\ FoundIsCurrent /\ DeletedIsGone

\* The server starts with empty tables and idle workers.
LEMMA InitInv == Init => IInv
<1> SUFFICES ASSUME Init PROVE IInv
  OBVIOUS
<1> USE MessageStoreAssumption DEF Init
<1>1. NoRequest \in Request
  BY DEF NoRequest, NewRequest, Request, Ops, Tables
<1>2. TypeOK
  BY <1>1 DEF TypeOK, AnswerFits, NoRequest, NewRequest, Tables
<1>3. DetailHasId /\ LookedUpGiven /\ FoundIsCurrent /\ DeletedIsGone
  BY DEF DetailHasId, LookedUpGiven, FoundIsCurrent, DeletedIsGone, Detail, NoRequest,
     NewRequest
<1>4. IdsGiven
  BY DEF IdsGiven
<1> QED BY <1>2, <1>3, <1>4 DEF IInv

\* A worker that answers, without touching the tables, preserves it.
LEMMA AnswerStep ==
    ASSUME IInv, UNCHANGED store, NEW w \in Workers,
           NEW s \in {200, 400, 404, 500}, Answers(w, s), AnswerFits(w)'
    PROVE  IInv'
<1> USE DEF IInv, store, Answers
<1>1. TypeOK'
  BY DEF TypeOK, AnswerFits
<1>2. DetailHasId' /\ IdsGiven' /\ LookedUpGiven'
  BY DEF DetailHasId, IdsGiven, LookedUpGiven, Detail, TypeOK
<1>3. FoundIsCurrent' /\ DeletedIsGone'
  BY DEF FoundIsCurrent, DeletedIsGone, TypeOK
<1> QED BY <1>1, <1>2, <1>3

\* Every step of every worker preserves it.
LEMMA NextInv == IInv /\ [Next]_vars => IInv'
<1> SUFFICES ASSUME IInv, [Next]_vars PROVE IInv'
  OBVIOUS
<1> USE MessageStoreAssumption DEF IInv
<1>1. ASSUME NEW w \in Workers, Receive(w) PROVE IInv'
  <2>1. PICK op \in Ops, t \in Tables, i \in Nat, b \in Bodies \cup {NoBody} :
            /\ req' = [req EXCEPT ![w] = NewRequest(op, t, i, b)]
            /\ op \in {"retrieve", "delete"} => i \in Ids
    BY <1>1 DEF Receive, Ops, Ids
  <2>2. /\ req[w].op = "none" /\ found[w] = NoBody /\ status[w] = 0
        /\ UNCHANGED <<rows, seq, found, status>>
    BY <1>1 DEF Receive, NoRequest, NewRequest, LookedUpGiven, Detail, TypeOK, AnswerFits, store
  <2>3. TypeOK'
    BY <2>1, <2>2 DEF TypeOK, AnswerFits, NewRequest, Request
  <2>4. DetailHasId' /\ IdsGiven' /\ LookedUpGiven'
    BY <2>1, <2>2 DEF DetailHasId, IdsGiven, LookedUpGiven, Detail, NewRequest, TypeOK
  <2>5. FoundIsCurrent' /\ DeletedIsGone'
    BY <2>1, <2>2 DEF FoundIsCurrent, DeletedIsGone, TypeOK
  <2> QED BY <2>3, <2>4, <2>5
<1>2. ASSUME NEW w \in Workers, List(w) \/ Refuse(w) \/ Retrieve(w) \/ Fails(w) PROVE IInv'
  <2>1. PICK s \in {200, 400, 404, 500} : Answers(w, s) /\ AnswerFits(w)'
    BY <1>2 DEF List, Refuse, Retrieve, Fails, Handles, Answers, AnswerFits, TypeOK
  <2> QED BY <1>2, <2>1, AnswerStep DEF List, Refuse, Retrieve, Fails
<1>3. ASSUME NEW w \in Workers, GetObject(w) PROVE IInv'
  <2> DEFINE row == rows[req[w].table][req[w].pk]
  <2>1. CASE row = NoBody
    <3>1. Answers(w, 404) /\ AnswerFits(w)' /\ UNCHANGED store
      BY <1>3, <2>1 DEF GetObject, Handles, Answers, AnswerFits, TypeOK
    <3> QED BY <3>1, AnswerStep
  <2>2. CASE row # NoBody
    <3>1. /\ Detail(w) /\ req[w].pk \in Ids /\ req[w].table \in Tables
          /\ UNCHANGED <<rows, seq, req, status>> /\ found' = [found EXCEPT ![w] = row]
      BY <1>3, <2>2 DEF GetObject, Handles, Detail, DetailHasId, TypeOK, Request, Answers, store
    <3>2. row \in Bodies /\ req[w].pk <= seq[req[w].table]
      BY <2>2, <3>1 DEF TypeOK, IdsGiven
    <3>3. TypeOK'
      BY <3>1, <3>2 DEF TypeOK, AnswerFits
    <3>4. DetailHasId' /\ IdsGiven' /\ LookedUpGiven'
      BY <3>1, <3>2 DEF DetailHasId, IdsGiven, LookedUpGiven, Detail, TypeOK
    <3>5. FoundIsCurrent' /\ DeletedIsGone'
      BY <3>1, <3>2 DEF FoundIsCurrent, DeletedIsGone, TypeOK
    <3> QED BY <3>3, <3>4, <3>5
  <2> QED BY <2>1, <2>2
<1>4. ASSUME NEW w \in Workers, Create(w) PROVE IInv'
  <2> DEFINE t == req[w].table
             new == seq[t] + 1
  <2>1. /\ t \in Tables /\ new \in Ids /\ req[w].body \in Bodies
        /\ req[w].op = "create" /\ found[w] = NoBody
    <3>1. t \in Tables /\ req[w].body \in Bodies /\ req[w].op = "create"
      BY <1>4 DEF Create, Handles, TypeOK, Request
    <3>2. new \in Ids
      BY <1>4, <3>1 DEF Create, NextId, TypeOK, Ids
    <3>3. found[w] = NoBody
      BY <3>1 DEF LookedUpGiven, Detail
    <3> QED BY <3>1, <3>2, <3>3
  <2>2. /\ rows' = [rows EXCEPT ![t][new] = req[w].body]
        /\ seq' = [seq EXCEPT ![t] = new]
        /\ status' = [status EXCEPT ![w] = 201] /\ UNCHANGED <<req, found>>
    BY <1>4 DEF Create, Answers, NextId
  <2>3. /\ rows'[t][new] = req[w].body
        /\ \A u \in Tables, i \in Ids : u # t \/ i # new => rows'[u][i] = rows[u][i]
    BY <2>1, <2>2 DEF TypeOK
  <2>4. \A u \in Tables : seq'[u] \in Nat /\ seq[u] \in Nat /\ seq[u] <= seq'[u]
    BY <2>1, <2>2 DEF TypeOK
  <2>5. TypeOK'
    BY <2>1, <2>2 DEF TypeOK, AnswerFits, Ids
  <2>6. DetailHasId'
    BY <2>2 DEF DetailHasId, Detail
  <2>7. IdsGiven'
    BY <2>1, <2>2, <2>3, <2>4 DEF IdsGiven, TypeOK, Ids
  <2>8. \A v \in Workers : (found[v] # NoBody \/ status'[v] = 204) =>
            /\ Detail(v) /\ req[v].pk \in Ids /\ req[v].table \in Tables
            /\ req[v].pk <= seq[req[v].table]
            /\ (status'[v] = 204 => status[v] = 204)
            /\ rows'[req[v].table][req[v].pk] = rows[req[v].table][req[v].pk]
    <3> SUFFICES ASSUME NEW v \in Workers, found[v] # NoBody \/ status'[v] = 204
                 PROVE  /\ Detail(v) /\ req[v].pk \in Ids /\ req[v].table \in Tables
                        /\ req[v].pk <= seq[req[v].table]
                        /\ (status'[v] = 204 => status[v] = 204)
                        /\ rows'[req[v].table][req[v].pk] = rows[req[v].table][req[v].pk]
      OBVIOUS
    <3>1. v # w /\ status'[v] = status[v]
      BY <2>1, <2>2 DEF TypeOK
    <3>2. Detail(v) /\ req[v].pk \in Ids /\ req[v].pk <= seq[req[v].table]
      BY <3>1 DEF LookedUpGiven, DetailHasId
    <3>3. req[v].table \in Tables
      BY DEF TypeOK, Request
    <3>4. req[v].table # t \/ req[v].pk # new
      BY <2>1, <3>2 DEF TypeOK, Ids
    <3> QED BY <2>3, <3>1, <3>2, <3>3, <3>4
  <2>9. LookedUpGiven'
    BY <2>2, <2>4, <2>8 DEF LookedUpGiven, Detail, Ids
  <2>10. FoundIsCurrent' /\ DeletedIsGone'
    BY <2>2, <2>8 DEF FoundIsCurrent, DeletedIsGone
  <2> QED BY <2>5, <2>6, <2>7, <2>9, <2>10
<1>5. ASSUME NEW w \in Workers, Delete(w) PROVE IInv'
  <2> DEFINE t == req[w].table
             pk == req[w].pk
  <2>1. /\ t \in Tables /\ pk \in Ids /\ pk <= seq[t] /\ Detail(w) /\ req[w].op = "delete"
    BY <1>5 DEF Delete, Handles, TypeOK, Request, LookedUpGiven, DetailHasId
  <2>2. /\ rows' = [rows EXCEPT ![t][pk] = NoBody]
        /\ status' = [status EXCEPT ![w] = 204] /\ UNCHANGED <<seq, req, found>>
    BY <1>5 DEF Delete, Answers
  <2>3. /\ rows'[t][pk] = NoBody
        /\ \A u \in Tables, i \in Ids : rows'[u][i] \in {rows[u][i], NoBody}
    BY <2>1, <2>2 DEF TypeOK
  <2>4. TypeOK'
    BY <2>1, <2>2 DEF TypeOK, AnswerFits
  <2>5. DetailHasId' /\ IdsGiven'
    BY <2>2, <2>3 DEF DetailHasId, IdsGiven, Detail
  <2>6. LookedUpGiven'
    BY <2>1, <2>2 DEF LookedUpGiven, Detail, TypeOK
  <2>7. \A v \in Workers : (found[v] # NoBody \/ status[v] = 204) =>
            req[v].pk \in Ids /\ req[v].table \in Tables
    BY DEF LookedUpGiven, DetailHasId, TypeOK, Request
  <2>8. FoundIsCurrent'
    BY <2>2, <2>3, <2>7 DEF FoundIsCurrent
  <2>9. DeletedIsGone'
    BY <2>2, <2>3, <2>7 DEF DeletedIsGone, TypeOK
  <2> QED BY <2>4, <2>5, <2>6, <2>8, <2>9
<1>6. ASSUME NEW w \in Workers, Finish(w) PROVE IInv'
  <2>1. NoRequest \in Request /\ NoRequest.op = "none"
    BY DEF NoRequest, NewRequest, Request, Ops, Tables
  <2>2. TypeOK'
    BY <1>6, <2>1 DEF Finish, store, TypeOK, AnswerFits
  <2>3. DetailHasId' /\ IdsGiven' /\ LookedUpGiven'
    BY <1>6, <2>1 DEF Finish, store, DetailHasId, IdsGiven, LookedUpGiven, Detail, TypeOK
  <2>4. FoundIsCurrent' /\ DeletedIsGone'
    BY <1>6 DEF Finish, store, FoundIsCurrent, DeletedIsGone, TypeOK
  <2> QED BY <2>2, <2>3, <2>4
<1>7. CASE UNCHANGED vars
  BY <1>7 DEF vars, store, TypeOK, AnswerFits, DetailHasId, IdsGiven, LookedUpGiven,
     FoundIsCurrent, DeletedIsGone, Detail
<1> QED BY <1>1, <1>2, <1>3, <1>4, <1>5, <1>6, <1>7 DEF Next

\* Every reachable state satisfies the inductive invariant.
LEMMA InvAlways == Spec => []IInv
  BY InitInv, NextInv, PTL DEF Spec

\* State and answers of the views of denm_cam/views.py keep their types.
THEOREM TypeCorrect == Spec => []TypeOK
  BY InvAlways, PTL DEF IInv

\* The second query of a detail view acts on the message the first one found.
THEOREM RacesHitNoOtherRow == Spec => []FoundIsCurrent
  BY InvAlways, PTL DEF IInv

\* A DELETE that was answered 204 is final.
THEOREM DeletionIsFinal == Spec => []DeletedIsGone
  BY InvAlways, PTL DEF IInv
==============================================================================
