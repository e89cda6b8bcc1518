------------------------------ MODULE RestClient ------------------------------
(***************************************************************************)
(* The API explorer of the REST framework's documentation page             *)
(* (rest_framework/docs/js/api.js) and the coreapi client it drives        *)
(* (rest_framework/js/coreapi-0.1.1.js): a form per link of the schema,    *)
(* whose submissions may overlap, the request built from its entries, and  *)
(* the answer shown as a status line, a raw panel and a data panel.        *)
(***************************************************************************)
EXTENDS Integers, Sequences

CONSTANTS
    Links,        \* form -> [method, keys: does the schema know them, fields]
                  \* a field is [name, location, required, type]
    Auths,        \* "none" and the authentications the user may choose
    MaxRequests   \* bound: requests made on one page

RestAssumption ==
    /\ "none" \in Auths /\ Auths \subseteq {"none", "token", "basic", "session"}
    /\ MaxRequests \in Nat

Panels == {"data", "raw"}
Kinds  == {"ok", "empty", "refused", "garbled", "unsupported", "failed"}
Forms  == DOMAIN Links
Places == {"query", "path", "form", "body"}

(* What the schemas of the REST framework are like: a field has one of the *)
(* four places, and a field that is the body stands beside no other field  *)
(* of the body.  ParametersPlaced depends on it.                           *)
OneBody ==
    \A f \in Forms :
        LET fields == Links[f].fields IN
        /\ DOMAIN fields \subseteq Nat
        /\ \A i \in DOMAIN fields : fields[i].location \in Places
        /\ \A i, j \in DOMAIN fields :
              fields[i].location = "body" /\ fields[j].location \in {"form", "body"} => i = j

VARIABLES
    auth,         \* window.auth
    cookie,       \* there is a csrftoken cookie
    responseDisplay, \* the panel chosen last, on any of the forms
    requests,     \* those handed to fetch(), with their state and answer
    line,         \* form -> request in the "GET /foo/" line, 0 for none
    status,       \* form -> request in the "200 OK" line and the raw panel
    data,         \* form -> request in the data panel
    awaiting,     \* forms that still say no request was made
    panels,       \* form -> panels that are visible
    toggles       \* forms that show the Data/Raw control

shown == <<line, status, data, awaiting, panels, toggles>>
vars  == <<auth, cookie, responseDisplay, requests, shown>>

Ids == 1 .. Len(requests)

FieldNames(f) == { Links[f].fields[i].name : i \in DOMAIN Links[f].fields }
AllNames == UNION { FieldNames(f) : f \in Forms }

Requests ==
    [form : Forms, given : SUBSET AllNames, state : {"flight", "reading", "done"},
     answer : Kinds \union {"none"}, query : SUBSET AllNames, path : SUBSET AllNames,
     body : SUBSET AllNames, auth : Auths, credentials : [header : Auths, csrf : BOOLEAN]]

TypeOK ==
    /\ auth \in Auths /\ cookie \in BOOLEAN /\ responseDisplay \in Panels
    /\ requests \in Seq(Requests) /\ Len(requests) <= MaxRequests
    /\ {line, status, data} \subseteq [Forms -> 0 .. Len(requests)]
    /\ awaiting \subseteq Forms /\ toggles \subseteq Forms
    /\ panels \in [Forms -> SUBSET Panels]

-----------------------------------------------------------------------------
Init ==
    /\ auth = "none" /\ cookie \in BOOLEAN /\ responseDisplay = "data"
    /\ requests = <<>>
    /\ line = [f \in Forms |-> 0] /\ status = line /\ data = line
    /\ awaiting = Forms /\ panels = [f \in Forms |-> {}] /\ toggles = {}

(* The parameters a submission makes of the entries of form f: a text that *)
(* is empty, or that its type cannot parse, gives none; a check box that   *)
(* is not checked gives false.                                             *)
Params(f, filled) ==
    { Links[f].fields[i].name : i \in { j \in DOMAIN Links[f].fields :
        \/ Links[f].fields[j].type = "checkbox"
        \/ filled[Links[f].fields[j].name] = "good"
        \/ Links[f].fields[j].type = "string" /\ filled[Links[f].fields[j].name] = "bad" } }

(* buildRequest(): the fields that have a parameter, by their location; a  *)
(* body takes the place of the form parameters collected before it.        *)
At(f, given, place) ==
    { i \in DOMAIN Links[f].fields :
        /\ Links[f].fields[i].location = place
        /\ Links[f].fields[i].name \in given }
Names(f, is) == { Links[f].fields[i].name : i \in is }
\* Mutant of FormParams: without the fields of the form.
BodyParams(f, given) == At(f, given, "body")

FormParams(f, given) ==
    { i \in At(f, given, "form") \union At(f, given, "body") :
        \A b \in At(f, given, "body") : b <= i }
Missing(f, given) ==
    \E i \in DOMAIN Links[f].fields :
        Links[f].fields[i].required /\ Links[f].fields[i].name \notin given

csrfSafeMethod(m) == m \in {"GET", "HEAD", "OPTIONS", "TRACE"}

(* authenticate() of the three kinds: an Authorization header, or the      *)
(* cookies and, for methods that change something, the CSRF token.         *)
Credentials(method) ==
    [header |-> IF auth \in {"token", "basic"} THEN auth ELSE "none",
     csrf   |-> auth = "session" /\ cookie /\ ~csrfSafeMethod(method)]

(* A submission: the link is looked up and the request built, which may    *)
(* throw before there is a promise to catch it - the form then stays as it *)
(* is; else its line is filled in and fetch() is called.                   *)
Submit(f, filled) ==
    LET given == Params(f, filled)
        r     == Len(requests) + 1
    IN  /\ r <= MaxRequests
        /\ Links[f].known /\ ~Missing(f, given)
        /\ requests' = Append(requests,
              [form |-> f, given |-> given, state |-> "flight", answer |-> "none",
               query |-> Names(f, At(f, given, "query")),
               path |-> Names(f, At(f, given, "path")),
               body |-> Names(f, FormParams(f, given)),
               auth |-> auth, credentials |-> Credentials(Links[f].method)])
        /\ line' = [line EXCEPT ![f] = r]
        /\ UNCHANGED <<auth, cookie, responseDisplay, status, data, awaiting, panels, toggles>>

SubmitThrows(f, filled) ==
    /\ ~Links[f].known \/ Missing(f, Params(f, filled))
    /\ UNCHANGED vars

(* The handlers at the end of the promise, then() and catch() alike. *)
Display(r) ==
    LET f == requests[r].form IN
    /\ data' = [data EXCEPT ![f] = r]
    /\ awaiting' = awaiting \ {f}
    /\ panels' = [panels EXCEPT ![f] = {responseDisplay}]

\* Mutant of FetchSettles: no catch() behind the promise.
FetchUncaught(r, kind) ==
    /\ requests[r].state = "flight"
    /\ requests' = [requests EXCEPT ![r].answer = kind,
            ![r].state = IF kind \in {"empty", "failed"} THEN "done" ELSE "reading"]
    /\ IF kind = "empty" THEN Display(r) ELSE UNCHANGED <<data, awaiting, panels>>
    /\ UNCHANGED <<auth, cookie, responseDisplay, line, status, toggles>>

(* fetch() settles: with an answer whose body is read next; with 204, from *)
(* which nothing is read and nothing called; or it fails.                  *)
FetchSettles(r, kind) ==
    /\ requests[r].state = "flight"
    /\ requests' = [requests EXCEPT ![r].answer = kind,
            ![r].state = IF kind \in {"empty", "failed"} THEN "done" ELSE "reading"]
    /\ IF kind \in {"empty", "failed"} THEN Display(r) ELSE UNCHANGED <<data, awaiting, panels>>
    /\ UNCHANGED <<auth, cookie, responseDisplay, line, status, toggles>>

\* Mutant of BodyRead: the responseCallback is not called.
BodyReadOnly(r) ==
    /\ requests[r].state = "reading"
    /\ requests' = [requests EXCEPT ![r].state = "done"]
    /\ Display(r)
    /\ UNCHANGED <<auth, cookie, responseDisplay, line, status, toggles>>

(* parseResponse(): the text is there, responseCallback() fills in status  *)
(* and raw panel, and the text is decoded; an error status, a text that    *)
(* does not decode and a media type nobody decodes all end in catch().     *)
BodyRead(r) ==
    /\ requests[r].state = "reading"
    /\ requests' = [requests EXCEPT ![r].state = "done"]
    /\ status' = [status EXCEPT ![requests[r].form] = r]
    /\ toggles' = toggles \union {requests[r].form}
    /\ Display(r)
    /\ UNCHANGED <<auth, cookie, responseDisplay, line>>

(* The body of an answer cannot be read to its end. *)
BodyFails(r) ==
    /\ requests[r].state = "reading"
    /\ requests' = [requests EXCEPT ![r].answer = "failed", ![r].state = "done"]
    /\ Display(r)
    /\ UNCHANGED <<auth, cookie, responseDisplay, line, status, toggles>>

(* The Data/Raw control of a form, and the choice of authentication. *)
Toggle(f, panel) ==
    /\ f \in toggles
    /\ responseDisplay' = panel
    /\ panels' = [panels EXCEPT ![f] = {panel}]
    /\ UNCHANGED <<auth, cookie, requests, line, status, data, awaiting, toggles>>

Authenticate(a) ==
    /\ a # auth /\ auth' = a
    /\ UNCHANGED <<cookie, responseDisplay, requests, shown>>

Network(r) == (\E kind \in Kinds : FetchSettles(r, kind)) \/ BodyRead(r) \/ BodyFails(r)

Next ==
    \/ \E f \in Forms :
          \/ \E filled \in [FieldNames(f) -> {"empty", "good", "bad"}] :
                Submit(f, filled) \/ SubmitThrows(f, filled)
          \/ \E p \in Panels : Toggle(f, p)
    \/ \E a \in Auths : Authenticate(a)
    \/ \E r \in Ids : Network(r)

(* A browser settles every fetch and the reading of every body, by the     *)
(* answer, an error or a timeout of its own.                               *)
Fairness == \A r \in 1 .. MaxRequests : WF_vars(r \in Ids /\ Network(r))
Spec == Init /\ [][Next]_vars /\ Fairness

-----------------------------------------------------------------------------
(* Status line, raw panel and data panel of a form are of one answer,      *)
(* whatever order the answers come in, unless the one in the data panel    *)
(* had no body (204) or failed: then the others still show the one before. *)
(* One of the panels is visible, of the two.                               *)
ShownTogether ==
    \A f \in Forms :
        /\ data[f] # 0 => \/ status[f] = data[f]
                          \/ requests[data[f]].answer \in {"empty", "failed"}
        /\ status[f] # 0 => data[f] # 0 /\ f \in toggles
        /\ IF f \in awaiting THEN panels[f] = {} ELSE \E p \in Panels : panels[f] = {p}

(* A request that was sent carries every parameter its form was given, and *)
(* nothing else; each of them where its field says, in the query, the path *)
(* or the body; and every parameter the link requires is one of them.      *)
ParametersPlaced ==
    \A r \in Ids :
        LET q == requests[r]
            carried == q.query \union q.path \union q.body
        IN
        /\ carried = q.given
        /\ \A i \in DOMAIN Links[q.form].fields :
              LET field == Links[q.form].fields[i] IN
              /\ field.required => field.name \in carried
              /\ field.name \in q.given =>
                    field.name \in (IF field.location = "query" THEN q.query
                                    ELSE IF field.location = "path" THEN q.path ELSE q.body)

(* Whatever the network and the server make of it, every request comes to  *)
(* its end, and then the data panel of its own form is its answer, over    *)
(* what earlier requests of the form have left there.                      *)
EveryAnswerIsShown ==
    \A r \in 1 .. MaxRequests :
        (r \in Ids /\ requests[r].state # "done")
            ~> (r \in Ids /\ requests[r].state = "done"
                 /\ data[requests[r].form] = r
                 /\ requests[r].form \notin awaiting)
=============================================================================
