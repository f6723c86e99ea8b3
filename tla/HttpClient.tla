----------------------------- MODULE HttpClient -----------------------------
(***************************************************************************)
(* The HTTP client of pkg/util/httputils: one call from the building of    *)
(* the request to the value handed back to the caller.  A call is one of   *)
(* JSONRequest, JSONRequestUseBufio, JsonClient.Send or Request followed   *)
(* by ParseResponse.  What the server answers (status, body, declared      *)
(* length, a read that fails, no answer at all) is chosen by the model.    *)
(* A server may also never answer, or stop in the middle of a body: the    *)
(* call then ends by a timeout of the client it was made with, one of the  *)
(* clients GetClient builds.                                               *)
(*                                                                         *)
(* A body is told apart by what the parsers look at: whether it is empty,  *)
(* text, broken JSON or a JSON object, and for an object its top-level     *)
(* fields and the value of a single wrapping key.  jsonutils is not part   *)
(* of this package: a numeric text is unmarshalled into an integer, a      *)
(* lookup by key in a value that is not an object finds nothing.           *)
(***************************************************************************)
EXTENDS Integers, FiniteSets

CONSTANTS
    Status,     \* the status codes a response may carry
    Bodies,     \* the bodies a response may carry
    NumberOf,   \* strconv.Atoi: the texts that are numbers, with their value
    Port,       \* the port a URL names
    Timeouts,   \* the timeouts, in seconds, callers ask GetTimeoutClient for
    None,       \* nil
    NotADict,   \* a JSON value that is not an object
    Panic       \* the goroutine panics

ASSUME Timeouts \subseteq Nat

VARIABLES
    pc,         \* "idle", "sent", "responded", "returned", "panicked"
    call,       \* the call in progress
    resp,       \* what client.Do gave: a response, or None with an error
    closed,     \* the body of the response was drained and closed
    result      \* what the caller gets

vars == <<pc, call, resp, closed, result>>

Method   == {"GET", "HEAD", "POST", "PUT", "PATCH", "DELETE", "OPTION"}
Function == {"JSONRequest", "JSONRequestUseBufio", "Send", "ParseResponse"}
Key      == {"code", "class", "details", "message", "title"}
Absent   == ""
Fail     == -1

NoFields  == [k \in Key |-> Absent]
EmptyDict == [kind |-> "dict", top |-> NoFields, wrapped |-> None]

Url == [scheme : {"http", "https", "ftp"}, port : {"none", "number", "other"}]

\* JSONClientError, and the errors made with fmt.Errorf and errors.Wrapf.
ClientError(code, class, details) ==
    [type |-> "json", Code |-> code, Class |-> class, Details |-> details]

OtherError(what) ==
    [type |-> "other", Code |-> 0, Class |-> Absent, Details |-> what]

Returned(header, body, err) == [header |-> header, body |-> body, err |-> err]

\* ErrorCode: 0 for no error, the code of a JSONClientError, -1 otherwise.
ErrorCode(err) ==
    IF err = None THEN 0
    ELSE IF err.type = "json" THEN err.Code ELSE -1

\* ErrorMsg: the details of a JSONClientError, the text of another error.
ErrorMsg(err) ==
    IF err = None THEN Absent ELSE err.Details

\* JSONClientError.Cause.
Cause(err) ==
    IF err.Class # Absent THEN err.Class
    ELSE IF err.Code >= 500 THEN "ErrServer"
    ELSE IF err.Code >= 400 THEN "ErrClient"
    ELSE "ErrUnclassified"

\* GetAddrPort: the port after the first colon of the host, else the port
\* of the scheme.  A host whose text after that colon is no number (an IPv6
\* literal among them) is an error.
GetAddrPort(url) ==
    CASE url.port = "number" -> Port
      [] url.port = "other"  -> Fail
      [] url.port = "none"   -> CASE url.scheme = "http"  -> 80
                                  [] url.scheme = "https" -> 443
                                  [] OTHER                -> Fail

\* Request, lines 395-405: the length the request declares.
ContentLength(fn, method, hasBody) ==
    IF fn = "ParseResponse" /\ ~hasBody
    THEN IF method \notin {"GET", "HEAD"} THEN 0 ELSE None
    ELSE IF fn = "Send" THEN None
    ELSE IF hasBody THEN 1 ELSE 0

IsSuccessUpTo300(status) == status <= 300

IsSuccess(status)  == status < 300
IsRedirect(status) == status >= 300 /\ status < 400

Redirect(status) == ClientError(status, "redirect", "location")

AtoiOrMinusOne(s) == IF s \in DOMAIN NumberOf THEN NumberOf[s] ELSE -1

\* The number a text stands for; 0 when it stands for none.
Atoi(s) == IF s \in DOMAIN NumberOf THEN NumberOf[s] ELSE 0

\* jsonutils.Parse of a body that starts with "{"; nil otherwise.
Parsed(body) == IF body.kind = "dict" THEN body ELSE None

\* body.Unmarshal(ce): the fields code, class and details of the object.
Unmarshal(body) ==
    ClientError(Atoi(body.top.code), body.top.class, body.top.details)

KeyCount(body) ==
    Cardinality({k \in Key : body.top[k] # Absent})
        + (IF body.wrapped = None THEN 0 ELSE 1)

\* jrbody2: the object itself when it has several keys, the value of its
\* key when it has one, nil when it has none.
Unwrapped(body) ==
    CASE KeyCount(body) > 1 -> body.top
      [] KeyCount(body) = 1 -> IF body.wrapped \in {None, NotADict}
                               THEN NoFields ELSE body.wrapped
      [] OTHER              -> None

\* jsonutils.GetAnyString over message, detail, details, error_msg.
AnyDetail(v) == IF v.message # Absent THEN v.message ELSE v.details

CodeKeepingZero(code, status) == code

\* Lines 695-697: an error that names no code takes the status.
CodeOr(code, status) == IF code = 0 THEN status ELSE code

\* ParseJSONResponse, lines 654-705: the error of a status of 400 and more.
\* The methods of jrbody2 are called also when it is nil.
ErrorOf(status, body, jrbody) ==
    IF jrbody = None
    THEN ClientError(status, Absent, IF body.kind = "empty" THEN "status" ELSE "raw")
    ELSE LET ce == Unmarshal(jrbody)
             v  == Unwrapped(jrbody)
         IN  IF ce.Class # Absent /\ ce.Code >= 400 /\ ce.Details # Absent THEN ce
             ELSE IF v = None THEN Panic
             ELSE LET numeric == v.code \in DOMAIN NumberOf
                      code    == IF numeric THEN NumberOf[v.code] ELSE ce.Code
                      class   == IF v.code # Absent /\ ~numeric THEN v.code ELSE ce.Class
                  IN  ClientError(CodeOr(code, status),
                                  IF v.title # Absent THEN v.title ELSE class,
                                  IF AnyDetail(v) # Absent THEN AnyDetail(v) ELSE ce.Details)

\* What follows the reading of the body in ParseJSONResponse and in
\* ParseJSONResponseUseBufio.
JSONOutcome(r, rbody) ==
    LET jrbody == Parsed(rbody)
    IN  CASE IsSuccess(r.status)  -> Returned(TRUE, jrbody, None)
          [] IsRedirect(r.status) -> Returned(FALSE, None, Redirect(r.status))
          [] OTHER -> LET e == ErrorOf(r.status, rbody, jrbody)
                      IN  IF e = Panic THEN Panic ELSE Returned(FALSE, None, e)

TransportError == Returned(FALSE, None, ClientError(499, Absent, "transport"))

ParseJSONResponse(r) ==
    CASE r = None    -> TransportError
      [] r.readFails -> Returned(FALSE, None, OtherError("read"))
      [] OTHER       -> JSONOutcome(r, r.body)

\* bufio.Reader.Read into a slice of length 0 reads nothing and reports no
\* error; resp.ContentLength is -1 when the length is not declared.
BufioRead(r) == [n |-> 0, rbody |-> [kind |-> "empty", top |-> NoFields, wrapped |-> None]]

DeclaredLength(r) ==
    IF r.chunked THEN -1 ELSE IF r.body.kind = "empty" THEN 0 ELSE 1

ParseJSONResponseUseBufio(r) ==
    CASE r = None -> TransportError
      [] r # None /\ BufioRead(r).n # DeclaredLength(r) ->
             Returned(FALSE, None, OtherError("length"))
      [] OTHER -> JSONOutcome(r, BufioRead(r).rbody)

ParseResponse(r) ==
    CASE r = None    -> TransportError
      [] r.readFails -> Returned(FALSE, None, OtherError("read"))
      [] OTHER ->
          CASE IsSuccess(r.status)  -> Returned(TRUE, r.body, None)
            [] IsRedirect(r.status) -> Returned(FALSE, None, Redirect(r.status))
            [] OTHER -> Returned(FALSE, None,
                            ClientError(r.status, Absent,
                                IF r.body.kind = "empty" THEN "status" ELSE "raw"))

\* JSONClientError.ParseErrorFromJsonResponse.
ParseErrorFromJsonResponse(status, body) ==
    LET ce == Unmarshal(body)
    IN  IF body.top.code # Absent /\ body.top.code \notin DOMAIN NumberOf
        THEN OtherError("unmarshal")
        ELSE IF ce.Code # 0 \/ ce.Class # Absent \/ ce.Details # Absent
        THEN ClientError(CodeOr(ce.Code, status), ce.Class, ce.Details)
        ELSE None

\* JsonClient.Send with a JSONClientError as the response.
Send(r) ==
    CASE r = None    -> TransportError
      [] r.readFails -> Returned(TRUE, None, ClientError(r.status, Absent, "read"))
      [] r.body.kind = "bad" ->
             Returned(TRUE, None, ClientError(r.status, Absent, "parse"))
      [] OTHER ->
          LET jrbody == IF r.body.kind = "dict" THEN r.body ELSE EmptyDict
          IN  CASE IsSuccess(r.status)  -> Returned(TRUE, jrbody, None)
                [] IsRedirect(r.status) -> Returned(TRUE, None, Redirect(r.status))
                [] OTHER -> Returned(TRUE, jrbody,
                                ParseErrorFromJsonResponse(r.status, jrbody))

\* What the server answers.  A body that stalls stops coming before its
\* end: the read of it fails if it ends at all.
Response ==
    {r \in [status : Status, body : Bodies, chunked : BOOLEAN,
            readFails : BOOLEAN, stalls : BOOLEAN] : r.stalls => r.readFails}

-----------------------------------------------------------------------------
(* The clients *)

ResponseHeaderTimeout == 30

\* net.Dialer with a Timeout of 10 seconds: the dial is bounded, the reads
\* of the connection are not.
Dialer == [dial |-> 10, deadline |-> FALSE]

\* adptiveDial: a dial of 10 seconds at most, and a connection whose reads
\* and writes carry deadlines of their own (getConnDelegate).
adptiveDial == [dial |-> 10, deadline |-> TRUE]

\* getTransport: every transport waits ResponseHeaderTimeout for the head
\* of the answer.
getTransport(insecure, adaptive) ==
    [insecure |-> insecure, header |-> ResponseHeaderTimeout,
     conn |-> IF adaptive THEN adptiveDial ELSE Dialer]

GetTransport(insecure) == getTransport(insecure, FALSE)

GetClientNeverAdaptive(insecure, timeout) ==
    [transport |-> GetTransport(insecure), timeout |-> timeout]

\* GetClient: a Timeout of zero is no timeout for net/http, and such a
\* client gets the adaptive dial in its place.
GetClient(insecure, timeout) ==
    [transport |-> getTransport(insecure, timeout = 0), timeout |-> timeout]

GetTimeoutClient(timeout) == GetClient(TRUE, timeout)

GetAdaptiveTimeoutClient == GetClient(TRUE, 0)

\* init(): the client of the calls made with a nil client.
defaultHttpClient == GetClient(TRUE, 15)

\* The clients of this package.
Clients ==
    {defaultHttpClient, GetAdaptiveTimeoutClient}
        \cup {GetTimeoutClient(t) : t \in Timeouts}

\* The wait for the head of the answer ends by the Timeout of the client
\* or the ResponseHeaderTimeout of its transport.
HeaderWaitEnds(client) == client.timeout > 0 \/ client.transport.header > 0

\* A read of the body ends by the Timeout of the client or the deadline of
\* its connection.
ReadEnds(client) == client.timeout > 0 \/ client.transport.conn.deadline

-----------------------------------------------------------------------------

Init ==
    /\ pc = "idle"
    /\ call = None
    /\ resp = None
    /\ closed = FALSE
    /\ result = None

\* Request up to client.Do: a nil client is the default one; with a trace
\* in the context the address of the URL is taken first, and the call ends
\* there when that fails.
Request(fn, method, url, hasBody, traced, client) ==
    /\ pc = "idle"
    /\ call' = [fn |-> fn, method |-> method,
                length |-> ContentLength(fn, method, hasBody),
                client |-> IF client = None THEN defaultHttpClient ELSE client]
    /\ pc' = IF traced /\ GetAddrPort(url) = Fail THEN "responded" ELSE "sent"
    /\ UNCHANGED <<resp, closed, result>>

\* client.Do: a response, or an error and no response.
Do ==
    /\ pc = "sent"
    /\ pc' = "responded"
    /\ resp' \in Response \cup {None}
    /\ UNCHANGED <<call, closed, result>>

\* client.Do while no answer comes: the timeout of the head of the answer,
\* or of the whole call, makes it return an error.
HeaderTimeout ==
    /\ pc = "sent"
    /\ HeaderWaitEnds(call.client)
    /\ pc' = "responded"
    /\ resp' = None
    /\ UNCHANGED <<call, closed, result>>

\* The body of the answer has stopped coming.
Stalled == pc = "responded" /\ resp # None /\ resp.stalls

\* ioutil.ReadAll, and the draining of CloseResponse, wait for the rest of
\* a body.
Wait == Stalled /\ UNCHANGED vars

ParsedBy(fn, r) ==
    CASE fn = "JSONRequest"         -> ParseJSONResponse(r)
      [] fn = "JSONRequestUseBufio" -> ParseJSONResponseUseBufio(r)
      [] fn = "Send"                -> Send(r)
      [] fn = "ParseResponse"       -> ParseResponse(r)

\* CloseResponse, deferred by every parser once it has a response.
CloseResponse(r) == r # None

\* The parser of the call, to its return or its panic.  It gets past a body
\* that stalls only when a timeout ends the read.
Parse(fn) ==
    /\ pc = "responded"
    /\ call.fn = fn
    /\ Stalled => ReadEnds(call.client)
    /\ result' = ParsedBy(fn, resp)
    /\ pc' = IF result' = Panic THEN "panicked" ELSE "returned"
    /\ closed' = CloseResponse(resp)
    /\ UNCHANGED <<call, resp>>

\* The caller goes on; the client keeps nothing of a call.
Forget ==
    /\ pc \in {"returned", "panicked"}
    /\ pc' = "idle"
    /\ call' = None
    /\ resp' = None
    /\ closed' = FALSE
    /\ result' = None

Arriving(S) == IF pc = "idle" THEN S ELSE {}

Next ==
    \/ \E fn \in Arriving(Function), method \in Method, url \in Url,
          hasBody, traced \in BOOLEAN, client \in Clients \cup {None} :
            Request(fn, method, url, hasBody, traced, client)
    \/ Do
    \/ HeaderTimeout
    \/ Wait
    \/ \E fn \in Function : Parse(fn)
    \/ Forget

\* The timers of the client run, and the goroutine of the caller goes on;
\* the server owes no answer.
Fairness ==
    /\ WF_vars(HeaderTimeout)
    /\ WF_vars(\E fn \in Function : Parse(fn))

Spec == Init /\ [][Next]_vars /\ Fairness

----------------------------------------------------------------------------

Body == [kind : {"empty", "text", "bad", "dict"}, top : [Key -> STRING],
         wrapped : {None, NotADict} \cup [Key -> STRING]]

Errors == [type : {"json", "other"}, Code : Nat, Class : STRING, Details : STRING]

TypeOK ==
    /\ pc \in {"idle", "sent", "responded", "returned", "panicked"}
    /\ call \in {None} \cup [fn : Function, method : Method, length : {None, 0, 1},
                           client : Clients]
    /\ resp \in {None} \cup Response
    /\ Bodies \subseteq Body
    /\ closed \in BOOLEAN
    /\ result \in {None, Panic}
                  \cup [header : BOOLEAN, body : {None} \cup Body, err : {None} \cup Errors]

Succeeded(r) == r # None /\ ~r.readFails /\ r.status < 300

\* A call of JSONRequest or of Request with ParseResponse returns without
\* error exactly when the server answered, the body was read and the
\* status is below 300: ParseJSONResponse and ParseResponse hide no failure
\* of the transport, of the read or of the status, and report none that
\* did not happen.
ErrorIffNotSuccess ==
    pc = "returned" /\ call.fn \in {"JSONRequest", "ParseResponse"}
        => (result.err = None <=> Succeeded(resp))

\* ErrorCode is 0 only for no error: whatever the body of a failed
\* response says, the error of every parser carries a code, so that a
\* caller who tests ErrorCode(err) never takes a failure for a success.
ErrorCodeTellsFailure ==
    pc = "returned" => (ErrorCode(result.err) = 0 <=> result.err = None)

\* Every call made with a client of this package comes back to its caller,
\* also when the server never answers or stops in the middle of the body:
\* a client without a Timeout has the deadlines of the adaptive dial in its
\* place, and every transport has a timeout for the head of the answer
\* (GetClient and getTransport; Request, the parsers and CloseResponse wait
\* on the connection).
CallReturns == (pc = "sent") ~> (pc \in {"returned", "panicked"})

\* No response makes a parser panic: ParseJSONResponse returns an error
\* for every status of 400 and more, whatever the body.
ParserReturns == pc # "panicked"

=============================================================================
