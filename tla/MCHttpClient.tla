---------------------------- MODULE MCHttpClient ----------------------------
(***************************************************************************)
(* HttpClient for TLC: the bodies a server sends with an error, one of     *)
(* each form the parsers tell apart.                                       *)
(***************************************************************************)
EXTENDS HttpClient

Fields(code, class, details, message, title) ==
    [code |-> code, class |-> class, details |-> details,
     message |-> message, title |-> title]

Text(kind) == [kind |-> kind, top |-> NoFields, wrapped |-> None]

Dict(top, wrapped) == [kind |-> "dict", top |-> top, wrapped |-> wrapped]

MCBodies ==
    { Text("empty"), Text("text"), Text("bad"),
      \* {}
      Dict(NoFields, None),
      \* {"error": {"code": "404", "message": "m", "title": "t"}}
      Dict(NoFields, Fields("404", "", "", "m", "t")),
      \* {"error": {"message": "m"}}
      Dict(NoFields, Fields("", "", "", "m", "")),
      \* {"error": "text"}
      Dict(NoFields, NotADict),
      \* {"code": "404", "class": "NotFoundError", "details": "d"}
      Dict(Fields("404", "NotFoundError", "d", "", ""), None),
      \* {"code": "NotFound", "message": "m"}
      Dict(Fields("NotFound", "", "", "m", ""), None),
      \* {"details": "d"}
      Dict(Fields("", "", "d", "", ""), None) }

MCNumberOf == [s \in {"404"} |-> 404]

=============================================================================
