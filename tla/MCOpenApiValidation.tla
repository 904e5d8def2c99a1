-------------------------- MODULE MCOpenApiValidation --------------------------
EXTENDS OpenApiValidation, TLC

Text(t) == [parameter |-> FALSE, text |-> t]
Param(t) == [parameter |-> TRUE, text |-> t]
Inline(values) == [ref |-> None, accepts |-> values]
Ref(name) == [ref |-> name, accepts |-> {}]

NoParameters == [p \in {} |-> None]
Page == [p \in {"page"} |-> "one"]

(* Bodies: alice and alex begin alike; the JSON text of a body is its own. *)
Alice == "alice"
Alex == "alex"
Failure == "failure"
MCSerialized == [b \in {Alice, Alex, Failure, None} |->
                    IF b = None THEN None ELSE IF b = Failure THEN "failure text" ELSE "al text"]
MCHash == [b \in {Alice, Alex, Failure, None, "al text", "failure text"} |->
              CASE b \in {Alice, Alex} -> "al" [] b = None -> "" [] OTHER -> b]

MCSegments == [p \in {"/users", "/users/", "/users/me", "/users/7"} |->
                  CASE p \in {"/users", "/users/"} -> <<"users">>
                    [] p = "/users/me" -> <<"users", "me">>
                    [] OTHER -> <<"users", "7">>]

Operation(method, pattern, query, body, ok) ==
    [method |-> method, pattern |-> pattern, query |-> query, headers |-> {}, body |-> body,
     responses |-> [s \in {"200", "default"} |->
                       [headers |-> {}, body |-> IF s = "200" THEN ok ELSE Inline({Failure})]],
     faulty |-> {}]
EmptyItem(pattern) == Operation(None, pattern, {}, None, None)

PageParameter(required) ==
    {[name |-> "page", required |-> required, schema |-> Inline({"one"})]}

(* The literal path comes after the pattern that matches it.               *)
Original == [parses |-> TRUE, valid |-> TRUE, schemas |-> [n \in {"User"} |-> {Alice}],
           operations |-> <<Operation("POST", <<Text("users")>>, {}, Ref("User"), None),
                            Operation("GET", <<Text("users"), Param("{id}")>>,
                                      PageParameter(TRUE), None, Ref("User")),
                            Operation("GET", <<Text("users"), Text("me")>>,
                                      PageParameter(FALSE), None, Inline({Alice, Alex}))>>]
(* A schema changes, and a parameter becomes optional.                     *)
Changed == [parses |-> TRUE, valid |-> TRUE,
            schemas |-> [n \in {"User", "Other"} |-> {Alex}],
            operations |-> <<Operation("POST", <<Text("users")>>, {}, Ref("Other"), None),
                             Operation("GET", <<Text("users"), Param("{id}")>>,
                                       PageParameter(FALSE), None, Ref("User"))>>]
(* The version is not supported, the path with the parameter has lost its  *)
(* operations, and the parameters of the literal path are no list.         *)
Invalid == [Changed EXCEPT !.valid = FALSE,
              !.operations = <<EmptyItem(<<Text("users"), Param("{id}")>>),
                               [Original.operations[3] EXCEPT !.faulty = {"request"}]>>]
Unreadable == [parses |-> FALSE, valid |-> FALSE]
MCFile == {Original, Changed, Invalid, Unreadable}

Get(path, query) ==
    [method |-> "GET", path |-> path, query |-> query, headers |-> NoParameters, body |-> None]
Post(path, body) ==
    [method |-> "POST", path |-> path, query |-> NoParameters, headers |-> NoParameters, body |-> body]
MCRequest == {Get("/users/7", NoParameters), Get("/users/7", Page), Get("/users/me", NoParameters),
              Post("/users", Alice), Post("/users/", Alex), Post("/users", Alex)}

Answer(status, body, json) ==
    [status |-> status, headers |-> NoParameters, body |-> body, json |-> json]
MCResponse == {Answer("200", Alice, TRUE), Answer("200", Alex, TRUE), Answer("204", None, FALSE)}
MCRejection == Answer("400", Failure, TRUE)

=============================================================================
