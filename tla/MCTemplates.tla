---------------------------- MODULE MCTemplates -----------------------------
(***************************************************************************)
(* Templates of up to three resources for start-api, two functions of up   *)
(* to two events each for deploy, and one function for invoke.             *)
(***************************************************************************)
EXTENDS Templates, TLC

-----------------------------------------------------------------------------
(* start-api *)

A == <<Text("a")>>
Id == <<Text("a"), Param("id")>>
Rest == <<Text("a"), Proxy("rest")>>
Inner == <<Proxy("rest"), Param("id")>>
Twice == <<Proxy("first"), Proxy("rest")>>

Api(path, method, owner) == [type |-> "Api", path |-> path, method |-> method, restApi |-> owner]
Aws(id, events) == [type |-> "AWS::Serverless::Function", id |-> id, events |-> events]

Proxied(shape, kind, name) ==
  [type |-> "aws_proxy", uri |-> [shape |-> shape, lambda |-> TRUE, target |-> [kind |-> kind, name |-> name]]]
Mock == [type |-> "mock"]
Entry(path, method, integration) == [path |-> path, method |-> method, integration |-> integration]
Media(kind, type) == [kind |-> kind, type |-> type]
Doc(paths, media) == [paths |-> paths, media |-> media]
At(kind, doc) == [kind |-> kind, doc |-> doc]
None == [kind |-> "none"]
Inline(doc) == [kind |-> "inline", doc |-> doc]
Include(location) == [kind |-> "include", location |-> location]
Rests(id, body, uri, media) ==
  [type |-> "AWS::Serverless::Api", id |-> id, body |-> body, uri |-> uri, media |-> media]

AnyDoc == Doc(<<Entry(A, "any-method", Proxied("string", "arn", "X"))>>, {Media("escaped", "image/gif")})
GetDoc ==
  Doc(<<Entry(A, "GET", Proxied("sub", "arn variable", "X")),
        Entry(A, "POST", Proxied("string", "stage variable", "X")),
        Entry(Rest, "POST", Mock)>>, {})
RestDoc ==
  Doc(<<Entry(Rest, "GET", Proxied("sub list", "alias variable", "F")),
        Entry(Inner, "GET", Proxied("sub of no string", "arn variable", "F")),
        Entry(A, "POST", Proxied("string", "arn variable", "F"))>>,
      {Media("plain", "text/css"), Media("no string", "Ref")})

ApiResources ==
  { Aws("F", <<Api(A, "GET", "left out")>>),
    Aws("F", <<Api(Id, "ANY", "X"), [type |-> "Schedule"], Api(A, "GET", "X")>>),
    Aws("G", <<Api(A, "POST", "left out"), Api(A, "ANY", "left out")>>),
    Aws("G", <<Api(A, "GET", "left out"), Api(Inner, "GET", "another dictionary")>>),
    Aws("G", <<Api(Inner, "GET", "Y"), Api(A, "GET", "Y")>>),
    Rests("X", Inline(AnyDoc), None, {Media("plain", "image/png")}),
    Rests("X", Include(At("missing file", NoDoc)), At("local file", GetDoc), {Media("plain", "image/png")}),
    Rests("X", Include(At("s3 uri", AnyDoc)), At("bucket and key", GetDoc), {}),
    Rests("Y", Inline(GetDoc), At("local file", AnyDoc), {Media("plain", "text/css")}),
    Rests("Y", [kind |-> "transform"], At("bucket and key", AnyDoc), {}),
    Rests("Rest", None, At("local file", RestDoc), {Media("escaped", "image/gif")}),
    Rests("Rest", None, None, {Media("plain", "image/gif")}),
    Aws("B", <<Api(Twice, "POST", "X")>>),
    [type |-> "BCE::Serverless::Function", id |-> "B", events |-> <<Api(A, "GET", "left out")>>] }

Distinct(t) == \A i, j \in DOMAIN t : t[i].id = t[j].id => i = j
ApiTemplates ==
  {t \in UNION {[1..n -> ApiResources] : n \in 0..3} : Distinct(t)}

-----------------------------------------------------------------------------
(* deploy *)

Bos(bucket, types) == [type |-> "BOS", bucket |-> bucket, eventTypes |-> types, prefix |-> ""]
Http(path, methods, auth) == [type |-> "HTTP", path |-> path, methods |-> methods, auth |-> auth]
Bce(id, events) == [type |-> "BCE::Serverless::Function", id |-> id, events |-> events]

Events ==
  { Bos("b", {"PutObject", "CopyObject"}), Bos("left out", {"PutObject"}), Bos("b", {"GetObject"}),
    Http("/p", {"GET", "POST"}, "iam"), Http("/p", {"GET"}, "left out"),
    [type |-> "DuerOS"], [type |-> "Schedule"] }

EventLists == UNION {[1..n -> Events] : n \in 0..2}
SourceTemplates ==
  {<<Bce("F", e), Aws("H", <<>>), Bce("G", d)>> : e \in EventLists, d \in EventLists} \cup {<<Aws("H", <<>>)>>}

-----------------------------------------------------------------------------
(* invoke *)

Intrinsic == [kind |-> "intrinsic", text |-> "Ref"]
Boolean == [kind |-> "boolean", text |-> "True"]
FunctionWith(id, timeout, variables) ==
  [type |-> "BCE::Serverless::Function", id |-> id, events |-> <<>>, timeout |-> timeout,
   variables |-> variables]

Variables ==
  { NoVariables, "A" :> String("template") @@ "B" :> Intrinsic,
    "A" :> Boolean @@ "BCE_ACCESS_KEY_ID" :> String("own") }
SetupTemplates ==
  {<<FunctionWith("F", t, v), FunctionWith("G", 0, w)>> : t \in {0, 5}, v \in Variables, w \in Variables}

Shell == "A" :> String("shell") @@ "C" :> String("secret")
EnvFiles ==
  { [n \in {} |-> NoVariables], "Parameters" :> ("A" :> String("all") @@ "C" :> String("all")),
    "F" :> ("A" :> String("F only")) @@ "G" :> ("B" :> Boolean @@ "C" :> String("G only")) }
MCSettings ==
  [shell : {NoVariables, Shell}, file : EnvFiles, keys : {"", "key"}, debugging : BOOLEAN]

MCTemplateChoices ==
  [c \in {"start-api", "deploy", "invoke"} |->
     CASE c = "start-api" -> ApiTemplates [] c = "deploy" -> SourceTemplates [] OTHER -> SetupTemplates]
=============================================================================
