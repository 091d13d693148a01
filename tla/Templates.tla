----------------------------- MODULE Templates ------------------------------
(***************************************************************************)
(* One template, and what each command makes of it: start-api its routes,  *)
(* deploy its triggers, invoke the configuration of a function.            *)
(***************************************************************************)
EXTENDS ApiRoutes, EventSources, FunctionSetup

CONSTANTS
  TemplateChoices,  \* the templates of the instance, by command
  SettingChoices    \* the settings outside of the template

VARIABLE command

vars == <<command, resources, routeVars, sourceVars, setupVars>>

Commands == {"start-api", "deploy", "invoke"}

\* A path is written the way API Gateway has it.
TemplatePaths == Seq([kind : {"text", "param", "proxy"}, name : STRING])
MediaTypes == [kind : {"plain", "escaped", "no string"}, type : STRING]
IsList(s) == s \in Seq(ToSet(s))

\* Resources, events and the paths of a document come in lists, and what the
\* shell has are strings.
ASSUME TemplatesAssumption ==
  /\ "ANY" \notin Methods
  /\ \A c \in Commands : \A t \in TemplateChoices[c] :
       /\ IsList(t)
       /\ \A i \in DOMAIN t :
            /\ t[i].type \in {FunctionType, "AWS::Serverless::Function"} => IsList(t[i].events)
            /\ t[i].type = "AWS::Serverless::Function" =>
                 \A j \in DOMAIN t[i].events : t[i].events[j].type = "Api" => t[i].events[j].path \in TemplatePaths
            /\ t[i].type = "AWS::Serverless::Api" =>
                 /\ t[i].media \subseteq MediaTypes
                 /\ t[i].body.kind # "none" \/ t[i].uri.kind # "none" =>
                      LET doc == Read(t[i].body, t[i].uri) IN
                      /\ doc.media \subseteq MediaTypes /\ IsList(doc.paths)
                      /\ \A k \in DOMAIN doc.paths : doc.paths[k].path \in TemplatePaths
  /\ \A s \in SettingChoices : \A n \in DOMAIN s.shell : s.shell[n].kind = "text"

Init ==
  /\ command \in Commands
  /\ resources \in TemplateChoices[command]
  /\ setting \in IF command = "invoke" THEN SettingChoices ELSE {CHOOSE s \in SettingChoices : TRUE}
  /\ RouteInit /\ SourceInit /\ SetupInit

StartApi ==
  /\ command = "start-api" /\ RouteNext
  /\ UNCHANGED <<command, sourceVars, setupVars>>

Deploy ==
  /\ command = "deploy" /\ SourceNext
  /\ UNCHANGED <<command, routeVars, setupVars>>

Invoke ==
  /\ command = "invoke" /\ runs = <<>>
  /\ \E i \in DOMAIN AllFunctions : SetUp(AllFunctions[i].id)
  /\ UNCHANGED <<command, routeVars, sourceVars>>

Next == StartApi \/ Deploy \/ Invoke

Spec == Init /\ [][Next]_vars

-----------------------------------------------------------------------------
(* What the template says, resource by resource, without the order in which *)
(* the provider goes about it.                                              *)

ResourcesOf(type) == {r \in ToSet(resources) : r.type = type}
EventApis(r) == {e \in ToSet(r.events) : e.type = "Api"}
DocOf(r) == Read(r.body, r.uri)
HasDoc(r) == r.body.kind # "none" \/ r.uri.kind # "none"

\* The media types said of an API resource beside its document and in it.
MediaOf(id) ==
  UNION {Canonical(r.media \cup (IF HasDoc(r) THEN DocOf(r).media ELSE {})) :
           r \in {x \in ResourcesOf("AWS::Serverless::Api") : x.id = id}}
WithoutDoc(id) ==
  \E r \in ResourcesOf("AWS::Serverless::Api") : r.id = id /\ ~HasDoc(r)

\* Who declares an API for this path and method, for which function.
Claims ==
  (UNION {{[path |-> e.path, method |-> e.method, function |-> r.id, owner |-> Owner(e)] :
             e \in EventApis(r)} : r \in ResourcesOf("AWS::Serverless::Function")})
    \cup
  (UNION {{[path |-> a.path, method |-> a.method, function |-> a.function, owner |-> r.id] :
             a \in ToSet(SwaggerApis(DocOf(r)))} :
           r \in {x \in ResourcesOf("AWS::Serverless::Api") : HasDoc(x)}})

ClaimsFor(key) == {c \in Claims : ToFlask(c.path) = key[1] /\ key[2] \in Normalized(c.method)}
Implicit(claims) == {c \in claims : c.owner = ImplicitApi}

-----------------------------------------------------------------------------
\* Every variable is of its type.
TypeOK ==
  /\ pc \in {"collect", "mount", "serving", "no apis", "raised", "malformed"}
  /\ at \in 1..Len(resources) + 1
  /\ \A r \in routes : r.key[2] # "ANY" /\ r.api.media \subseteq STRING
  /\ \A r, s \in routes : r.key = s.key => r = s
  /\ dpc \in {"enter", "functions", "triggers", "done", "user error", "traceback"}
  /\ provider \in DOMAIN Providers /\ function \in 1..Len(AllFunctions) + 1 /\ event \in Nat
  /\ Len(runs) <= 1

\* start-api mounts exactly the paths and methods that the template declares,
\* each for a function declared for it, and with no media types but those of the
\* resource that owns it, wherever in the template that resource stands. It has
\* all of them unless that resource is without a document: then the code
\* (sam_api_provider.py:131) skips the resource, BinaryMediaTypes included,
\* although the comment at line 84 takes such resources to be where the
\* properties of APIs are set.
RoutesAsDeclared ==
  pc = "serving" =>
    /\ {r.key : r \in routes} = UNION {{<<ToFlask(c.path), m>> : m \in Normalized(c.method)} : c \in Claims}
    /\ \A r \in routes : \E c \in ClaimsFor(r.key) :
         /\ c.function = r.api.function
         /\ r.api.media \subseteq MediaOf(c.owner)
         /\ r.api.media = MediaOf(c.owner) \/ WithoutDoc(c.owner)

\* The implicit API of a function wins over an explicit one for its path and
\* method (the docstring of _merge_apis), unless an explicit ANY of that path is
\* kept for another method: it is mounted for all of its methods then, before
\* or after the implicit API.
ImplicitWins ==
  pc = "serving" =>
    \A r \in routes :
      LET claims == ClaimsFor(r.key) IN
      Implicit(claims) # {} /\ (\A c \in claims \ Implicit(claims) : c.method # "ANY") =>
        \E c \in Implicit(claims) : c.function = r.api.function

\* The resource path in the event of a request is the path of the template, if
\* {proxy+} is where API Gateway allows it, at the end of a path.
PathsRoundTrip ==
  \A r \in routes :
    Proxies(r.api.path) \subseteq {Len(r.api.path)} => ToApiGateway(r.key[1]) = r.api.path

\* Nothing is sent to the service before every event of every function was
\* found valid (DeployContext.__enter__ builds all the providers).
ValidBeforeSent ==
  dpc \in {"functions", "triggers", "done"} =>
    \A f \in DOMAIN AllFunctions :
      /\ \A e \in ToSet(AllFunctions[f].events) : ~Invalid(e)
      /\ Len(EventsOf(AllFunctions[f], "DuerOS")) <= 1

\* The triggers like this one that were created for a function, and the events
\* of the function that ask for one.
CreatedFor(f, trigger) ==
  {i \in DOMAIN created : created[i].function = f /\ created[i].trigger = trigger}
Sources(f) == {i \in DOMAIN AllFunctions[f].events : AllFunctions[f].events[i].type \in ToSet(Providers)}
AskedFor(f, trigger) == {i \in Sources(f) : Trigger(AllFunctions[f].events[i]) = trigger}

\* A function whose triggers were created has one for each of its events, of
\* its own and no other function's, by the source of the event.
TriggersAsDeclared ==
  dpc = "done" =>
    \A f \in {c.function : c \in ToSet(created)} :
      /\ f \in DOMAIN AllFunctions
      /\ \A trigger \in {c.trigger : c \in ToSet(created)}
                         \cup {Trigger(AllFunctions[f].events[i]) : i \in Sources(f)} :
           Cardinality(CreatedFor(f, trigger)) = Cardinality(AskedFor(f, trigger))

\* A function's environment has the variables of its template and the BCE ones
\* and nothing else of the user's shell or of other functions' overrides, the
\* most specific value of each, and the timeout that its timer gets, also when
\* the template leaves it out or a debugger raises it.
EnvironmentAsDeclared ==
  \A i \in DOMAIN runs :
    LET f == CHOOSE g \in ToSet(AllFunctions) : g.id = runs[i].name
        own == IF "Parameters" \in DOMAIN setting.file THEN "Parameters" ELSE f.id
        env == runs[i].env
    IN  /\ DOMAIN env = DOMAIN f.variables \cup BceNames
        /\ \A n \in DOMAIN f.variables :
             LET inFile == own \in DOMAIN setting.file /\ n \in DOMAIN setting.file[own] IN
             /\ inFile => env[n] = Stringify(setting.file[own][n])
             /\ ~inFile /\ n \in DOMAIN setting.shell => env[n] = setting.shell[n]
        /\ "_TIMEOUT" \notin DOMAIN f.variables => env["_TIMEOUT"] = String(runs[i].timeout)
=============================================================================
