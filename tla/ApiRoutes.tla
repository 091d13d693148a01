----------------------------- MODULE ApiRoutes ------------------------------
(***************************************************************************)
(* From a template to the routes of start-api: SamApiProvider collects the *)
(* APIs of functions and API resources by resource, merges and normalises  *)
(* them, and LocalApigwService mounts the result. set() in _merge_apis     *)
(* gives them in no particular order.                                      *)
(*                                                                         *)
(* A method is upper case; the conversion has no other effect.             *)
(***************************************************************************)
EXTENDS Swagger, FiniteSets, Template

CONSTANTS
  Methods,      \* _ANY_HTTP_METHODS
  ImplicitApi   \* _IMPLICIT_API_RESOURCE_ID, "ServerlessRestApi"

VARIABLES
  pc,         \* "collect", "mount", "serving", "no apis", "raised" or "malformed"
  at,         \* the resource _extract_apis is at
  collector,  \* ApiCollector.by_resource: [id, apis, media], in order of insertion
  apis,       \* the APIs of the merged set not yet mounted
  routes      \* _dict_of_routes: [key, api], a key being <<flask path, method>>

routeVars == <<pc, at, collector, apis, routes>>

-----------------------------------------------------------------------------
(* PathConverter: a path is a sequence of segments [kind, name] *)

Text(name) == [kind |-> "text", name |-> name]
Param(name) == [kind |-> "param", name |-> name]    \* {name} or <name>
Proxy(name) == [kind |-> "proxy", name |-> name]    \* {name+}
Path(name) == [kind |-> "path", name |-> name]      \* <path:name>
Plus(name) == [kind |-> "plus", name |-> name]      \* <name+>, no route of Flask's

Bracketed(kind) == kind # "text"

\* A rule that add_url_rule does not take.
Malformed(path) == \E i \in DOMAIN path : path[i].kind = "plus"
Proxies(path) == {i \in DOMAIN path : path[i].kind = "proxy"}

\* Mutant: {proxy+} is taken for a parameter like any other.
ToFlaskPlain(path) ==
  [i \in DOMAIN path |->
     IF path[i].kind = "proxy" THEN Param(path[i].name) ELSE path[i]]

\* convert_path_to_flask: (.*/){(.*)\+} is greedy, so only the last {proxy+}
\* becomes <path:proxy>.
ToFlask(path) ==
  [i \in DOMAIN path |->
     IF path[i].kind # "proxy" THEN path[i]
     ELSE IF i = Max(Proxies(path)) THEN Path(path[i].name) ELSE Plus(path[i].name)]

\* convert_path_to_api_gateway: /<path:(.*)> runs to the last > of the path, and
\* the plus lands there.
ToApiGateway(path) ==
  LET paths == {i \in DOMAIN path : path[i].kind = "path"}
      end == Max({i \in DOMAIN path : Bracketed(path[i].kind)})
  IN  IF paths = {} THEN path
      ELSE [i \in DOMAIN path |->
              IF i = Min(paths) THEN IF i = end THEN Proxy(path[i].name) ELSE Param(path[i].name)
              ELSE IF i = end THEN Proxy(path[i].name) ELSE path[i]]

-----------------------------------------------------------------------------
(* ApiCollector *)

\* _normalize_binary_media_type: image~1gif is image/gif; what is no string is
\* skipped.
Canonical(media) == {value.type : value \in {v \in media : v.kind # "no string"}}

\* Mutant: only the first API resource of an id gives media types.
AddKeepsMedia(c, id, found, media) ==
  IF \E i \in DOMAIN c : c[i].id = id
  THEN [i \in DOMAIN c |-> IF c[i].id = id THEN [c[i] EXCEPT !.apis = @ \o found] ELSE c[i]]
  ELSE Append(c, [id |-> id, apis |-> found, media |-> Canonical(media)])

\* _get_properties, add_apis and add_binary_media_types.
Add(c, id, found, media) ==
  IF \E i \in DOMAIN c : c[i].id = id
  THEN [i \in DOMAIN c |->
          IF c[i].id = id
          THEN [id |-> id, apis |-> c[i].apis \o found, media |-> c[i].media \cup Canonical(media)]
          ELSE c[i]]
  ELSE Append(c, [id |-> id, apis |-> found, media |-> Canonical(media)])

\* __iter__ and _get_apis_with_config: each API with the media of its resource.
Configured(entry) ==
  [i \in DOMAIN entry.apis |->
     [path |-> entry.apis[i].path, method |-> entry.apis[i].method,
      function |-> entry.apis[i].function, media |-> entry.media]]

-----------------------------------------------------------------------------
(* SamApiProvider *)

NoOwner == "InvalidSamDocumentException"

\* _convert_event_api: the resource that owns the API of an event; RestApiId is
\* left out, a string, {"Ref": ..}, or another dictionary.
Owner(event) ==
  CASE event.restApi = "left out" -> ImplicitApi
    [] event.restApi = "another dictionary" -> NoOwner
    [] OTHER -> event.restApi

ApiEvents(resource) == OfType(resource.events, "Api")

AddEvent(id, c, event) ==
  Add(c, Owner(event), <<[path |-> event.path, method |-> event.method, function |-> id]>>, {})

\* _extract_apis_from_events: the collector after the events of a function.
AddEvents(id, c, events) ==
  LET after[n \in 0..Len(events)] ==
        IF n = 0 THEN c ELSE AddEvent(id, after[n - 1], events[n])
  IN  after[Len(events)]

RouteInit ==
  /\ pc = "collect" /\ at = 1
  /\ collector = <<>> /\ apis = {} /\ routes = {}

\* _extract_apis: one round of its loop.
CollectFunction ==
  LET r == resources[at] IN
  /\ pc = "collect" /\ at <= Len(resources)
  /\ r.type = "AWS::Serverless::Function"
  /\ IF \E i \in DOMAIN ApiEvents(r) : Owner(ApiEvents(r)[i]) = NoOwner
     THEN pc' = "raised" /\ UNCHANGED <<at, collector>>
     ELSE /\ collector' = AddEvents(r.id, collector, ApiEvents(r))
          /\ at' = at + 1
          /\ UNCHANGED pc
  /\ UNCHANGED <<resources, apis, routes>>

\* _extract_from_serverless_api.
CollectApi ==
  LET r == resources[at] IN
  /\ pc = "collect" /\ at <= Len(resources)
  /\ r.type = "AWS::Serverless::Api"
  /\ \/ /\ r.body.kind = "none" /\ r.uri.kind = "none"
        /\ at' = at + 1
        /\ UNCHANGED <<pc, collector>>
     \/ /\ r.body.kind # "none" \/ r.uri.kind # "none"
        /\ LET doc == Read(r.body, r.uri) IN
             collector' = Add(collector, r.id, SwaggerApis(doc), doc.media \cup r.media)
        /\ at' = at + 1
        /\ UNCHANGED pc
     \/ /\ MayRaise(r.body, r.uri)
        /\ pc' = "raised"
        /\ UNCHANGED <<at, collector>>
  /\ UNCHANGED <<resources, apis, routes>>

\* Other resources, BCE::Serverless::Function among them, have no APIs.
CollectNothing ==
  /\ pc = "collect" /\ at <= Len(resources)
  /\ resources[at].type \notin {"AWS::Serverless::Function", "AWS::Serverless::Api"}
  /\ at' = at + 1
  /\ UNCHANGED <<resources, pc, collector, apis, routes>>

\* _normalize_http_methods.
Normalized(method) == IF method = "ANY" THEN Methods ELSE {method}

Owners == {collector[i].id : i \in DOMAIN collector}

\* The APIs of these resources, in the order of the collector.
Configs(owners) ==
  FlattenSeq([i \in DOMAIN collector |->
                IF collector[i].id \in owners THEN Configured(collector[i]) ELSE <<>>])

\* Mutant: the implicit APIs are merged first.
AllConfigsImplicitFirst ==
  Configs({ImplicitApi}) \o Configs(Owners \ {ImplicitApi})

\* _merge_apis: explicit APIs first, so that implicit ones overwrite them.
AllConfigs ==
  Configs(Owners \ {ImplicitApi}) \o Configs({ImplicitApi})

\* The config whose turn comes last for a path and method.
Overwrites(i, j) ==
  /\ AllConfigs[i].path = AllConfigs[j].path
  /\ j > i

\* The values of all_apis: what is overwritten for all of its methods is out.
Merged ==
  {AllConfigs[i] : i \in
     {k \in DOMAIN AllConfigs :
        \E m \in Normalized(AllConfigs[k].method) :
          \A j \in DOMAIN AllConfigs :
            Overwrites(k, j) => m \notin Normalized(AllConfigs[j].method)}}

\* NoApisDefined is raised if there is nothing to mount.
Merge ==
  /\ pc = "collect" /\ at > Len(resources)
  /\ apis' = Merged
  /\ pc' = IF Merged = {} THEN "no apis" ELSE "mount"
  /\ UNCHANGED <<resources, at, collector, routes>>

\* Mutant: a route stands beside an earlier one for its path and method.
MountBeside ==
  /\ pc = "mount" /\ apis # {}
  /\ \E api \in apis :
       /\ routes' = routes \cup
            {[key |-> <<ToFlask(api.path), m>>, api |-> api] : m \in Normalized(api.method)}
       /\ apis' = apis \ {api}
  /\ UNCHANGED <<resources, pc, at, collector>>

\* _normalize_apis, _make_routing_list and LocalApigwService.create: a route
\* takes the place of an earlier one for its path and method, and Flask raises
\* for a rule it does not understand.
Mount ==
  /\ pc = "mount" /\ apis # {}
  /\ \E api \in apis :
       LET keys == {<<ToFlask(api.path), m>> : m \in Normalized(api.method)} IN
       /\ routes' = {r \in routes : r.key \notin keys} \cup {[key |-> k, api |-> api] : k \in keys}
       /\ apis' = apis \ {api}
       /\ pc' = IF Malformed(ToFlask(api.path)) THEN "malformed" ELSE "mount"
  /\ UNCHANGED <<resources, at, collector>>

Serve ==
  /\ pc = "mount" /\ apis = {}
  /\ pc' = "serving"
  /\ UNCHANGED <<resources, at, collector, apis, routes>>

RouteNext ==
  CollectFunction \/ CollectApi \/ CollectNothing \/ Merge \/ Mount \/ Serve
=============================================================================
