---------------------------- MODULE EventSources ----------------------------
(***************************************************************************)
(* From the events of a template to triggers at the service: DeployContext *)
(* builds its three event source providers, and `deploy` has each of them  *)
(* create the triggers of every function that it creates.                  *)
(***************************************************************************)
EXTENDS Template, FiniteSets, SequencesExt

VARIABLES
  dpc,       \* "enter", "functions", "triggers", "done", "user error" or "traceback"
  provider,  \* the provider being built or deploying, an index of Providers
  extracted, \* bos_events, dueros_events and http_events: the triggers of each function
  function,  \* the function being deployed, an index of AllFunctions
  event,     \* the event of `for event in ..._events`
  created    \* create_trigger's calls in order: [function, source, data]

sourceVars == <<dpc, provider, extracted, function, event, created>>

Providers == <<"BOS", "DuerOS", "HTTP">>
BosEventTypes == {"PutObject", "PostObject", "AppendObject", "CopyObject", "CompleteMultipartUpload"}
HttpMethods == {"GET", "HEAD", "POST", "PUT", "DELETE", "OPTIONS", "PATCH"}
AuthTypes == {"iam", "anonymous"}
Left == "left out"   \* the event has no such property

\* What the template says under Events of a function, by type.
EventsOf(resource, type) == OfType(resource.events, type)

\* _convert_event_bos and _convert_event_http raise InvalidSamDocumentException.
Invalid(e) ==
  \/ /\ e.type = "BOS"
     /\ \/ Left \in {e.bucket} \cup e.eventTypes
        \/ ~(e.eventTypes \subseteq BosEventTypes)
  \/ /\ e.type = "HTTP"
     /\ \/ Left \in {e.path} \cup e.methods
        \/ ~(e.methods \subseteq HttpMethods)
        \/ e.auth \notin AuthTypes

\* The trigger of an event: its source and the data of deploy.
Trigger(e) ==
  CASE e.type = "BOS" ->
         [source |-> <<"bos", e.bucket>>, data |-> <<e.eventTypes, e.prefix>>]
    [] e.type = "HTTP" ->
         [source |-> <<"cfc-http-trigger/v1/CFCAPI">>, data |-> <<e.path, e.methods, e.auth>>]
    [] e.type = "DuerOS" -> [source |-> <<"dueros">>, data |-> <<>>]

SourceInit ==
  /\ dpc = "enter" /\ provider = 1
  /\ extracted = [p \in ToSet(Providers) |-> <<>>]
  /\ function = 1 /\ event = 1
  /\ created = <<>>

\* Mutant: an invalid event is left out.
ExtractSkips(type) ==
  [f \in DOMAIN AllFunctions |->
     LET events == SelectSeq(EventsOf(AllFunctions[f], type), LAMBDA e : ~Invalid(e))
     IN  [i \in DOMAIN events |-> Trigger(events[i])]]

\* _extract_bos, _extract_dueros and _extract_http.
Extract(type) ==
  [f \in DOMAIN AllFunctions |->
     [i \in DOMAIN EventsOf(AllFunctions[f], type) |-> Trigger(EventsOf(AllFunctions[f], type)[i])]]

\* Mutant: events are not validated.
VerdictNone(type) == "valid"

\* What building a provider comes to: a second DuerOS event raises ValueError,
\* which execute_deploy_command does not turn into a UserException.
Verdict(type) ==
  IF \E f \in DOMAIN AllFunctions : \E e \in ToSet(EventsOf(AllFunctions[f], type)) : Invalid(e)
  THEN "user error"
  ELSE IF type = "DuerOS" /\ \E f \in DOMAIN AllFunctions : Len(EventsOf(AllFunctions[f], type)) > 1
       THEN "traceback" ELSE "valid"

\* DeployContext.__enter__, one provider; all_functions raises FunctionNotFound.
Enter ==
  LET type == Providers[provider] IN
  /\ dpc = "enter"
  /\ IF Verdict(type) # "valid"
     THEN dpc' = Verdict(type) /\ UNCHANGED <<provider, extracted>>
     ELSE /\ extracted' = [extracted EXCEPT ![type] = Extract(type)]
          /\ provider' = IF provider < Len(Providers) THEN provider + 1 ELSE 1
          /\ dpc' = IF provider < Len(Providers) THEN "enter"
                    ELSE IF AllFunctions = <<>> THEN "user error" ELSE "functions"
  /\ UNCHANGED <<resources, function, event, created>>

\* do_deploy: a function that exists is updated, and gets no triggers.
DeployFunction ==
  /\ dpc = "functions"
  /\ IF function > Len(AllFunctions)
     THEN dpc' = "done" /\ UNCHANGED function
     ELSE \/ dpc' = "triggers" /\ UNCHANGED function
          \/ function' = function + 1 /\ UNCHANGED dpc
  /\ UNCHANGED <<resources, provider, extracted, event, created>>

\* Mutant: a provider goes through the events of the first function it knows.
PendingOfFirst == extracted[Providers[provider]][1]

\* self.get(func_config.FunctionName).
Pending == extracted[Providers[provider]][function]

\* deploy of a provider: one create_trigger for each event; a failure, of
\* whatever kind, is logged and the next one follows.
CreateTrigger ==
  /\ dpc = "triggers" /\ event <= Len(Pending)
  /\ created' = Append(created, [function |-> function, trigger |-> Pending[event]])
  /\ event' = event + 1
  /\ UNCHANGED <<resources, dpc, provider, extracted, function>>

\* DeployContext.deploy: the next provider, after the last one the next function.
NextProvider ==
  /\ dpc = "triggers" /\ event > Len(Pending)
  /\ event' = 1
  /\ IF provider < Len(Providers)
     THEN provider' = provider + 1 /\ UNCHANGED <<dpc, function>>
     ELSE provider' = 1 /\ dpc' = "functions" /\ function' = function + 1
  /\ UNCHANGED <<resources, extracted, created>>

SourceNext == Enter \/ DeployFunction \/ CreateTrigger \/ NextProvider
=============================================================================
