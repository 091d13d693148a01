------------------------------ MODULE Swagger -------------------------------
(***************************************************************************)
(* From the DefinitionBody and DefinitionUri of an API resource to the     *)
(* functions its Swagger document integrates: SamSwaggerReader,            *)
(* SwaggerParser and LambdaUri.                                            *)
(*                                                                         *)
(* A document is [paths, media]: a sequence of [path, method, integration] *)
(* in the order of its dictionaries, and its binary media types. A string  *)
(* is what the regular expressions of LambdaUri tell apart: [shape, lambda,*)
(* target], where `lambda` says that it holds /functions/../invocations    *)
(* and the target is what stands between.                                  *)
(***************************************************************************)
EXTENDS Sequences, SequencesExt

NoDoc == [paths |-> <<>>, media |-> {}]
NoFunction == "no function"

-----------------------------------------------------------------------------
(* SamSwaggerReader *)

\* _parse_s3_location: a dictionary with Bucket and Key, or s3://bucket/key.
InS3(location) == location.kind \in {"bucket and key", "s3 uri"}

\* _download_swagger: what is no string, and a local file that is not there,
\* are no document.
Download(location) ==
  IF InS3(location) \/ location.kind = "local file" THEN location.doc ELSE NoDoc

\* parse_aws_include_transform and _read_from_definition_body: a transform of
\* another name, or without a location, is taken for a document, without paths.
ReadBody(body) ==
  CASE body.kind = "include" -> Download(body.location)
    [] body.kind = "inline"  -> body.doc
    [] OTHER                 -> NoDoc

\* `if not swagger`: there is no body, or its include gave nothing.
BodyGivesNothing(body) == body.kind \in {"none", "include"} /\ ReadBody(body) = NoDoc

\* Mutant: DefinitionUri is read although there is a document in the body.
ReadUriFirst(body, uri) ==
  IF uri.kind # "none" THEN Download(uri) ELSE ReadBody(body)

\* SamSwaggerReader.read: the body first, DefinitionUri if it gave nothing.
Read(body, uri) ==
  IF BodyGivesNothing(body) /\ uri.kind # "none" THEN Download(uri) ELSE ReadBody(body)

\* _download_from_s3 raises the ClientError that S3 answers with.
MayRaise(body, uri) ==
  \/ body.kind = "include" /\ InS3(body.location)
  \/ BodyGivesNothing(body) /\ InS3(uri)

-----------------------------------------------------------------------------
(* LambdaUri *)

\* _is_sub_intrinsic: a dictionary with Fn::Sub as its only key.
IsSub(uri) == uri.shape \in {"sub", "sub list", "sub of no string"}

\* _resolve_fn_sub: ${F.Arn} and ${F.Alias} become an ARN that names F; any
\* other variable stays.
ResolveSub(uri) ==
  IF uri.shape = "sub of no string" THEN uri
  ELSE [uri EXCEPT !.shape = "string",
                   !.target.kind = IF @ \in {"arn variable", "alias variable"} THEN "arn" ELSE @]

\* Mutant: Fn::Sub is not resolved before the regular expressions.
FunctionNameUnresolved(uri) ==
  IF uri.shape # "none" /\ uri.lambda /\ uri.target.kind = "arn"
  THEN uri.target.name ELSE NoFunction

\* get_function_name: the name in an ARN of a function. A stage variable, a
\* variable that no Fn::Sub resolved, and an integration with something that
\* is no Lambda function, give no name.
FunctionName(uri) ==
  LET arn == IF IsSub(uri) THEN ResolveSub(uri) ELSE uri
  IN  IF arn.shape = "string" /\ arn.lambda /\ arn.target.kind = "arn"
      THEN arn.target.name ELSE NoFunction

-----------------------------------------------------------------------------
(* SwaggerParser *)

\* _get_integration_function_name: only aws_proxy is of interest.
Integrated(integration) ==
  IF integration.type = "aws_proxy" THEN FunctionName(integration.uri) ELSE NoFunction

\* get_apis, in the order of the document; x-amazon-apigateway-any-method is ANY.
SwaggerApis(doc) ==
  FlattenSeq([i \in DOMAIN doc.paths |->
    LET entry == doc.paths[i]
        function == Integrated(entry.integration)
    IN  IF function = NoFunction THEN <<>>
        ELSE << [path |-> entry.path, function |-> function,
                 method |-> IF entry.method = "any-method" THEN "ANY" ELSE entry.method] >>])
=============================================================================
