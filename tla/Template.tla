------------------------------ MODULE Template ------------------------------
(***************************************************************************)
(* The template that the commands read: SamBaseProvider.get_template hands *)
(* the same Resources to every provider, a dictionary whose order is that  *)
(* of the file. A resource is a record with its logical id and its type,   *)
(* and with the properties of that type that the providers read.           *)
(*                                                                         *)
(* They are the resources that the translator's plugins hand on            *)
(* (SamTranslatorWrapper.run_plugins): what these add or complete, in a    *)
(* library that is not part of the repository, counts as written in the    *)
(* template.                                                               *)
(***************************************************************************)
EXTENDS Naturals, Sequences

VARIABLE resources

\* The elements of that type, in their order.
OfType(elements, type) ==
  LET kept[n \in 0..Len(elements)] ==
        IF n = 0 THEN <<>>
        ELSE IF elements[n].type = type THEN Append(kept[n - 1], elements[n]) ELSE kept[n - 1]
  IN  kept[Len(elements)]

\* SamFunctionProvider, SamBosProvider, SamDuerosProvider and SamHttpProvider
\* look for this type; SamApiProvider for the AWS ones.
FunctionType == "BCE::Serverless::Function"

\* SamFunctionProvider.get_all, in the order of the template.
AllFunctions == OfType(resources, FunctionType)
=============================================================================
