----------------------------- MODULE Arguments -----------------------------
(***************************************************************************)
(* request_parser.py and the argument half of executor.py: how the fields  *)
(* of one request, the endpoint's defaults and its URL become the argument *)
(* vector of the command, and what the response template later sees of     *)
(* them under request.<name>.                                              *)
(*                                                                         *)
(* What the YAML declares for a name, and what a client sends under it,    *)
(* are drawn from small sets; a value keeps where it came from.            *)
(***************************************************************************)
EXTENDS Integers

CONSTANT Names   \* the field names the endpoint or a client mentions

VARIABLES endpoint,    \* the endpoint's configuration
          request,     \* what the client sent
          phase,       \* "received", "parsed", "built", "rendered", or the
                       \* status of a refusal: "400", "500"
          flag_values, \* ToolRequest.flag_values
          overrides,   \* ToolRequest.overrides
          argv,        \* the command's arguments, by the name they come from
          bag          \* what the response template finds under request

vars == <<endpoint, request, phase, flag_values, overrides, argv, bag>>

(* What a text is to the check declared for its name: accepted, accepted   *)
(* in another form than it is passed on in (a number spelled otherwise;    *)
(* for a bool, one of the words for false), or refused.                    *)
Texts == {"usual", "other", "wrong"}

Sources == {"default", "query", "body", "overrides", "url", "file"}

Value(from, text) == [from |-> from, text |-> text]

Partial(S, T) == UNION {[D -> T] : D \in SUBSET S}

From(source, texts) == [n \in DOMAIN texts |-> Value(source, texts[n])]

Nothing == From("default", [n \in {} |-> "usual"])

(* {**weak, **strong}                                                      *)
Over(strong, weak) ==
  [n \in DOMAIN strong \cup DOMAIN weak |-> IF n \in DOMAIN strong THEN strong[n] ELSE weak[n]]

Endpoints ==
  [defaults  : Partial(Names, Texts),
   allowed   : SUBSET Names,   \* request.allowed_overrides, as merged
   validated : SUBSET Names,   \* the keys of request.validations
   flags     : SUBSET Names,
   switches  : SUBSET Names,   \* the flags of type bool
   args      : SUBSET Names,   \* the placeholders of command.args
   unnamed   : BOOLEAN,        \* is there another one, {} or {a.b}, on which
                               \* str.format raises no KeyError?
   params    : SUBSET Names,   \* the {name} segments of the route
   uploads   : SUBSET Names,   \* the placeholders of uploads
   outputs   : SUBSET Names,   \* and of output_files
   extra     : BOOLEAN]        \* allow_extra_args

(* unreadable: a body, of no form, that is no JSON or no object.           *)
(* misplaced: a form that cannot be read, without a required upload, or    *)
(* with a text for a file or a file for a text.                            *)
(* reserved: the fields overrides, extra_args and stdin are of their types.*)
RequestsTo(e) ==
  [form     : {"empty", "json", "unreadable", "multipart", "misplaced"},
   query    : Partial(Names, Texts),
   body     : Partial(Names, Texts),
   override : Partial(Names, Texts),
   url      : [e.params -> Texts],
   extra    : BOOLEAN,
   reserved : BOOLEAN]

(* The validators merge validations into the overrides, and refuse a       *)
(* placeholder that is used twice.                                         *)
Valid(e) ==
  /\ e.switches \subseteq e.flags
  /\ e.validated \subseteq e.allowed
  /\ e.uploads \cap e.outputs = {}

(* Only a body that can be read has fields, and fields of a wrong type are *)
(* no extra_args.                                                          *)
Possible(q) ==
  /\ q.form \notin {"json", "multipart"} =>
       DOMAIN q.body = {} /\ DOMAIN q.override = {} /\ q.reserved /\ ~q.extra
  /\ q.extra => q.reserved

Init ==
  /\ endpoint \in {e \in Endpoints : Valid(e)}
  /\ request \in {q \in RequestsTo(endpoint) : Possible(q)}
  /\ phase = "received"
  /\ flag_values = Nothing
  /\ overrides = Nothing
  /\ argv = [args |-> Nothing, flags |-> Nothing, extra |-> FALSE]
  /\ bag = Nothing

-----------------------------------------------------------------------------
(* parse_request                                                           *)

Refuse(status) ==
  /\ phase' = status
  /\ UNCHANGED <<endpoint, request, flag_values, overrides, argv, bag>>

(* A form with a bad field, no form where files are expected, or a body    *)
(* that is no JSON object.                                                 *)
ParseRefuses ==
  /\ phase = "received"
  /\ IF request.form \in {"multipart", "misplaced"}
       THEN request.form = "misplaced" \/ ~request.reserved
       ELSE endpoint.uploads # {} \/ request.form = "unreadable"
  /\ Refuse("400")

(* The types of a JSON body's reserved fields are left to pydantic; and    *)
(* json.loads raises other errors than JSONDecodeError, on bytes that are  *)
(* no UTF-8 and on deep nesting.                                           *)
ParseBreaks ==
  /\ phase = "received"
  /\ request.form = "multipart" \/ endpoint.uploads = {}
  /\ request.form = "unreadable" \/ ~request.reserved
  /\ Refuse("500")

(* Mutation: the query string is merged over the body.                     *)
Flat_queryWins == Over(From("query", request.query), From("body", request.body))

(* {**query_values, **body_values}                                         *)
Flat == Over(From("body", request.body), From("query", request.query))

Parse ==
  /\ phase = "received"
  /\ request.form \in {"empty", "json", "multipart"} /\ request.reserved
  /\ request.form # "multipart" => endpoint.uploads = {}
  /\ flag_values' = Flat
  /\ overrides' = From("overrides", request.override)
  /\ phase' = "parsed"
  /\ UNCHANGED <<endpoint, request, argv, bag>>

-----------------------------------------------------------------------------
(* The values of the placeholders.                                         *)

(* What the check of a number or a bool passes on.                         *)
Normal(v) == [v EXCEPT !.text = IF @ = "other" THEN "usual" ELSE @]

(* _coerce_override_value: a name without validations keeps its value.     *)
Coerced(values) ==
  [n \in DOMAIN values |->
     IF n \in endpoint.validated THEN Normal(values[n]) ELSE values[n]]

Accepted(values) ==
  \A n \in DOMAIN values \cap endpoint.validated : values[n].text # "wrong"

Only(values, S) == [n \in DOMAIN values \cap S |-> values[n]]

(* _resolved_override_values                                               *)
Resolved == Over(overrides, Only(flag_values, endpoint.allowed))

Params == From("url", request.url)

Defaults == From("default", endpoint.defaults)

(* Mutation: the checks of the path parameters were forgotten.             *)
ValuesAccepted_noParams == DOMAIN overrides \subseteq endpoint.allowed /\ Accepted(Resolved)

ValuesAccepted ==
  DOMAIN overrides \subseteq endpoint.allowed /\ Accepted(Resolved) /\ Accepted(Params)

(* request_template_values                                                 *)
RequestValues == Over(Coerced(Params), Over(Coerced(Resolved), Defaults))

(* Mutation: an omitted upload is bound to None.                           *)
Files_none == [n \in endpoint.uploads \cup endpoint.outputs |-> Value("none", "usual")]

(* The paths of the uploads and outputs are bound over everything else.    *)
Files == [n \in endpoint.uploads \cup endpoint.outputs |-> Value("file", "usual")]

CommandValues == Over(Files, RequestValues)

-----------------------------------------------------------------------------
(* The flags.                                                              *)

(* Mutation: flag_values.get(name) or the default.                         *)
FlagValues_falsy ==
  LET truthy == {n \in DOMAIN flag_values :
                   ~(n \in endpoint.switches /\ flag_values[n].text = "other")}
  IN  Only(Over(Only(flag_values, truthy), Defaults), endpoint.flags)

FlagValues == Only(Over(flag_values, Defaults), endpoint.flags)

FlagsAccepted ==
  /\ DOMAIN flag_values \subseteq endpoint.flags \cup endpoint.allowed
  /\ \A n \in DOMAIN FlagValues : FlagValues[n].text # "wrong"

(* A bool flag is there or not; any other is followed by its value.        *)
FlagArgs ==
  LET shown == {n \in DOMAIN FlagValues :
                  n \in endpoint.switches => FlagValues[n].text # "other"}
  IN  [n \in shown |-> Normal(FlagValues[n])]

-----------------------------------------------------------------------------
(* build_command                                                           *)

ArgsBound == endpoint.args \subseteq DOMAIN CommandValues

Buildable ==
  /\ ValuesAccepted
  /\ ArgsBound /\ ~endpoint.unnamed
  /\ FlagsAccepted
  /\ request.extra => endpoint.extra

(* Flags and extra_args are only looked at once every argument is rendered.*)
BuildRefuses ==
  /\ phase = "parsed"
  /\ ~Buildable
  /\ endpoint.unnamed => ~ValuesAccepted \/ ~ArgsBound
  /\ Refuse("400")

(* An IndexError or AttributeError of str.format, which only expects a     *)
(* KeyError; either may come first.                                        *)
BuildBreaks ==
  /\ phase = "parsed"
  /\ ValuesAccepted /\ endpoint.unnamed
  /\ Refuse("500")

Build ==
  /\ phase = "parsed"
  /\ Buildable
  /\ argv' = [args  |-> Only(CommandValues, endpoint.args),
              flags |-> FlagArgs,
              extra |-> request.extra]
  /\ phase' = "built"
  /\ UNCHANGED <<endpoint, request, flag_values, overrides, bag>>

(* _build_template_context, once the command has succeeded                 *)
Render ==
  /\ phase = "built"
  /\ bag' = RequestValues
  /\ phase' = "rendered"
  /\ UNCHANGED <<endpoint, request, flag_values, overrides, argv>>

Answered == phase \in {"rendered", "400", "500"} /\ UNCHANGED vars

Next ==
  \/ ParseRefuses \/ ParseBreaks \/ Parse
  \/ BuildRefuses \/ BuildBreaks \/ Build \/ Render \/ Answered

Spec == Init /\ [][Next]_vars

-----------------------------------------------------------------------------
(* Properties.                                                             *)

Values == [from : Sources, text : Texts]

(* The types of the variables.                                             *)
TypeOK ==
  /\ Valid(endpoint)
  /\ phase \in {"received", "parsed", "built", "rendered", "400", "500"}
  /\ \A f \in {flag_values, overrides, argv.args, argv.flags, bag} :
       f \in Partial(Names, Values)
  /\ argv.extra \in BOOLEAN

Ran == phase \in {"built", "rendered"}

(* No text of the client reaches the command under a name for which the    *)
(* endpoint declares a check, be it as a flag or as a placeholder, from    *)
(* the body, the overrides or the URL, unless it passed the check; and a   *)
(* request with a field the endpoint does not declare runs no command.     *)
OnlyVettedTexts ==
  Ran =>
    /\ \A n \in DOMAIN argv.args :
         argv.args[n].text = "wrong" =>
           argv.args[n].from = "default" \/ n \notin endpoint.validated
    /\ \A n \in DOMAIN argv.flags : argv.flags[n].text # "wrong"
    /\ argv.extra => endpoint.extra
    /\ DOMAIN request.override \subseteq endpoint.allowed
    /\ DOMAIN request.body \cup DOMAIN request.query \subseteq endpoint.flags \cup endpoint.allowed

(* Who offers a value for a name, the strongest first, as the README and   *)
(* the comments rank them: a file's path, the URL, the explicit overrides, *)
(* and, for a name that may be overridden, the body and the query.         *)
Ranking(n) ==
  <<[from |-> "file",      offered |-> n \in endpoint.uploads \cup endpoint.outputs],
    [from |-> "url",       offered |-> n \in endpoint.params],
    [from |-> "overrides", offered |-> n \in DOMAIN request.override],
    [from |-> "body",      offered |-> n \in DOMAIN request.body \cap endpoint.allowed],
    [from |-> "query",     offered |-> n \in DOMAIN request.query \cap endpoint.allowed],
    [from |-> "default",   offered |-> n \in DOMAIN endpoint.defaults]>>

(* A placeholder always gets the value of the strongest source that offers *)
(* one, whichever of them are present at once.                             *)
StrongestSourceWins ==
  Ran => \A n \in endpoint.args :
    \E i \in DOMAIN Ranking(n) :
      /\ Ranking(n)[i].offered
      /\ argv.args[n].from = Ranking(n)[i].from
      /\ \A j \in DOMAIN Ranking(n) : Ranking(n)[j].offered => i <= j

(* A flag the client set or switched off is what the client said, never    *)
(* the endpoint's default.                                                 *)
ClientFlagsWin ==
  Ran => \A n \in DOMAIN argv.flags :
    n \in DOMAIN request.body \cup DOMAIN request.query => argv.flags[n].from # "default"

(* README, on request.<name>: "Defaults + validated overrides + flag       *)
(* values for this request".  A flag that is no override is not there, and *)
(* where it has a default the template shows that one instead.             *)
TemplateShowsFlags ==
  phase = "rendered" => \A n \in DOMAIN argv.flags : n \in DOMAIN bag /\ bag[n] = argv.flags[n]

=============================================================================
