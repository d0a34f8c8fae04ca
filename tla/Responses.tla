----------------------------- MODULE Responses -----------------------------
(***************************************************************************)
(* From what a successful command printed to the answer: parse_output      *)
(* (parser.py), the response template (templating.py) and the end of the   *)
(* handler (main.py).                                                      *)
(*                                                                         *)
(* A value is a tree, as JSON is: a function from the address of each of   *)
(* its nodes, the parts on the way from the top, to the node.  A text is a *)
(* sequence of pieces: letters, or something in braces that the renderer   *)
(* would take for a token if it met it.  The regular expressions of the    *)
(* endpoint and the JSON decoder are external: a print says what they find.*)
(***************************************************************************)
EXTENDS Integers, SequencesExt

CONSTANTS Prints,     \* what the command may have printed
          Templates,  \* the templates a YAML file may declare
          Static,     \* template_static
          Regexes     \* the regex blocks

-----------------------------------------------------------------------------
(* Values.                                                                 *)

(* A node is its Python type and, unless it has children, its content.     *)
Null == <<"null">>
Nan == <<"nan">>          \* what json.loads makes of NaN
Deep == <<"deep">>        \* JSON nested deeper than the recursion limit
Method == <<"method">>    \* a bound method, the value of an attribute
Number(n) == <<"number", n>>
Text(pieces) == <<"text", pieces>>

Letters(x) == <<"letters", x>>
Token(path) == <<"token", path>>
Shown(value) == <<"shown", value>>    \* str() of a value that is no text

Newline == Letters("newline")
Lone == Letters("lone surrogate")     \* JSON's "\ud800", which UTF-8 has no bytes for

Single(node) == [address \in {<<>>} |-> node]

(* A dict or list: where its child k has address a, it has <<type, k>>, a. *)
Branch(type, children) ==
  [address \in {<<>>} \cup UNION {{<< <<type, k>> >> \o a : a \in DOMAIN children[k]} :
                                  k \in DOMAIN children} |->
     IF address = <<>> THEN <<type>> ELSE children[address[1][2]][Tail(address)]]

List(items) == Branch("list", items)
Dict(fields) == Branch("dict", fields)

(* The part of a value below an address.                                   *)
At(value, address) ==
  LET below == {a \in DOMAIN value : IsPrefix(address, a)}
  IN  [a \in {SubSeq(b, Len(address) + 1, Len(b)) : b \in below} |-> value[address \o a]]

(* The address that leads through these keys.                              *)
Keys(path) == [i \in DOMAIN path |-> <<"dict", path[i]>>]

Parts == ({"dict"} \X STRING) \cup ({"list"} \X Nat)

DataPieces == ({"letters"} \X STRING) \cup ({"token"} \X Seq(STRING))

DataNodes ==
  {Null, Nan, Deep, <<"dict">>, <<"list">>}
    \cup ({"number"} \X Int) \cup ({"text"} \X Seq(DataPieces))

(* What YAML or JSON can hold: each node but the top hangs below a dict or *)
(* list, as the last part of its address says.                             *)
IsData(value) ==
  /\ value \in [DOMAIN value -> DataNodes]
  /\ <<>> \in DOMAIN value
  /\ DOMAIN value \subseteq Seq(Parts)
  /\ \A address \in DOMAIN value \ {<<>>} :
       Front(address) \in DOMAIN value /\ value[Front(address)] = <<Last(address)[1]>>

SomeData(values) == values \in Seq(Range(values)) /\ \A v \in Range(values) : IsData(v)

ASSUME ResponsesAssumption ==
  /\ \A p \in Prints :
       /\ SomeData(p.json) /\ Len(p.json) <= 1
       /\ SomeData(p.matches)
       /\ IsData(p.stdout)
  /\ \A t \in Templates : SomeData(t) /\ Len(t) <= 1
  /\ IsData(Static)

(* json.dumps(allow_nan=False) takes it, and encode("utf-8") its texts.    *)
Serializable(value) ==
  \A a \in DOMAIN value :
    /\ value[a] \notin {Nan, Method}
    /\ value[a][1] = "text" => Lone \notin Range(value[a][2])

-----------------------------------------------------------------------------
VARIABLES output,  \* the endpoint's output block
          print,   \* the command's stdout
          step,    \* "parse", "render", "send" or "done"
          parsed,  \* parsed_output
          answer   \* the status, the body and what the body is

vars == <<output, print, step, parsed, answer>>

Outputs ==
  [mode : {"text", "native_json"}, template : Templates]
    \cup [mode : {"regex_json"}, regex : Regexes, template : Templates]

Init ==
  /\ output \in Outputs
  /\ print \in Prints
  /\ step = "parse"
  /\ parsed = Single(Null)
  /\ answer = [status |-> 0, kind |-> "none", body |-> Single(Null)]

Finish(status, kind, body) ==
  /\ step' = "done"
  /\ answer' = [status |-> status, kind |-> kind, body |-> body]
  /\ UNCHANGED <<output, print, parsed>>

(* Mutation: finditer's list is an answer although it is empty.            *)
Malformed_emptyList ==
  \/ output.mode = "native_json" /\ print.json = <<>>
  \/ /\ output.mode = "regex_json"
     /\ \/ ~output.regex.flags_known
        \/ output.regex.compiles /\ ~output.regex.multiple /\ print.matches = <<>>

(* OutputParseError: no JSON, an unknown flag (looked at before the        *)
(* pattern is compiled), or no match.                                      *)
Malformed ==
  \/ output.mode = "native_json" /\ print.json = <<>>
  \/ /\ output.mode = "regex_json"
     /\ \/ ~output.regex.flags_known
        \/ output.regex.compiles /\ print.matches = <<>>

(* Any other exception: RecursionError, re.error.                          *)
Breaks ==
  \/ output.mode = "native_json" /\ print.json = <<Single(Deep)>>
  \/ output.mode = "regex_json" /\ output.regex.flags_known /\ ~output.regex.compiles

(* Mutation: the parser's errors are answered as FastAPI's own.            *)
ParseRefuses_unprocessable == step = "parse" /\ Malformed /\ Finish(422, "error", Single(Null))

ParseRefuses == step = "parse" /\ Malformed /\ Finish(502, "error", Single(Null))

ParseBreaks == step = "parse" /\ Breaks /\ Finish(500, "error", Single(Null))

(* What parse_output returns: nothing for text, the JSON value, the first  *)
(* match (search), or all of them (finditer), each as its groupdict.       *)
Parsed ==
  IF output.mode = "text" THEN Single(Null)
  ELSE IF output.mode = "native_json" THEN print.json[1]
  ELSE IF output.regex.multiple THEN List(print.matches)
  ELSE print.matches[1]

Parse ==
  /\ step = "parse"
  /\ ~Malformed /\ ~Breaks
  /\ parsed' = Parsed
  /\ step' = "render"
  /\ UNCHANGED <<output, print, answer>>

-----------------------------------------------------------------------------
(* The template.                                                           *)

(* The values a path can start from; of the rest, only kinds differ.       *)
Context ==
  Dict([parsed_output |-> parsed, stdout |-> print.stdout, exit_code |-> Single(Number(0)),
        static |-> Static])

(* Mutation: a missing key is null.                                        *)
Child_null(value, part) ==
  IF value[<<>>][1] = "dict"
    THEN IF Keys(<<part>>) \in DOMAIN value
           THEN <<At(value, Keys(<<part>>))>> ELSE <<Single(Null)>>
    ELSE IF value[<<>>][1] \in {"text", "list"} /\ part = "count" THEN <<Single(Method)>>
    ELSE IF value[<<>>][1] \in {"number", "nan"} /\ part = "real" THEN <<value>>
    ELSE <<>>

(* One part of a path: a key of a dict, else whatever attribute Python has *)
(* of that name (one of str and list, and one of numbers, stand for all;   *)
(* the attributes of a method or of another object, which getattr finds as *)
(* well, are left out), and never anything of None.  <<>> is a             *)
(* TemplateRenderError.                                                    *)
Child(value, part) ==
  IF value[<<>>][1] = "dict"
    THEN IF Keys(<<part>>) \in DOMAIN value THEN <<At(value, Keys(<<part>>))>> ELSE <<>>
    ELSE IF value[<<>>][1] \in {"text", "list"} /\ part = "count" THEN <<Single(Method)>>
    ELSE IF value[<<>>][1] \in {"number", "nan"} /\ part = "real" THEN <<value>>
    ELSE <<>>

(* _resolve_path: where n parts of the path have led.                      *)
Resolve(path) ==
  LET found[n \in 0..Len(path)] ==
        IF n = 0 THEN <<Context>>
        ELSE IF found[n - 1] = <<>> THEN <<>>
        ELSE Child(found[n - 1][1], path[n])
  IN  found[Len(path)]

(* _stringify, and what re.sub splices in.                                 *)
Stringify(value) == IF value[<<>>][1] = "text" THEN value[<<>>][2] ELSE <<Shown(value)>>

IsToken(piece) == piece[1] = "token"

(* The leaf is one token; `$` also matches before a newline at the end.    *)
WholeLeaf(pieces) ==
  /\ pieces # <<>> /\ IsToken(pieces[1])
  /\ Tail(pieces) \in {<<>>, <<Newline>>}

(* What takes the place of a piece of a text.                              *)
Splice(piece) == IF IsToken(piece) THEN Stringify(Resolve(piece[2])[1]) ELSE <<piece>>

Embedded(pieces) == Single(Text(FlattenSeq([i \in DOMAIN pieces |-> Splice(pieces[i])])))

(* Mutation: what a token stands for always becomes a text.                *)
Leaf_text(node) == IF node[1] # "text" THEN Single(node) ELSE Embedded(node[2])

(* Mutation: what has been spliced in is scanned once more.                *)
Leaf_again(node) ==
  IF node[1] # "text" THEN Single(node)
  ELSE IF WholeLeaf(node[2]) THEN Resolve(node[2][1][2])[1]
  ELSE LET once == Embedded(node[2])[<<>>][2]
       IN  Single(Text(FlattenSeq([i \in DOMAIN once |->
             IF IsToken(once[i]) => Resolve(once[i][2]) # <<>>
             THEN Splice(once[i]) ELSE <<once[i]>>])))

(* What takes the place of a node of a template all of whose tokens resolve*)
Leaf(node) ==
  IF node[1] # "text" THEN Single(node)
  ELSE IF WholeLeaf(node[2]) THEN Resolve(node[2][1][2])[1]
  ELSE Embedded(node[2])

(* render_template: each node with what takes its place.                   *)
Render(template) ==
  LET grown(a) == {<<a \o b, Leaf(template[a])[b]>> : b \in DOMAIN Leaf(template[a])}
      nodes == UNION {grown(a) : a \in DOMAIN template}
  IN  [address \in {node[1] : node \in nodes} |->
         (CHOOSE node \in nodes : node[1] = address)[2]]

(* The pieces of all texts in a value.                                     *)
Pieces(value) == UNION {Range(value[a][2]) : a \in {b \in DOMAIN value : value[b][1] = "text"}}

(* The paths a template mentions.                                          *)
Paths(template) == {piece[2] : piece \in {p \in Pieces(template) : IsToken(p)}}

Templated == output.template # <<>>

(* The answer of an endpoint without a template: the ToolResponse itself.  *)
Envelope ==
  Dict([parsed_output |-> parsed, stdout |-> print.stdout, exit_code |-> Single(Number(0))])

(* A TemplateRenderError's answer carries the envelope, unless that cannot *)
(* be written itself.                                                      *)
RenderFails ==
  /\ step = "render" /\ Templated
  /\ \E path \in Paths(output.template[1]) : Resolve(path) = <<>>
  /\ \/ Serializable(Envelope) /\ Finish(500, "error and envelope", Envelope)
     \/ ~Serializable(Envelope) /\ Finish(500, "error", Single(Null))

RenderBody ==
  /\ step = "render"
  /\ Templated => \A path \in Paths(output.template[1]) : Resolve(path) # <<>>
  /\ step' = "send"
  /\ answer' = IF Templated
                 THEN [status |-> 0, kind |-> "rendered", body |-> Render(output.template[1])]
                 ELSE [status |-> 0, kind |-> "envelope", body |-> Envelope]
  /\ UNCHANGED <<output, print, parsed>>

(* JSONResponse, made inside the handler, or FastAPI after it, which knows *)
(* more ways to write an envelope.                                         *)
Send ==
  /\ step = "send"
  /\ Templated => Serializable(answer.body)
  /\ Finish(200, answer.kind, answer.body)

SendFails ==
  /\ step = "send"
  /\ ~Serializable(answer.body)
  /\ Finish(500, "error", Single(Null))

Done == step = "done" /\ UNCHANGED vars

Next ==
  \/ ParseRefuses \/ ParseBreaks \/ Parse \/ RenderFails \/ RenderBody
  \/ Send \/ SendFails \/ Done

Spec == Init /\ [][Next]_vars

-----------------------------------------------------------------------------
(* Properties.                                                             *)

Attributes == {"count", "real"}

Rendered == step = "done" /\ answer.kind = "rendered"

(* The shape of the state, and the answers there are.                      *)
TypeOK ==
  /\ output \in Outputs /\ print \in Prints
  /\ step \in {"parse", "render", "send", "done"}
  /\ step = "done" =>
       <<answer.status, answer.kind>> \in
         {<<200, "envelope">>, <<200, "rendered">>, <<500, "error">>,
          <<500, "error and envelope">>, <<502, "error">>}

(* The values that paths reach through keys only.                          *)
Keyed(paths) == {At(Context, Keys(path)) : path \in {p \in paths : Keys(p) \in DOMAIN Context}}

Children(value, address) == {a \in DOMAIN value : a # <<>> /\ Front(a) = address}

(* One token and a newline, the text that the whole-leaf pattern takes for *)
(* a token alone, since `$` also matches before a newline at the end.      *)
TokenLine(pieces) == Len(pieces) = 2 /\ IsToken(pieces[1]) /\ pieces[2] = Newline

StaysText(body, a) == DOMAIN At(body, a) = {<<>>} /\ body[a][1] = "text"

(* A body has the form of its template: each dict and list with the same   *)
(* children, every other leaf unchanged, where a text is one token the very*)
(* value, and where it is more a text, save for a TokenLine.               *)
HasForm(body, template) ==
  \A a \in DOMAIN template :
    /\ template[a][1] # "text" =>
         /\ a \in DOMAIN body /\ body[a] = template[a]
         /\ Children(body, a) = Children(template, a)
    /\ template[a][1] = "text" =>
         LET pieces == template[a][2]
         IN  /\ \A path \in Paths(template) :
                  pieces = <<Token(path)>> /\ Keys(path) \in DOMAIN Context =>
                    At(body, a) = At(Context, Keys(path))
             /\ Len(pieces) > 1 /\ ~TokenLine(pieces) => StaysText(body, a)

(* A client reads numbers as numbers and null as null wherever the template*)
(* has nothing beside the token, and a text wherever it has, but where all *)
(* it has beside the token is a newline at the end.                        *)
NativeTypes == Rendered => HasForm(answer.body, output.template[1])

(* What a command printed is data: braces in it are not looked at again, so*)
(* that it cannot pull a value into the answer that no token of the        *)
(* template names.  A value that is no text is spliced in as str() shows   *)
(* it, be it named by keys alone or by an attribute: a method, or a number *)
(* on the way.                                                             *)
DataStaysData ==
  Rendered =>
    LET template == output.template[1]
        passed == Keyed(UNION {Prefixes(path) : path \in Paths(template)})
    IN  Pieces(answer.body) \subseteq
          {piece \in Pieces(template) : ~IsToken(piece)}
            \cup (UNION {Pieces(value) \cup {Shown(value)} : value \in Keyed(Paths(template))})
            \cup {Shown(value) : value \in
                     {Single(Method)} \cup {v \in passed : v[<<>>][1] \in {"number", "nan"}}}

(* A template is filled in completely or not at all.  Every token of a     *)
(* rendered answer leads through keys, but for last parts that are names   *)
(* of attributes of what it met; and if all did, nothing is refused.       *)
LoudTemplates ==
  step = "done" /\ Templated =>
    LET paths == Paths(output.template[1])
    IN  /\ answer.kind = "rendered" =>
             \A path \in paths : \E n \in 0..Len(path) :
               LET met == Keys(SubSeq(path, 1, n))
               IN  /\ met \in DOMAIN Context
                   /\ n < Len(path) => Context[met][1] \in {"text", "list", "number", "nan"}
                   /\ \A i \in n + 1..Len(path) : path[i] \in Attributes
        /\ answer.kind = "error and envelope" =>
             \E path \in paths : Keys(path) \notin DOMAIN Context

(* An answer other than 502 shows what the pattern found: one match, or all*)
(* of them and not none.  A 502 has no such value to show, unless the      *)
(* configuration names a flag there is not.                                *)
StatusTellsMatches ==
  output.mode = "regex_json" =>
    LET found == Range(print.matches)
    IN  /\ step \in {"render", "send"} \/ answer.status = 200 =>
             /\ found # {}
             /\ IF output.regex.multiple
                  THEN /\ parsed[<<>>] = <<"list">>
                       /\ {At(parsed, a) : a \in {b \in DOMAIN parsed : Len(b) = 1}} = found
                  ELSE parsed \in found
        /\ answer.status = 502 => found = {} \/ ~output.regex.flags_known
=============================================================================
