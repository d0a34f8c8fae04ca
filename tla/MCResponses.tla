---------------------------- MODULE MCResponses ----------------------------
(* Responses for TLC: commands that print nothing of use, values, NaN, or  *)
(* text that looks like a token, against templates with one or two tokens. *)
EXTENDS Responses

T(pieces) == Single(Text(pieces))

MCStatic ==
  Dict([id |-> T(<<Letters("id")>>), secret |-> T(<<Letters("secret")>>), none |-> Single(Null)])

Tricky == T(<<Letters("out"), Token(<<"static", "secret">>)>>)

Match(x) == Dict([name |-> x])

MCPrints ==
  [json : {<<>>, <<Single(Deep)>>, <<Single(Null)>>,
           <<Dict([name |-> Single(Number(1)), size |-> Single(Nan)])>>,
           <<Dict([name |-> List(<<Tricky, Single(Null)>>)])>>,
           <<Dict([name |-> T(<<Lone>>)])>>},
   matches : {<<>>, <<Match(Single(Null))>>, <<Match(Tricky), Match(Single(Null))>>},
   stdout : {T(<<Letters("plain")>>), Tricky}]

Named == {<<"stdout">>, <<"exit_code">>, <<"parsed_output">>, <<"parsed_output", "name">>,
          <<"parsed_output", "other">>, <<"static", "id">>, <<"static", "none">>,
          <<"static", "none", "count">>, <<"stdout", "count">>, <<"exit_code", "real">>,
          <<"exit_code", "real", "real">>}

Leaves ==
  {T(<<Token(p)>>) : p \in Named}
    \cup {T(<<Token(p), Newline>>) : p \in Named}
    \cup {T(<<Token(p), Newline, Letters("see")>>) : p \in Named}
    \cup {T(<<Letters("see"), Token(p)>>) : p \in Named}
    \cup {T(<<Token(p), Token(<<"stdout">>)>>) : p \in Named}

MCTemplates ==
  {<<>>}
    \cup {<<leaf>> : leaf \in Leaves}
    \cup {<<Dict([fixed |-> Single(Number(7)), deep |-> List(<<leaf, Single(Null)>>)])>> :
          leaf \in Leaves}

MCRegexes == [flags_known : BOOLEAN, compiles : BOOLEAN, multiple : BOOLEAN]
=============================================================================
