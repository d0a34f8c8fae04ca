-------------------------- MODULE ArgumentsProofs --------------------------
(***************************************************************************)
(* What holds of Arguments for any set of names, and every declaration and *)
(* request over it.                                                        *)
(***************************************************************************)
EXTENDS Arguments, TLAPS

-----------------------------------------------------------------------------
(* Functions of some of the names.                                         *)

LEMMA Merged ==
  ASSUME NEW f, NEW g
  PROVE  /\ DOMAIN Over(f, g) = DOMAIN f \cup DOMAIN g
         /\ \A n \in DOMAIN f : Over(f, g)[n] = f[n]
         /\ \A n \in DOMAIN g \ DOMAIN f : Over(f, g)[n] = g[n]
  BY DEF Over

LEMMA PartialIs ==
  ASSUME NEW S, NEW T, NEW f
  PROVE  /\ f \in Partial(S, T) => /\ DOMAIN f \subseteq S
                                   /\ \A n \in DOMAIN f : f[n] \in T
                                   /\ f = [n \in DOMAIN f |-> f[n]]
         /\ /\ DOMAIN f \subseteq S
            /\ \A n \in DOMAIN f : f[n] \in T
            /\ f = [n \in DOMAIN f |-> f[n]]
            => f \in Partial(S, T)
  BY DEF Partial

LEMMA MergedPartial ==
  ASSUME NEW S, NEW T, NEW f \in Partial(S, T), NEW g \in Partial(S, T)
  PROVE  Over(f, g) \in Partial(S, T)
<1>1. Over(f, g) = [n \in DOMAIN Over(f, g) |-> Over(f, g)[n]]
  BY DEF Over
<1>2. /\ DOMAIN f \subseteq S /\ \A n \in DOMAIN f : f[n] \in T
      /\ DOMAIN g \subseteq S /\ \A n \in DOMAIN g : g[n] \in T
  BY PartialIs
<1>3. DOMAIN Over(f, g) \subseteq S /\ \A n \in DOMAIN Over(f, g) : Over(f, g)[n] \in T
  BY <1>2 DEF Over
<1> HIDE DEF Over
<1>4. QED
  BY <1>1, <1>3, PartialIs

LEMMA OnlyPartial ==
  ASSUME NEW S, NEW T, NEW f \in Partial(S, T), NEW D
  PROVE  Only(f, D) \in Partial(S, T)
  BY PartialIs DEF Only

LEMMA FromPartial ==
  ASSUME NEW source \in Sources, NEW texts \in Partial(Names, Texts)
  PROVE  /\ From(source, texts) \in Partial(Names, Values)
         /\ DOMAIN From(source, texts) = DOMAIN texts
         /\ \A n \in DOMAIN texts : From(source, texts)[n] = Value(source, texts[n])
<1>1. \A n \in DOMAIN texts : Value(source, texts[n]) \in Values
  BY PartialIs DEF Value, Values
<1>2. DOMAIN texts \subseteq Names
  BY PartialIs
<1>3. QED
  BY <1>1, <1>2, PartialIs DEF From

LEMMA NothingPartial == Nothing \in Partial(Names, Values)
<1>1. [n \in {} |-> "usual"] \in Partial(Names, Texts)
  BY DEF Partial
<1>2. QED
  BY <1>1, FromPartial DEF Nothing, Sources

(* What a check passes on has the same source, and is as acceptable.       *)
LEMMA NormalIs ==
  ASSUME NEW v \in Values
  PROVE  /\ Normal(v) \in Values
         /\ Normal(v).from = v.from
         /\ Normal(v).text = "wrong" <=> v.text = "wrong"
  BY DEF Normal, Values, Texts

LEMMA CoercedIs ==
  ASSUME NEW values \in Partial(Names, Values)
  PROVE  /\ Coerced(values) \in Partial(Names, Values)
         /\ DOMAIN Coerced(values) = DOMAIN values
         /\ \A n \in DOMAIN values :
              /\ Coerced(values)[n].from = values[n].from
              /\ Coerced(values)[n].text = "wrong" <=> values[n].text = "wrong"
<1>1. \A n \in DOMAIN values : values[n] \in Values
  BY PartialIs
<1>2. \A n \in DOMAIN values : Coerced(values)[n] \in Values
  BY <1>1, NormalIs DEF Coerced
<1>3. QED
  BY <1>1, <1>2, NormalIs, PartialIs DEF Coerced

-----------------------------------------------------------------------------
(* What a name is bound to.                                                *)

Configured ==
  /\ endpoint \in Endpoints
  /\ Valid(endpoint)
  /\ request \in RequestsTo(endpoint)

LEMMA SourcesTyped ==
  ASSUME Configured
  PROVE  /\ Flat \in Partial(Names, Values)
         /\ Params \in Partial(Names, Values)
         /\ Defaults \in Partial(Names, Values)
         /\ Files \in Partial(Names, Values)
         /\ From("overrides", request.override) \in Partial(Names, Values)
<1>1. /\ request.body \in Partial(Names, Texts) /\ request.query \in Partial(Names, Texts)
      /\ request.override \in Partial(Names, Texts) /\ endpoint.defaults \in Partial(Names, Texts)
  BY DEF Configured, RequestsTo, Endpoints
<1>2. request.url \in Partial(Names, Texts)
  <2>1. request.url \in [endpoint.params -> Texts] /\ endpoint.params \in SUBSET Names
    BY DEF Configured, RequestsTo, Endpoints
  <2>2. QED
    BY <2>1 DEF Partial
<1>3. Files \in Partial(Names, Values)
  <2>1. endpoint.uploads \cup endpoint.outputs \in SUBSET Names
    BY DEF Configured, Endpoints
  <2>2. Value("file", "usual") \in Values
    BY DEF Value, Values, Sources, Texts
  <2>3. Files \in [endpoint.uploads \cup endpoint.outputs -> Values]
    BY <2>2 DEF Files
  <2>4. QED
    BY <2>1, <2>3 DEF Partial
<1>4. {"body", "query", "overrides", "url", "default"} \subseteq Sources
  BY DEF Sources
<1>5. QED
  BY <1>1, <1>2, <1>3, <1>4, FromPartial, MergedPartial DEF Flat, Params, Defaults

LEMMA ValuesTyped ==
  ASSUME Configured, flag_values \in Partial(Names, Values), overrides \in Partial(Names, Values)
  PROVE  /\ Resolved \in Partial(Names, Values)
         /\ RequestValues \in Partial(Names, Values)
         /\ CommandValues \in Partial(Names, Values)
         /\ FlagValues \in Partial(Names, Values)
         /\ FlagArgs \in Partial(Names, Values)
<1>1. Resolved \in Partial(Names, Values)
  BY OnlyPartial, MergedPartial DEF Resolved
<1>2. RequestValues \in Partial(Names, Values)
  <2>1. Coerced(Params) \in Partial(Names, Values) /\ Coerced(Resolved) \in Partial(Names, Values)
    BY <1>1, SourcesTyped, CoercedIs
  <2>2. QED
    BY <2>1, SourcesTyped, MergedPartial DEF RequestValues
<1>3. CommandValues \in Partial(Names, Values)
  BY <1>2, SourcesTyped, MergedPartial DEF CommandValues
<1>4. FlagValues \in Partial(Names, Values)
  BY SourcesTyped, MergedPartial, OnlyPartial DEF FlagValues
<1>5. FlagArgs \in Partial(Names, Values)
  <2> DEFINE shown == {n \in DOMAIN FlagValues :
                         n \in endpoint.switches => FlagValues[n].text # "other"}
  <2>1. FlagArgs = [n \in shown |-> Normal(FlagValues[n])] /\ shown \subseteq DOMAIN FlagValues
    BY DEF FlagArgs
  <2> HIDE DEF shown
  <2>2. \A n \in shown : FlagValues[n] \in Values /\ n \in Names
    BY <1>4, <2>1, PartialIs
  <2>3. QED
    BY <2>1, <2>2, NormalIs, PartialIs
<1>6. QED
  BY <1>1, <1>2, <1>3, <1>4, <1>5

(* Whose value each merge keeps.                                           *)
LEMMA WhoseValue ==
  ASSUME Configured, flag_values = Flat, overrides = From("overrides", request.override)
  PROVE  /\ DOMAIN Flat = DOMAIN request.body \cup DOMAIN request.query
         /\ \A n \in DOMAIN request.body : Flat[n].from = "body"
         /\ \A n \in DOMAIN request.query \ DOMAIN request.body : Flat[n].from = "query"
         /\ DOMAIN Resolved = DOMAIN request.override \cup (DOMAIN Flat \cap endpoint.allowed)
         /\ \A n \in DOMAIN request.override : Resolved[n].from = "overrides"
         /\ \A n \in (DOMAIN Flat \cap endpoint.allowed) \ DOMAIN request.override :
              Resolved[n] = Flat[n]
<1>1. /\ DOMAIN Flat = DOMAIN request.body \cup DOMAIN request.query
      /\ \A n \in DOMAIN request.body : Flat[n].from = "body"
      /\ \A n \in DOMAIN request.query \ DOMAIN request.body : Flat[n].from = "query"
  BY DEF Flat, Over, From, Value
<1>2. /\ DOMAIN Resolved = DOMAIN request.override \cup (DOMAIN Flat \cap endpoint.allowed)
      /\ \A n \in DOMAIN request.override : Resolved[n].from = "overrides"
      /\ \A n \in (DOMAIN Flat \cap endpoint.allowed) \ DOMAIN request.override :
           Resolved[n] = Flat[n]
  <2> HIDE DEF Flat
  <2>1. QED
    BY DEF Resolved, Over, Only, From, Value
<1>3. QED
  BY <1>1, <1>2

LEMMA WhoseRequestValue ==
  ASSUME Configured, flag_values = Flat, overrides = From("overrides", request.override)
  PROVE  /\ DOMAIN RequestValues = endpoint.params \cup DOMAIN Resolved \cup DOMAIN endpoint.defaults
         /\ \A n \in endpoint.params : RequestValues[n].from = "url"
         /\ \A n \in DOMAIN Resolved \ endpoint.params :
              RequestValues[n].from = Resolved[n].from
         /\ \A n \in DOMAIN endpoint.defaults \ (DOMAIN Resolved \cup endpoint.params) :
              RequestValues[n].from = "default"
<1>1. flag_values \in Partial(Names, Values) /\ overrides \in Partial(Names, Values)
  BY SourcesTyped
<1>2. Resolved \in Partial(Names, Values) /\ Params \in Partial(Names, Values)
  BY <1>1, ValuesTyped, SourcesTyped
<1>3. /\ DOMAIN Coerced(Resolved) = DOMAIN Resolved
      /\ \A n \in DOMAIN Resolved : Coerced(Resolved)[n].from = Resolved[n].from
  BY <1>2, CoercedIs
<1>4. DOMAIN Params = endpoint.params /\ \A n \in endpoint.params : Params[n].from = "url"
  BY DEF Params, From, Value, Configured, RequestsTo
<1>5. /\ DOMAIN Coerced(Params) = endpoint.params
      /\ \A n \in endpoint.params : Coerced(Params)[n].from = "url"
  BY <1>2, <1>4, CoercedIs
<1>6. /\ DOMAIN Defaults = DOMAIN endpoint.defaults
      /\ \A n \in DOMAIN endpoint.defaults : Defaults[n].from = "default"
  BY DEF Defaults, From, Value
<1>7. QED
  BY <1>3, <1>5, <1>6 DEF RequestValues, Over

(* A value that fails the check of its name can only be a default.         *)
LEMMA WrongIsDefault ==
  ASSUME Configured, flag_values = Flat, overrides = From("overrides", request.override),
         ValuesAccepted,
         NEW n \in DOMAIN CommandValues, CommandValues[n].text = "wrong"
  PROVE  CommandValues[n].from = "default" \/ n \notin endpoint.validated
<1>1. flag_values \in Partial(Names, Values) /\ overrides \in Partial(Names, Values)
  BY SourcesTyped
<1>2. Resolved \in Partial(Names, Values) /\ Params \in Partial(Names, Values)
  BY <1>1, ValuesTyped, SourcesTyped
<1>3. /\ DOMAIN Coerced(Resolved) = DOMAIN Resolved
      /\ \A m \in DOMAIN Resolved : Coerced(Resolved)[m].text = "wrong" <=> Resolved[m].text = "wrong"
  BY <1>2, CoercedIs
<1>4. /\ DOMAIN Coerced(Params) = DOMAIN Params
      /\ \A m \in DOMAIN Params : Coerced(Params)[m].text = "wrong" <=> Params[m].text = "wrong"
  BY <1>2, CoercedIs
<1>5. \A m \in (DOMAIN Resolved) \cap endpoint.validated : Resolved[m].text # "wrong"
  BY DEF ValuesAccepted, Accepted
<1>6. \A m \in (DOMAIN Params) \cap endpoint.validated : Params[m].text # "wrong"
  BY DEF ValuesAccepted, Accepted
<1>7. \A m \in DOMAIN Defaults : Defaults[m].from = "default"
  BY DEF Defaults, From, Value
<1>8. \A m \in DOMAIN Files : Files[m].text = "usual"
  BY DEF Files, Value
<1>9. CASE n \in DOMAIN Files
  BY <1>8, <1>9 DEF CommandValues, Over
<1>10. CASE n \notin DOMAIN Files
  <2>1. n \in DOMAIN RequestValues /\ CommandValues[n] = RequestValues[n]
    BY <1>10 DEF CommandValues, Over
  <2>2. CASE n \in DOMAIN Params
    <3>1. RequestValues[n] = Coerced(Params)[n]
      BY <2>2, <1>4 DEF RequestValues, Over
    <3>2. QED
      BY <3>1, <2>1, <2>2, <1>4, <1>6
  <2>3. CASE n \notin DOMAIN Params /\ n \in DOMAIN Resolved
    <3>1. RequestValues[n] = Coerced(Resolved)[n]
      BY <2>3, <1>3, <1>4 DEF RequestValues, Over
    <3>2. QED
      BY <3>1, <2>1, <2>3, <1>3, <1>5
  <2>4. CASE n \notin DOMAIN Params /\ n \notin DOMAIN Resolved
    <3>1. n \in DOMAIN Defaults /\ RequestValues[n] = Defaults[n]
      BY <2>1, <2>4, <1>3, <1>4 DEF RequestValues, Over
    <3>2. QED
      BY <3>1, <2>1, <1>7
  <2>5. QED
    BY <2>2, <2>3, <2>4
<1>11. QED
  BY <1>9, <1>10

(* The flags of the command line, once they are accepted.                  *)
LEMMA FlagsShown ==
  ASSUME Configured, flag_values = Flat, FlagsAccepted, NEW n \in DOMAIN FlagArgs
  PROVE  /\ FlagArgs[n].text # "wrong"
         /\ n \in DOMAIN Flat => FlagArgs[n].from # "default"
<1>1. flag_values \in Partial(Names, Values) /\ Defaults \in Partial(Names, Values)
  BY SourcesTyped
<1>2. FlagValues \in Partial(Names, Values)
  BY <1>1, MergedPartial, OnlyPartial DEF FlagValues
<1>3. n \in DOMAIN FlagValues /\ FlagArgs[n] = Normal(FlagValues[n])
  BY DEF FlagArgs
<1>4. FlagValues[n] \in Values
  BY <1>2, <1>3, PartialIs
<1>5. FlagArgs[n].from = FlagValues[n].from /\ FlagArgs[n].text # "wrong"
  BY <1>3, <1>4, NormalIs DEF FlagsAccepted
<1>6. ASSUME n \in DOMAIN Flat
      PROVE  FlagValues[n].from # "default"
  <2>1. FlagValues[n] = Flat[n]
    <3> HIDE DEF Flat
    <3>1. QED
      BY <1>3, <1>6 DEF FlagValues, Only, Over
  <2>2. Flat[n].from \in {"body", "query"}
    BY <1>6 DEF Flat, Over, From, Value
  <2>3. QED
    BY <2>1, <2>2
<1>7. QED
  BY <1>5, <1>6

-----------------------------------------------------------------------------
(* The requests of a run.                                                  *)

NoArguments == [args |-> Nothing, flags |-> Nothing, extra |-> FALSE]

Arguments == [args  |-> Only(CommandValues, endpoint.args),
              flags |-> FlagArgs,
              extra |-> request.extra]

(* A request is parsed to the merge of its query and body, and the command *)
(* it runs has the arguments that were built from them.                    *)
IInv ==
  /\ Configured
  /\ phase \in {"received", "parsed", "built", "rendered", "400", "500"}
  /\ phase \in {"parsed", "built", "rendered"} =>
       flag_values = Flat /\ overrides = From("overrides", request.override)
  /\ phase \notin {"parsed", "built", "rendered"} =>
       \/ flag_values = Nothing /\ overrides = Nothing
       \/ flag_values = Flat /\ overrides = From("overrides", request.override)
  /\ Ran => Buildable /\ argv = Arguments
  /\ ~Ran => argv = NoArguments
  /\ bag = Nothing \/ (phase = "rendered" /\ bag = RequestValues)

LEMMA IInvHolds == Spec => []IInv
<1>1. Init => IInv
  BY DEF Init, IInv, Configured, NoArguments, Ran
<1>2. IInv /\ [Next]_vars => IInv'
  <2> SUFFICES ASSUME IInv, [Next]_vars
               PROVE  IInv'
    OBVIOUS
  <2>1. CASE ParseRefuses \/ ParseBreaks
    BY <2>1 DEF ParseRefuses, ParseBreaks, Refuse, IInv, Configured, Ran, Flat, NoArguments
  <2>2. CASE Parse
    BY <2>2 DEF Parse, IInv, Configured, Ran, Flat, NoArguments
  <2>3. CASE BuildRefuses \/ BuildBreaks
    BY <2>3 DEF BuildRefuses, BuildBreaks, Refuse, IInv, Configured, Ran, Flat, NoArguments
  <2>4. CASE Build
    <3>1. UNCHANGED <<endpoint, request, flag_values, overrides, bag>> /\ phase = "parsed" /\ phase' = "built"
      BY <2>4 DEF Build
    <3>2. /\ Flat' = Flat /\ Buildable' = Buildable /\ Arguments' = Arguments
          /\ RequestValues' = RequestValues /\ Configured' = Configured
      BY <3>1 DEF Flat, Buildable, ArgsBound, Arguments, RequestValues, Configured, ValuesAccepted,
                  FlagsAccepted, FlagArgs, FlagValues, CommandValues, Files, Resolved,
                  Params, Defaults, Coerced, Accepted
    <3>3. Buildable /\ argv' = Arguments
      BY <2>4 DEF Build, Arguments
    <3>4. QED
      BY <3>1, <3>2, <3>3 DEF IInv, Ran
  <2>5. CASE Render
    <3>1. UNCHANGED <<endpoint, request, flag_values, overrides, argv>> /\ phase = "built" /\ phase' = "rendered"
      BY <2>5 DEF Render
    <3>2. /\ Flat' = Flat /\ Buildable' = Buildable /\ Arguments' = Arguments
          /\ RequestValues' = RequestValues /\ Configured' = Configured
      BY <3>1 DEF Flat, Buildable, ArgsBound, Arguments, RequestValues, Configured, ValuesAccepted,
                  FlagsAccepted, FlagArgs, FlagValues, CommandValues, Files, Resolved,
                  Params, Defaults, Coerced, Accepted
    <3>3. bag' = RequestValues
      BY <2>5 DEF Render
    <3>4. QED
      BY <3>1, <3>2, <3>3 DEF IInv, Ran
  <2>6. CASE UNCHANGED vars
    <3>1. /\ Flat' = Flat /\ Buildable' = Buildable /\ Arguments' = Arguments
          /\ RequestValues' = RequestValues /\ Configured' = Configured
      BY <2>6 DEF Flat, Buildable, ArgsBound, Arguments, RequestValues, Configured, ValuesAccepted,
                  FlagsAccepted, FlagArgs, FlagValues, CommandValues, Files, Resolved,
                  Params, Defaults, Coerced, Accepted, vars
    <3>2. QED
      BY <2>6, <3>1 DEF IInv, Ran, vars
  <2>7. QED
    BY <2>1, <2>2, <2>3, <2>4, <2>5, <2>6 DEF Next, Answered
<1>3. QED
  BY <1>1, <1>2, PTL DEF Spec

(* Every value keeps the type of its variable, through every merge and     *)
(* check.                                                                  *)
THEOREM TypeCorrect == Spec => []TypeOK
<1>1. IInv => TypeOK
  <2> SUFFICES ASSUME IInv
               PROVE  TypeOK
    OBVIOUS
  <2>1. Nothing \in Partial(Names, Values)
    BY NothingPartial
  <2>2. flag_values \in Partial(Names, Values) /\ overrides \in Partial(Names, Values)
    BY <2>1, SourcesTyped DEF IInv
  <2>3. /\ RequestValues \in Partial(Names, Values)
        /\ FlagArgs \in Partial(Names, Values)
        /\ Only(CommandValues, endpoint.args) \in Partial(Names, Values)
    BY <2>2, ValuesTyped, OnlyPartial DEF IInv
  <2>4. bag \in Partial(Names, Values)
    BY <2>1, <2>3 DEF IInv
  <2>5. request.extra \in BOOLEAN
    BY DEF IInv, Configured, RequestsTo
  <2>6. /\ argv.args \in Partial(Names, Values) /\ argv.flags \in Partial(Names, Values)
        /\ argv.extra \in BOOLEAN
    <3>1. CASE argv = NoArguments
      BY <3>1, <2>1 DEF NoArguments
    <3>2. CASE argv = Arguments
      BY <3>2, <2>3, <2>5 DEF Arguments
    <3>3. QED
      BY <3>1, <3>2 DEF IInv
  <2>7. QED
    BY <2>2, <2>4, <2>6 DEF TypeOK, IInv, Configured
<1>2. QED
  BY <1>1, IInvHolds, PTL

(* Whatever the endpoint declares and the client sends, no text of the     *)
(* client that fails the check of its name reaches the command, and a      *)
(* request with an undeclared field runs none.                             *)
THEOREM CommandIsVetted == Spec => []OnlyVettedTexts
<1>1. IInv => OnlyVettedTexts
  <2> SUFFICES ASSUME IInv, Ran
               PROVE  OnlyVettedTexts
    BY DEF OnlyVettedTexts
  <2>1. /\ Configured /\ flag_values = Flat /\ overrides = From("overrides", request.override)
        /\ Buildable /\ argv = Arguments
    BY DEF IInv, Ran
  <2>2. ValuesAccepted /\ FlagsAccepted /\ (request.extra => endpoint.extra)
    BY <2>1 DEF Buildable
  <2>3. ASSUME NEW n \in DOMAIN argv.args, argv.args[n].text = "wrong"
        PROVE  argv.args[n].from = "default" \/ n \notin endpoint.validated
    <3>1. n \in DOMAIN CommandValues /\ argv.args[n] = CommandValues[n]
      BY <2>1, <2>3 DEF Arguments, Only
    <3>2. QED
      BY <3>1, <2>1, <2>2, <2>3, WrongIsDefault
  <2>4. ASSUME NEW n \in DOMAIN argv.flags
        PROVE  argv.flags[n].text # "wrong"
    BY <2>1, <2>2, <2>4, FlagsShown DEF Arguments
  <2>5. DOMAIN request.override \subseteq endpoint.allowed
    BY <2>1, <2>2 DEF ValuesAccepted, From
  <2>6. DOMAIN request.body \cup DOMAIN request.query \subseteq endpoint.flags \cup endpoint.allowed
    BY <2>1, <2>2, WhoseValue DEF FlagsAccepted
  <2>7. argv.extra => endpoint.extra
    BY <2>1, <2>2 DEF Arguments
  <2>8. QED
    BY <2>3, <2>4, <2>5, <2>6, <2>7 DEF OnlyVettedTexts
<1>2. QED
  BY <1>1, IInvHolds, PTL

(* Whatever sources offer a placeholder a value, it gets the strongest     *)
(* one's.                                                                  *)
THEOREM MergesKeepRanking == Spec => []StrongestSourceWins
<1>1. IInv => StrongestSourceWins
  <2> SUFFICES ASSUME IInv, Ran, NEW n \in endpoint.args
               PROVE  \E i \in DOMAIN Ranking(n) :
                        /\ Ranking(n)[i].offered
                        /\ argv.args[n].from = Ranking(n)[i].from
                        /\ \A j \in DOMAIN Ranking(n) : Ranking(n)[j].offered => i <= j
    BY DEF StrongestSourceWins
  <2>1. /\ Configured /\ flag_values = Flat /\ overrides = From("overrides", request.override)
        /\ Buildable /\ argv = Arguments
    BY DEF IInv, Ran
  <2> DEFINE v == CommandValues[n]
  <2>2. n \in DOMAIN CommandValues /\ argv.args[n] = v
    BY <2>1 DEF Buildable, ArgsBound, Arguments, Only
  <2>3. DOMAIN Ranking(n) = 1..6
    BY DEF Ranking
  <2>4. /\ n \in DOMAIN Files => v.from = "file"
        /\ n \notin DOMAIN Files => n \in DOMAIN RequestValues /\ v = RequestValues[n]
        /\ DOMAIN Files = endpoint.uploads \cup endpoint.outputs
    BY <2>2 DEF CommandValues, Over, Files, Value
  <2> HIDE DEF v
  <2>5. CASE Ranking(n)[1].offered
    <3>1. v.from = Ranking(n)[1].from
      BY <2>4, <2>5 DEF Ranking
    <3>2. QED
      BY <2>2, <2>3, <2>5, <3>1
  <2>6. CASE ~Ranking(n)[1].offered
    <3>1. n \in DOMAIN RequestValues /\ v = RequestValues[n]
      BY <2>4, <2>6 DEF Ranking
    <3>2. \/ n \in endpoint.params /\ v.from = "url"
          \/ /\ n \notin endpoint.params /\ n \in DOMAIN request.override
             /\ v.from = "overrides"
          \/ /\ n \notin endpoint.params /\ n \notin DOMAIN request.override
             /\ n \in DOMAIN request.body \cap endpoint.allowed /\ v.from = "body"
          \/ /\ n \notin endpoint.params /\ n \notin DOMAIN request.override
             /\ n \notin DOMAIN request.body \cap endpoint.allowed
             /\ n \in DOMAIN request.query \cap endpoint.allowed /\ v.from = "query"
          \/ /\ n \notin endpoint.params /\ n \notin DOMAIN request.override
             /\ n \notin DOMAIN request.body \cap endpoint.allowed
             /\ n \notin DOMAIN request.query \cap endpoint.allowed
             /\ n \in DOMAIN endpoint.defaults /\ v.from = "default"
      BY <2>1, <3>1, WhoseValue, WhoseRequestValue
    <3>3. /\ Ranking(n)[2].offered <=> n \in endpoint.params
          /\ Ranking(n)[2].from = "url"
          /\ Ranking(n)[3].offered <=> n \in DOMAIN request.override
          /\ Ranking(n)[3].from = "overrides"
          /\ Ranking(n)[4].offered <=> n \in DOMAIN request.body \cap endpoint.allowed
          /\ Ranking(n)[4].from = "body"
          /\ Ranking(n)[5].offered <=> n \in DOMAIN request.query \cap endpoint.allowed
          /\ Ranking(n)[5].from = "query"
          /\ Ranking(n)[6].offered <=> n \in DOMAIN endpoint.defaults
          /\ Ranking(n)[6].from = "default"
      BY DEF Ranking
    <3> HIDE DEF Ranking
    <3>4. PICK i \in 2..6 : /\ Ranking(n)[i].offered
                           /\ v.from = Ranking(n)[i].from
                           /\ \A j \in 2..6 : Ranking(n)[j].offered => i <= j
      <4>1. CASE n \in endpoint.params /\ v.from = "url"
        <5>1. \A j \in 2..6 : 2 <= j
          OBVIOUS
        <5>2. QED
          BY <4>1, <5>1, <3>3
      <4>2. CASE /\ n \notin endpoint.params /\ n \in DOMAIN request.override
                 /\ v.from = "overrides"
        <5>1. \A j \in 2..6 : Ranking(n)[j].offered => 3 <= j
          BY <4>2, <3>3
        <5>2. QED
          BY <4>2, <5>1, <3>3
      <4>3. CASE /\ n \notin endpoint.params /\ n \notin DOMAIN request.override
                 /\ n \in DOMAIN request.body \cap endpoint.allowed /\ v.from = "body"
        <5>1. \A j \in 2..6 : Ranking(n)[j].offered => 4 <= j
          BY <4>3, <3>3
        <5>2. QED
          BY <4>3, <5>1, <3>3
      <4>4. CASE /\ n \notin endpoint.params /\ n \notin DOMAIN request.override
                 /\ n \notin DOMAIN request.body \cap endpoint.allowed
                 /\ n \in DOMAIN request.query \cap endpoint.allowed /\ v.from = "query"
        <5>1. \A j \in 2..6 : Ranking(n)[j].offered => 5 <= j
          BY <4>4, <3>3
        <5>2. QED
          BY <4>4, <5>1, <3>3
      <4>5. CASE /\ n \notin endpoint.params /\ n \notin DOMAIN request.override
                 /\ n \notin DOMAIN request.body \cap endpoint.allowed
                 /\ n \notin DOMAIN request.query \cap endpoint.allowed
                 /\ n \in DOMAIN endpoint.defaults /\ v.from = "default"
        <5>1. \A j \in 2..6 : Ranking(n)[j].offered => 6 <= j
          BY <4>5, <3>3
        <5>2. QED
          BY <4>5, <5>1, <3>3
      <4>6. QED
        BY <3>2, <4>1, <4>2, <4>3, <4>4, <4>5
    <3>5. \A j \in 1..6 : Ranking(n)[j].offered => i <= j
      <4> SUFFICES ASSUME NEW j \in 1..6, Ranking(n)[j].offered
                   PROVE  i <= j
        OBVIOUS
      <4>1. j # 1
        BY <2>6
      <4>2. QED
        BY <3>4, <4>1
    <3>6. QED
      BY <2>2, <2>3, <3>4, <3>5
  <2>7. QED
    BY <2>5, <2>6
<1>2. QED
  BY <1>1, IInvHolds, PTL

(* Whatever a flag's default is, what the client says of the flag, false   *)
(* included, is what the command gets.                                     *)
THEOREM ClientFlagsKept == Spec => []ClientFlagsWin
<1>1. IInv => ClientFlagsWin
  <2> SUFFICES ASSUME IInv, Ran,
                      NEW n \in DOMAIN argv.flags,
                      n \in DOMAIN request.body \cup DOMAIN request.query
               PROVE  argv.flags[n].from # "default"
    BY DEF ClientFlagsWin
  <2>1. /\ Configured /\ flag_values = Flat /\ overrides = From("overrides", request.override)
        /\ Buildable /\ argv = Arguments
    BY DEF IInv, Ran
  <2>2. n \in DOMAIN Flat /\ FlagsAccepted /\ argv.flags = FlagArgs
    BY <2>1, WhoseValue DEF Buildable, Arguments
  <2>3. QED
    BY <2>1, <2>2, FlagsShown
<1>2. QED
  BY <1>1, IInvHolds, PTL
=============================================================================
