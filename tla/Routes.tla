------------------------------- MODULE Routes -------------------------------
(***************************************************************************)
(* config.py and create_app: from the endpoints a YAML file lists to the   *)
(* table of routes, and to the route that answers a request.               *)
(*                                                                         *)
(* A path, and a root or route as the YAML spells it, is the sequence of   *)
(* what its slashes separate: the spelling "/x/" is <<"", "x", "">>, and   *)
(* the path "/x" is <<"x">>, without the empty text before its first slash.*)
(***************************************************************************)
EXTENDS Integers, SequencesExt

CONSTANTS Roots,        \* spellings of default_root and of endpoint roots
          Spellings,    \* spellings of routes
          Parameters,   \* the segments that are "{name}"
          Infra,        \* the paths of the service's own routes
          Texts,        \* what stands in a URL in place of a parameter
          MaxEndpoints  \* bound on the endpoints of a configuration

VARIABLES config,  \* AppConfig
          phase,   \* "loading", "registering", "serving", or a refusal:
                   \* "invalid" (a validator), "failed" (in create_app)
          table    \* app.routes

vars == <<config, phase, table>>

(* A segment "{name}" is not empty, nor is what a client puts in its place;*)
(* the service's own paths, from "/" to "/docs/oauth2-redirect", are a few *)
(* and have two segments at most.                                          *)
ASSUME RoutesAssumption ==
  /\ MaxEndpoints \in Nat
  /\ Roots \cup Spellings \subseteq Seq(STRING)
  /\ "" \notin Parameters \cup Texts
  /\ Texts \subseteq STRING
  /\ IsFiniteSet(Infra)
  /\ \A path \in Infra : path \in Seq(STRING) /\ Len(path) <= 2

-----------------------------------------------------------------------------
(* Paths.                                                                  *)

Named(spelling) == {i \in DOMAIN spelling : spelling[i] # ""}

(* strip("/")                                                              *)
Strip(spelling) ==
  IF Named(spelling) = {} THEN <<"">>
  ELSE SubSeq(spelling, Min(Named(spelling)), Max(Named(spelling)))

(* rstrip("/"): the text before a first slash is empty.                    *)
StripEnd(path) == SubSeq(path, 1, Max(Named(path) \cup {0}))

Unset == <<>>    \* an endpoint without a root of its own

Root(c, e) == IF e.root = Unset THEN c.root ELSE e.root

(* normalize_root: only "" and "/" mean that there is none.                *)
NormalRoot(root) == IF root \in {<<"">>, <<"", "">>} THEN <<>> ELSE Strip(root)

(* build_full_path                                                         *)
FullPath(c, e) == NormalRoot(Root(c, e)) \o Strip(e.route)

DownloadTail == <<"downloads", "{output_placeholder}", "{filename}">>

(* Mutation: the path of the endpoint is left out.                         *)
DownloadPath_flat(path, tail) == tail

(* build_output_download_path                                              *)
DownloadPath(path, tail) == StripEnd(path) \o tail

AllParameters == Parameters \cup ToSet(Tail(DownloadTail))

HasParameters(path) == ToSet(path) \cap AllParameters # {}

-----------------------------------------------------------------------------
Methods == {"GET", "POST"}

Endpoints ==
  [name : 1..MaxEndpoints, method : Methods, root : Roots \cup {Unset},
   route : Spellings, output_files : BOOLEAN]

Route(kind, owner, method, path) ==
  [kind |-> kind, owner |-> owner, method |-> method, path |-> path]

(* Mutation: the routes answer HEAD.                                       *)
InfraRoutes_head == SetToSeq({Route("infra", 0, "HEAD", path) : path \in Infra})

(* The documentation, liveness, readiness and metrics routes.              *)
InfraRoutes == SetToSeq({Route("infra", 0, "GET", path) : path \in Infra})

Init ==
  /\ config \in [root : Roots, endpoints : TupleOf(Endpoints, MaxEndpoints)]
  /\ phase = "loading"
  /\ table = <<>>

-----------------------------------------------------------------------------
(* AppConfig.validate_unique_routes                                        *)

(* Mutation: the routes are compared as they are spelled.                  *)
RouteKey_spelled(e) == <<e.method, Root(config, e), e.route>>

RouteKey(e) == <<e.method, FullPath(config, e)>>

Unique ==
  \A i, j \in DOMAIN config.endpoints : i # j =>
    /\ config.endpoints[i].name # config.endpoints[j].name
    /\ RouteKey(config.endpoints[i]) # RouteKey(config.endpoints[j])

Reject ==
  /\ phase = "loading"
  /\ ~Unique
  /\ phase' = "invalid"
  /\ UNCHANGED <<config, table>>

(* create_app up to its loop over the endpoints                            *)
Load ==
  /\ phase = "loading"
  /\ Unique
  /\ table' = InfraRoutes
  /\ phase' = "registering"
  /\ UNCHANGED config

-----------------------------------------------------------------------------
(* register_endpoint, in the order of the configuration                    *)

Registered == {table[i].owner : i \in DOMAIN table} \ {0}

NextEndpoint == Cardinality(Registered) + 1

(* The endpoint's own route comes after its download route.                *)
RoutesOf(i) ==
  LET e    == config.endpoints[i]
      path == FullPath(config, e)
  IN  (IF e.output_files
       THEN <<Route("download", i, "GET", DownloadPath(path, DownloadTail))>>
       ELSE <<>>)
        \o <<Route("endpoint", i, e.method, path)>>

(* Starlette refuses a path that names a parameter twice.                  *)
Compilable(path) ==
  \A i, j \in DOMAIN path : path[i] = path[j] /\ path[i] \in AllParameters => i = j

Pending == phase = "registering" /\ NextEndpoint <= Len(config.endpoints)

(* Mutation: the routes of an endpoint are put in front of the others.     *)
Register_inFront ==
  /\ Pending
  /\ \A route \in ToSet(RoutesOf(NextEndpoint)) : Compilable(route.path)
  /\ table' = RoutesOf(NextEndpoint) \o table
  /\ UNCHANGED <<config, phase>>

Register ==
  /\ Pending
  /\ \A route \in ToSet(RoutesOf(NextEndpoint)) : Compilable(route.path)
  /\ table' = table \o RoutesOf(NextEndpoint)
  /\ UNCHANGED <<config, phase>>

RegisterFails ==
  /\ Pending
  /\ \E route \in ToSet(RoutesOf(NextEndpoint)) : ~Compilable(route.path)
  /\ phase' = "failed"
  /\ UNCHANGED <<config, table>>

Serve ==
  /\ phase = "registering"
  /\ ~Pending
  /\ phase' = "serving"
  /\ UNCHANGED <<config, table>>

Booted == phase \in {"invalid", "failed", "serving"} /\ UNCHANGED vars

Next == Reject \/ Load \/ Register \/ RegisterFails \/ Serve \/ Booted

Spec == Init /\ [][Next]_vars

-----------------------------------------------------------------------------
(* Starlette's router: the first route of the method whose pattern fits.   *)

Fits(pattern, path) ==
  /\ Len(pattern) = Len(path)
  /\ \A i \in DOMAIN path :
       IF pattern[i] \in AllParameters THEN path[i] # "" ELSE path[i] = pattern[i]

Fitting(method, path) ==
  {i \in DOMAIN table : table[i].method = method /\ Fits(table[i].path, path)}

Answers(i, method, path) ==
  i \in Fitting(method, path) /\ \A j \in Fitting(method, path) : i <= j

(* The part of a download path that its endpoint gives it.                 *)
BasePath(i) == StripEnd(FullPath(config, config.endpoints[i]))

(* The URL a client makes of a route.                                      *)
Url(path, text) ==
  [i \in DOMAIN path |-> IF path[i] \in AllParameters THEN text ELSE path[i]]

-----------------------------------------------------------------------------
(* Properties.                                                             *)

(* The types of the variables.                                             *)
TypeOK ==
  /\ phase \in {"loading", "registering", "serving", "invalid", "failed"}
  /\ \A route \in ToSet(table) :
       /\ route.kind \in {"infra", "download", "endpoint"}
       /\ route.owner \in 0..MaxEndpoints
       /\ route.method \in Methods
  /\ Registered \subseteq DOMAIN config.endpoints

(* No configuration takes a probe or /metrics away from the orchestrator.  *)
InfraAnswers ==
  phase = "serving" => \A path \in Infra :
    \E i \in DOMAIN table : table[i].kind = "infra" /\ Answers(i, "GET", path)

(* When the service serves, however roots and routes were spelled, an      *)
(* endpoint without path parameters gets the requests for its path, or an  *)
(* infra route does, or a route with parameters declared before it.        *)
PlainEndpointsReached ==
  phase = "serving" => \A i \in DOMAIN table :
    table[i].kind = "endpoint" /\ ~HasParameters(table[i].path) =>
      \E j \in DOMAIN table :
        /\ Answers(j, table[i].method, table[i].path)
        /\ j = i \/ table[j].kind = "infra" \/ HasParameters(table[j].path)

(* A download URL of an endpoint without path parameters is answered with  *)
(* the files of its own endpoint, save for three collisions that the       *)
(* validator lets pass: an endpoint declared before it on the same path up *)
(* to final slashes (for the other method), one before it whose own path   *)
(* has parameters, and one before it whose path is this very URL.          *)
DownloadsReachOwner ==
  phase = "serving" => \A i \in DOMAIN table : \A text \in Texts :
    table[i].kind = "download" /\ ~HasParameters(BasePath(table[i].owner)) =>
      \E j \in 1..i :
        /\ Answers(j, "GET", Url(table[i].path, text))
        /\ \/ j = i
           \/ BasePath(table[j].owner) = BasePath(table[i].owner)
           \/ HasParameters(BasePath(table[j].owner))
           \/ table[j].path = Url(table[i].path, text)
=============================================================================
