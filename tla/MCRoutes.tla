------------------------------ MODULE MCRoutes ------------------------------
(* Routes for TLC: every kind of spelling, once.                           *)
EXTENDS Routes

(* "", "/", "//", "a/"                                                     *)
MCRoots == {<<"">>, <<"", "">>, <<"", "", "">>, <<"a", "">>}

(* "/", "/a/", "b", "b/downloads/t/t", "metrics", "{p}", "/a/{p}",         *)
(* "{filename}"                                                            *)
MCSpellings ==
  {<<"", "">>, <<"", "a", "">>, <<"b">>, <<"b", "downloads", "t", "t">>, <<"metrics">>,
   <<"{p}">>, <<"", "a", "{p}">>, <<"{filename}">>}

MCParameters == {"{p}", "{filename}"}

MCInfra == {<<"">>, <<"readyz">>, <<"metrics">>}
=============================================================================
