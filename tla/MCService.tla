----------------------------- MODULE MCService -----------------------------
(* Service for TLC: an app with both limits, and each way for an endpoint  *)
(* to override one, both or none of them; and no limits at all.            *)
EXTENDS Service

Limit(size, rate) == [size |-> size, rate |-> rate]

Unlimited == {Limit(None, None)}

MCAppLimits == {Limit(None, None), Limit(1, 1)}

MCOwnLimits == {Limit(None, None), Limit(2, None), Limit(None, 2)}

MCBounds == <<1>>
=============================================================================
