------------------------------- MODULE MCSES -------------------------------
(***************************************************************************)
(* Two senders, one of them without the SDK's retries, and two calls; the  *)
(* table of errors and of Retry-After headers is checked exhaustively.     *)
(***************************************************************************)
EXTENDS SESSender, TLC

CONSTANTS s1, s2, g1, g2, plain, tagged, badTag, foreign, n1, n2, a, b

MCTag(x, y) == [n \in {n1, n2} |-> IF n = n1 THEN x ELSE y]
MCTagsOf == [m \in {plain, tagged, badTag, foreign} |->
  CASE m = tagged -> MCTag(b, "absent")
    [] m = badTag -> MCTag("absent", "bad")
    [] OTHER      -> MCTag("absent", "absent")]
MCConfigs == {MCTag(a, "absent"), MCTag("bad", a)}
MCAttempts == [s \in {s1, s2} |-> IF s = s1 THEN 1 ELSE 2]
MCRefused == {Error(429, "none", FALSE, FALSE), Error(400, "badRequest", TRUE, FALSE)}
MCSymmetry == Permutations({g1, g2})
MCFaults == {Error(503, "none", FALSE, FALSE)}

MCStatuses == {0, 200, 400, 401, 403, 404, 429, 499, 500, 503, 599, 600}
MCValues   == -3..12
=============================================================================
