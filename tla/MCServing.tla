----------------------------- MODULE MCServing ------------------------------
(***************************************************************************)
(* A small instance of Serving: three requests at once, of every kind.     *)
(***************************************************************************)
EXTENDS Serving

MCKinds ==
  {<<"plain", "scrape", "events">>, <<"plain", "plain", "socket">>,
   <<"scrape", "socket", "events">>, <<"preflight", "plain", "events">>}
=============================================================================
