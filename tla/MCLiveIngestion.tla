--------------------------- MODULE MCLiveIngestion ---------------------------
(* Two vendors and two services.  Each vendor has one of the series, and   *)
(* time goes on for longer than a window, while the fetches for the others *)
(* come and go.                                                            *)
EXTENDS LiveIngestion

MCPolled == {"prometheus", "datadog"}
MCWatched == <<"checkout", "payment">>
MCPublishing == {<<"prometheus", "payment">>, <<"datadog", "checkout">>}

=============================================================================
