------------------------------- MODULE MCAudit -------------------------------
(* Scripts for the runs of Audit: effects and host calls that a slice, the  *)
(* queue or the sink can interrupt, and every way a script can end.  The    *)
(* second run finds whatever the first one left in the context.             *)
EXTENDS Audit

TwoRuns == <<{<<"work", "call">>, <<"call", "work", "work">>,
              <<"work", "fail">>, <<"work", "exit">>, <<"work", "panic">>,
              <<"nolink">>},
             {<<"work">>}>>

=============================================================================
