------------------------------- MODULE Gather -------------------------------
(***************************************************************************)
(* What one collection promises its caller, with goroutines, channels and  *)
(* time left out: MetricSource.Collect (pkg/sources/interfaces.go) as      *)
(* sourceManager implements it (pkg/sources/manager.go).                   *)
(*                                                                         *)
(* A collection lists the sources, scrapes every one of them once, and     *)
(* returns the batches of all the sources that produced one, whole or      *)
(* partial, together with an error for each that was not fully scraped.    *)
(* A batch is named by the source it came from.                            *)
(***************************************************************************)
EXTENDS SequencesExt

CONSTANT Sources

VARIABLES
    phase,      \* "idle", "gathering" or "returned"
    listed,     \* the sources the provider listed
    provErr,    \* did the provider report an error as well?
    scraped,    \* how the scrape of each listed source ended
    res,        \* the batches of the result, in order of arrival
    errs        \* the sources an error is returned for

vars == <<phase, listed, provErr, scraped, res, errs>>

\* A source answers with a batch and no error, a batch and an error, or no
\* batch and an error.
Outcomes == {"full", "partial", "failed"}

\* The sources that produced a batch, and those that produced an error.
WithBatch(o) == {s \in DOMAIN o : o[s] # "failed"}
WithError(o) == {s \in DOMAIN o : o[s] # "full"}

Init ==
    /\ phase = "idle"
    /\ listed = {}
    /\ provErr = FALSE
    /\ scraped = <<>>
    /\ res = <<>>
    /\ errs = {}

\* The provider lists some sources and may report an error besides.
List ==
    /\ phase = "idle"
    /\ phase' = "gathering"
    /\ listed' \in SUBSET Sources
    /\ provErr' \in BOOLEAN
    /\ UNCHANGED <<scraped, res, errs>>

\* Every listed source ends one way or another, and all of it is returned.
Return ==
    /\ phase = "gathering"
    /\ phase' = "returned"
    /\ scraped' \in [listed -> Outcomes]
    /\ res' \in SetToSeqs(WithBatch(scraped'))
    /\ errs' = WithError(scraped')
    /\ UNCHANGED <<listed, provErr>>

Next == List \/ Return

Spec == Init /\ [][Next]_vars
=============================================================================
