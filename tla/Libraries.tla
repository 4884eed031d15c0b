----------------------------- MODULE Libraries ------------------------------
(***************************************************************************)
(* The models of libs/logger and libs/httpx together, each over variables  *)
(* of its own.                                                             *)
(***************************************************************************)
EXTENDS LoggerHandler, Naturals

CONSTANTS Main, Names, Keys, Values, RecordKeys, MaxHandlers, MaxSpare, Statuses

\* main is one goroutine and the others are those that net/http starts.
ASSUME MainAssumption == Main \notin Goroutines /\ None # Main
ASSUME StatusesAssumption == None \notin Statuses
ASSUME SpareAssumption == MaxSpare \in Nat

VARIABLES
    arrays, handlers, given,                                 \* LogAttributes
    callPc, defaultLogger, defaultOnce, got, latest,         \* DefaultLogger
    requestPc, answer, seen, sent, body, logged              \* HttpAnswers

\* One handler for all over a writer that locks nothing.
Plain == INSTANCE LoggerHandler WITH Derives <- FALSE, WriterLocks <- FALSE

Attributes == INSTANCE LogAttributes

\* main configures the logger before the goroutines ask for it, or nobody does.
Configured == INSTANCE DefaultLogger WITH
    Goroutines <- Goroutines \cup {Main}, Configurers <- {Main},
    MainFirst <- TRUE, pc <- callPc

Fallback == INSTANCE DefaultLogger WITH
    Goroutines <- Goroutines \cup {Main}, Configurers <- {},
    MainFirst <- FALSE, pc <- callPc

Answers == INSTANCE HttpAnswers WITH pc <- requestPc

-----------------------------------------------------------------------------
(* The properties of the instances, each explained in its module; those of *)
(* LoggerHandler are named there.                                          *)

\* A logger keeps what it was derived with (WithAttrs, WithGroup).
DerivationsIndependent == Attributes!DerivationsIndependent

\* A line shows all attributes of its logger and record (Handle, addAttr).
NothingLost == Attributes!NothingLost

\* Default returns main's logger (New, Default).
DefaultIsLatest == Configured!DefaultIsLatest

\* First callers of Default share one fallback (Default).
FallbackShared == Fallback!FallbackShared

\* The logged status is the sent one (ChiMiddleware, WriteJSON).
LoggedAsSent == Answers!LoggedAsSent

\* What httpx.go says of a body that cannot be encoded (WriteJSON).
FailedEncodingSends500 == Answers!FailedEncodingSends500

=============================================================================
