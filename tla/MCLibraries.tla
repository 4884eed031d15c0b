---------------------------- MODULE MCLibraries ----------------------------
(***************************************************************************)
(* The parts in Libraries share no state, so a behaviour is one of one     *)
(* part, chosen at the start, while the others stay as they are.           *)
(***************************************************************************)
EXTENDS Libraries

VARIABLE part

attributesVars == <<arrays, handlers, given>>
defaultVars == <<callPc, defaultLogger, defaultOnce, got, latest>>
answersVars == <<requestPc, answer, seen, sent, body, logged>>

MCInit ==
    /\ part \in {"stderr", "plain", "attributes", "configured", "fallback", "answers"}
    /\ Init
    /\ Attributes!Init
    /\ Configured!Init
    /\ Answers!Init

MCNext ==
    /\ UNCHANGED part
    /\ \/ /\ part = "stderr" /\ Next
          /\ UNCHANGED <<attributesVars, defaultVars, answersVars>>
       \/ /\ part = "plain" /\ Plain!Next
          /\ UNCHANGED <<attributesVars, defaultVars, answersVars>>
       \/ /\ part = "attributes" /\ Attributes!Next
          /\ UNCHANGED <<vars, defaultVars, answersVars>>
       \/ /\ part = "configured" /\ Configured!Next
          /\ UNCHANGED <<vars, attributesVars, answersVars>>
       \/ /\ part = "fallback" /\ Fallback!Next
          /\ UNCHANGED <<vars, attributesVars, answersVars>>
       \/ /\ part = "answers" /\ Answers!Next
          /\ UNCHANGED <<vars, attributesVars, defaultVars>>

\* Fairness is stated for "stderr" and asks nothing of the parts without a call
\* of Handle.
MCSpec ==
    /\ MCInit
    /\ [][MCNext]_<<part, vars, attributesVars, defaultVars, answersVars>>
    /\ Fairness

\* Calls of the logger return (Handle).
CallsReturn == part = "stderr" => LoggingReturns
=============================================================================
