--------------------------- MODULE DefaultLogger ---------------------------
(***************************************************************************)
(* The package global of libs/logger (logger.go): New assigns it, Default  *)
(* returns it and creates a fallback, once, if there is none.  Each        *)
(* goroutine makes one call; a logger is named by the goroutine whose call *)
(* created it.                                                             *)
(***************************************************************************)
CONSTANTS
    Goroutines,
    Configurers,    \* the goroutines that call New; the others call Default
    MainFirst,      \* main has called New before any goroutine calls Default
    None

VARIABLES
    pc,              \* pc[g]: where g is in its call
    defaultLogger,
    defaultOnce,     \* "new", "running" or "done"
    got,             \* got[g]: the logger that g's call returned
    latest           \* the logger of the last call of New by a configurer

vars == <<pc, defaultLogger, defaultOnce, got, latest>>

Init ==
    /\ pc = [g \in Goroutines |-> "call"]
    /\ defaultLogger = None
    /\ defaultOnce = "new"
    /\ got = [g \in Goroutines |-> None]
    /\ latest = None

Goto(g, here, there) == pc[g] = here /\ pc' = [pc EXCEPT ![g] = there]

\* New: the assignment is visible before the call returns.
New(g) ==
    /\ Goto(g, "call", "returned")
    /\ g \in Configurers
    /\ defaultLogger' = g
    /\ got' = [got EXCEPT ![g] = g]
    /\ latest' = g
    /\ UNCHANGED defaultOnce

Started == MainFirst => \A m \in Configurers : pc[m] = "returned"

\* Mutant: no sync.Once; every caller checks for itself.
CheckUnguarded(g) ==
    /\ Goto(g, "call", "check")
    /\ g \notin Configurers /\ Started
    /\ UNCHANGED <<defaultLogger, defaultOnce, got, latest>>

\* defaultOnce.Do: the first caller runs the function; while it does, the
\* others wait; afterwards they pass.
EnterOnce(g) ==
    /\ g \notin Configurers /\ Started
    /\ \/ /\ defaultOnce = "new"
          /\ defaultOnce' = "running"
          /\ Goto(g, "call", "check")
       \/ /\ defaultOnce = "done"
          /\ Goto(g, "call", "read")
          /\ UNCHANGED defaultOnce
    /\ UNCHANGED <<defaultLogger, got, latest>>

\* Mutant: the function does not look whether New has been called.
AlwaysUnset == TRUE

Unset == defaultLogger = None

Check(g) ==
    /\ Goto(g, "check", IF Unset THEN "create" ELSE "leave")
    /\ UNCHANGED <<defaultLogger, defaultOnce, got, latest>>

\* The New of the fallback assigns the global ...
Create(g) ==
    /\ Goto(g, "create", "assign")
    /\ defaultLogger' = g
    /\ UNCHANGED <<defaultOnce, got, latest>>

\* ... and so does Default with what New returned.
Assign(g) ==
    /\ Goto(g, "assign", "leave")
    /\ defaultLogger' = g
    /\ UNCHANGED <<defaultOnce, got, latest>>

LeaveOnce(g) ==
    /\ Goto(g, "leave", "read")
    /\ defaultOnce' = "done"
    /\ UNCHANGED <<defaultLogger, got, latest>>

Read(g) ==
    /\ Goto(g, "read", "returned")
    /\ got' = [got EXCEPT ![g] = defaultLogger]
    /\ UNCHANGED <<defaultLogger, defaultOnce, latest>>

Next ==
    \E g \in Goroutines :
        \/ New(g) \/ EnterOnce(g)
        \/ Check(g) \/ Create(g) \/ Assign(g) \/ LeaveOnce(g) \/ Read(g)

Spec == Init /\ [][Next]_vars

-----------------------------------------------------------------------------
(* Properties.                                                             *)

\* README.md of logger: "Calling `logger.New()` also sets / updates the package
\* global returned by `logger.Default()`": a call that is about to return the
\* global returns the logger of the last New.
DefaultIsLatest ==
    \A g \in Goroutines :
        pc[g] = "read" /\ latest # None => defaultLogger = latest

\* Without a New all callers share one fallback, and none gets nil.
FallbackShared ==
    \A g, h \in Goroutines :
        pc[g] = "returned" /\ pc[h] = "returned" => got[g] = got[h] /\ got[g] # None

=============================================================================
