--------------------------- MODULE LoggerHandler ---------------------------
(***************************************************************************)
(* The write path of libs/logger: goroutines log through handlers that     *)
(* share one io.Writer (handler.go), a request logs a last line when its   *)
(* handler returns (middleware.go).                                        *)
(*                                                                         *)
(* WithAttrs and WithGroup return a handler with a mutex of its own.  A    *)
(* request derives its handlers from the logger in its context, so their   *)
(* mutexes are private to it; a handler in Shared is used by all.          *)
(***************************************************************************)
CONSTANTS
    Goroutines,
    Shared,         \* handlers that several goroutines log through
    Derives,        \* requests derive handlers: ChiMiddleware is in place
    WriterLocks,    \* Write excludes other Writes, as that of os.File does
    None

ASSUME ConfigurationAssumption == Derives \in BOOLEAN /\ WriterLocks \in BOOLEAN
ASSUME HandlersAssumption ==
    Goroutines \cap Shared = {} /\ None \notin Goroutines \cup Shared

VARIABLES
    pc,        \* pc[g]: where goroutine g is
    using,     \* using[g]: the handler of g's call to Handle, None outside
    closing,   \* closing[g]: the line is the request's, its last one
    mutex,     \* mutex[h]: the goroutine that holds handler h's mutex
    writer,    \* the goroutine inside a Write that excludes others
    output     \* whose piece of a line the io.Writer received last, None when
               \* that piece ended its line

vars == <<pc, using, closing, mutex, writer, output>>

\* The handler derived by g's current call is named g.
Handlers == Shared \cup Goroutines

HandlersOf(g) == IF Derives THEN Shared \cup {g} ELSE Shared

PCs == {"idle", "handling", "record", "lock", "write", "head", "unlock"}

TypeOK ==
    /\ pc \in [Goroutines -> PCs]
    /\ using \in [Goroutines -> Handlers \cup {None}]
    /\ closing \in [Goroutines -> BOOLEAN]
    /\ mutex \in [Handlers -> Goroutines \cup {None}]
    /\ writer \in Goroutines \cup {None}
    /\ output \in Goroutines \cup {None}

Init ==
    /\ pc = [g \in Goroutines |-> "idle"]
    /\ using = [g \in Goroutines |-> None]
    /\ closing = [g \in Goroutines |-> FALSE]
    /\ mutex = [h \in Handlers |-> None]
    /\ writer = None
    /\ output = None

Goto(g, here, there) == pc[g] = here /\ pc' = [pc EXCEPT ![g] = there]

-----------------------------------------------------------------------------
(* Requests: ChiMiddleware.                                                *)

Begin(g) ==
    /\ Goto(g, "idle", "handling")
    /\ closing' = [closing EXCEPT ![g] = FALSE]
    /\ UNCHANGED <<using, mutex, writer, output>>

\* A call of Info, Warn, ...: Handle on one of g's handlers.
Log(g) ==
    /\ Goto(g, "handling", "record")
    /\ \E h \in HandlersOf(g) : using' = [using EXCEPT ![g] = h]
    /\ UNCHANGED <<closing, mutex, writer, output>>

\* next.ServeHTTP has returned: one more line, through Logger(ctx).WithGroup.
LogRequest(g) ==
    /\ Derives
    /\ Goto(g, "handling", "record")
    /\ using' = [using EXCEPT ![g] = g]
    /\ closing' = [closing EXCEPT ![g] = TRUE]
    /\ UNCHANGED <<mutex, writer, output>>

\* The request ends without that line: there is no ChiMiddleware, or its
\* handler panics, which skips the statements after ServeHTTP.
EndSilently(g) ==
    /\ Goto(g, "handling", "idle")
    /\ UNCHANGED <<using, closing, mutex, writer, output>>

-----------------------------------------------------------------------------
(* colorJSONHandler.Handle.  slog ignores the error that it returns.       *)

Return(g) ==
    /\ pc' = [pc EXCEPT ![g] = IF closing[g] THEN "idle" ELSE "handling"]
    /\ using' = [using EXCEPT ![g] = None]

\* The level is below minLevel, or json.Marshal fails: Handle returns before
\* the mutex and nothing is written.
WriteNothing(g) ==
    /\ pc[g] = "record"
    /\ Return(g)
    /\ UNCHANGED <<closing, mutex, writer, output>>

\* The line is rendered.
Marshal(g) ==
    /\ Goto(g, "record", "lock")
    /\ UNCHANGED <<using, closing, mutex, writer, output>>

\* Mutant: the line is written without taking the mutex.
LockNothing(g) ==
    /\ Goto(g, "lock", "write")
    /\ UNCHANGED <<using, closing, mutex, writer, output>>

Lock(g) ==
    /\ Goto(g, "lock", "write")
    /\ mutex[using[g]] = None
    /\ mutex' = [mutex EXCEPT ![using[g]] = g]
    /\ UNCHANGED <<using, closing, writer, output>>

\* Mutant: the line and its end are two calls of Write.
WriteTwice(g) ==
    /\ Goto(g, "write", "head")
    /\ WriterLocks => writer = None
    /\ output' = g
    /\ UNCHANGED <<using, closing, mutex, writer>>

\* h.w.Write begins: two pieces stand for any number.  A writer like os.File
\* lets no other Write in before it is done.
WriteHead(g) ==
    /\ Goto(g, "write", "head")
    /\ WriterLocks => writer = None
    /\ writer' = IF WriterLocks THEN g ELSE writer
    /\ output' = g
    /\ UNCHANGED <<using, closing, mutex>>

WriterReleased(g) == IF writer = g THEN None ELSE writer

WriteTail(g) ==
    /\ Goto(g, "head", "unlock")
    /\ output' = None
    /\ writer' = WriterReleased(g)
    /\ UNCHANGED <<using, closing, mutex>>

\* Write returns an error after part of the line.
WriteFails(g) ==
    /\ Goto(g, "head", "unlock")
    /\ writer' = WriterReleased(g)
    /\ UNCHANGED <<using, closing, mutex, output>>

\* Mutant: Handle returns with the mutex locked.
KeepLocked(g) == UNCHANGED mutex

ReleaseMutex(g) == mutex' = [mutex EXCEPT ![using[g]] = None]

\* The deferred Unlock.
Unlock(g) ==
    /\ pc[g] = "unlock"
    /\ ReleaseMutex(g)
    /\ Return(g)
    /\ UNCHANGED <<closing, writer, output>>

Handle(g) ==
    \/ WriteNothing(g) \/ Marshal(g) \/ Lock(g)
    \/ WriteHead(g) \/ WriteTail(g) \/ WriteFails(g)
    \/ Unlock(g)

Next ==
    \E g \in Goroutines :
        Begin(g) \/ Log(g) \/ LogRequest(g) \/ EndSilently(g) \/ Handle(g)

Spec == Init /\ [][Next]_vars

\* The scheduler runs every goroutine that can run; a Go mutex is handed to a
\* goroutine that has waited too long (starvation mode), and so is the lock
\* inside os.File.
Fairness ==
    \A g \in Goroutines : /\ WF_vars(Handle(g))
                          /\ SF_vars(Lock(g))
                          /\ SF_vars(WriteHead(g))

FairSpec == Spec /\ Fairness

-----------------------------------------------------------------------------
(* Properties.                                                             *)

\* handler.go: "writes guarded by mutex to keep each line atomic": while a
\* goroutine is in the middle of its line, no piece of another line follows.
LinesUnbroken == \A g \in Goroutines : pc[g] = "head" => output = g

Critical(g) == pc[g] \in {"write", "head", "unlock"}

\* Two goroutines are never inside the critical section of the same handler,
\* nor is a mutex held by a goroutine outside it: not after a failed write, and
\* not between two requests of one goroutine.
HandlersExclude ==
    \A h \in Handlers : \A g \in Goroutines :
        mutex[h] = g <=> Critical(g) /\ using[g] = h

\* A goroutine that logs goes on, whoever else logs through its handler and
\* whatever writes fail.
LoggingReturns ==
    \A g \in Goroutines :
        pc[g] \in {"record", "lock", "write", "head", "unlock"} ~>
            pc[g] \in {"idle", "handling"}

=============================================================================
