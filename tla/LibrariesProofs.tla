-------------------------- MODULE LibrariesProofs ---------------------------
(***************************************************************************)
(* Proofs about the logger and httpx libraries, for any number of          *)
(* goroutines, handlers, derivations and statuses.                         *)
(***************************************************************************)
EXTENDS Libraries, SequenceTheorems, WellFoundedInduction, TLAPS

-----------------------------------------------------------------------------
(* LoggerHandler.                                                          *)

InHandle(g) == pc[g] \in {"record", "lock", "write", "head", "unlock"}

\* A call of Handle runs on a handler.
OnHandler == \A g \in Goroutines : InHandle(g) => using[g] \in HandlersOf(g)

\* The writer's own lock is held through a Write.
WriterHeld == WriterLocks => \A g \in Goroutines : pc[g] = "head" => writer = g

ExclusionInv == TypeOK /\ OnHandler /\ HandlersExclude

LineInv == ExclusionInv /\ WriterHeld /\ LinesUnbroken

-----------------------------------------------------------------------------

\* At the start no mutex is held and nobody is in a critical section.
LEMMA InitExclusion == Init => ExclusionInv
BY HandlersAssumption
   DEF Init, ExclusionInv, TypeOK, OnHandler, HandlersExclude, InHandle,
       Critical, PCs, Handlers

\* Every step of a goroutine keeps the mutexes and the critical sections in
\* agreement.
LEMMA NextExclusion == ExclusionInv /\ [Next]_vars => ExclusionInv'
<1> SUFFICES ASSUME ExclusionInv, [Next]_vars PROVE ExclusionInv'
    OBVIOUS
<1> USE HandlersAssumption
    DEF ExclusionInv, TypeOK, OnHandler, HandlersExclude, InHandle, Critical,
        PCs, HandlersOf, Handlers
<1>1. ASSUME NEW g \in Goroutines, Begin(g) PROVE ExclusionInv'
    BY <1>1 DEF Begin, Goto
<1>2. ASSUME NEW g \in Goroutines, Log(g) PROVE ExclusionInv'
    BY <1>2 DEF Log, Goto
<1>3. ASSUME NEW g \in Goroutines, LogRequest(g) PROVE ExclusionInv'
    BY <1>3 DEF LogRequest, Goto
<1>4. ASSUME NEW g \in Goroutines, EndSilently(g) PROVE ExclusionInv'
    BY <1>4 DEF EndSilently, Goto
<1>5. ASSUME NEW g \in Goroutines, WriteNothing(g) \/ Marshal(g)
      PROVE  ExclusionInv'
    BY <1>5 DEF WriteNothing, Return, Marshal, Goto
<1>6. ASSUME NEW g \in Goroutines, Lock(g) PROVE ExclusionInv'
    BY <1>6 DEF Lock, Goto
<1>7. ASSUME NEW g \in Goroutines, WriteHead(g) PROVE ExclusionInv'
    BY <1>7 DEF WriteHead, Goto
<1>8. ASSUME NEW g \in Goroutines, WriteTail(g) \/ WriteFails(g) PROVE ExclusionInv'
    BY <1>8 DEF WriteTail, WriteFails, WriterReleased, Goto
<1>9. ASSUME NEW g \in Goroutines, Unlock(g) PROVE ExclusionInv'
    BY <1>9 DEF Unlock, ReleaseMutex, Return
<1>10. CASE UNCHANGED vars
    BY <1>10 DEF vars
<1> QED
    BY <1>1, <1>2, <1>3, <1>4, <1>5, <1>6, <1>7, <1>8, <1>9, <1>10
       DEF Next, Handle

\* handler.go, Handle: at most one goroutine is between Lock and Unlock of a
\* handler's mutex, and the mutex is free when none is, whatever writes fail.
THEOREM MutexesExclude == Spec => []HandlersExclude
<1>1. Init => ExclusionInv
    BY InitExclusion
<1>2. ExclusionInv /\ [Next]_vars => ExclusionInv'
    BY NextExclusion
<1>3. ExclusionInv => HandlersExclude
    BY DEF ExclusionInv
<1> QED
    BY <1>1, <1>2, <1>3, PTL DEF Spec

-----------------------------------------------------------------------------
(* What keeps lines whole: a writer that locks, or a single handler.       *)

OneHandler == ~Derives /\ \A g, h \in Shared : g = h

\* Nobody is inside a Write when another goroutine begins one.
LEMMA AloneInWrite ==
    ASSUME WriterLocks \/ OneHandler, LineInv,
           NEW g \in Goroutines, NEW h \in Goroutines,
           WriteHead(g), pc[h] = "head"
    PROVE  FALSE
<1>1. CASE WriterLocks
    BY <1>1, HandlersAssumption DEF LineInv, WriterHeld, WriteHead
<1>2. CASE OneHandler
    <2>1. using[g] = using[h] /\ using[g] \in Handlers
        BY <1>2 DEF OneHandler, LineInv, ExclusionInv, OnHandler, InHandle,
                    HandlersOf, Handlers, WriteHead, Goto
    <2>2. mutex[using[g]] = g /\ mutex[using[h]] = h
        BY <2>1 DEF LineInv, ExclusionInv, HandlersExclude, Critical, WriteHead, Goto
    <2> QED
        BY <2>1, <2>2 DEF WriteHead, Goto
<1> QED
    BY <1>1, <1>2

\* Every step keeps the writer's lock with whom writes, and the lines whole.
LEMMA NextLines ==
    ASSUME WriterLocks \/ OneHandler
    PROVE  LineInv /\ [Next]_vars => LineInv'
<1> SUFFICES ASSUME LineInv, [Next]_vars PROVE LineInv'
    OBVIOUS
<1>0. ExclusionInv'
    BY NextExclusion DEF LineInv
<1> SUFFICES (WriterHeld /\ LinesUnbroken)'
    BY <1>0 DEF LineInv
<1>w. ASSUME NEW g \in Goroutines, WriteHead(g), NEW h \in Goroutines
      PROVE  pc[h] # "head"
    BY <1>w, AloneInWrite
<1> USE HandlersAssumption
    DEF LineInv, ExclusionInv, TypeOK, OnHandler, HandlersExclude, InHandle,
        Critical, PCs, HandlersOf, Handlers, WriterHeld, LinesUnbroken
<1>1. ASSUME NEW g \in Goroutines,
             Begin(g) \/ Log(g) \/ LogRequest(g) \/ EndSilently(g)
      PROVE  (WriterHeld /\ LinesUnbroken)'
    BY <1>1 DEF Begin, Log, LogRequest, EndSilently, Goto
<1>2. ASSUME NEW g \in Goroutines, WriteNothing(g) \/ Marshal(g) \/ Lock(g)
      PROVE  (WriterHeld /\ LinesUnbroken)'
    BY <1>2 DEF WriteNothing, Marshal, Lock, Return, Goto
<1>3. ASSUME NEW g \in Goroutines, WriteHead(g)
      PROVE  (WriterHeld /\ LinesUnbroken)'
    <2>1. \A h \in Goroutines : pc[h] # "head"
        BY ONLY <1>3, <1>w
    <2> QED
        BY <1>3, <2>1 DEF WriteHead, Goto
<1>4. ASSUME NEW g \in Goroutines, WriteTail(g) \/ WriteFails(g)
      PROVE  (WriterHeld /\ LinesUnbroken)'
    <2>1. \A h \in Goroutines : pc[h] = "head" => h = g
        BY <1>4 DEF WriteTail, WriteFails, Goto
    <2> QED
        BY <1>4, <2>1 DEF WriteTail, WriteFails, WriterReleased, Goto
<1>5. ASSUME NEW g \in Goroutines, Unlock(g)
      PROVE  (WriterHeld /\ LinesUnbroken)'
    BY <1>5 DEF Unlock, ReleaseMutex, Return
<1>6. CASE UNCHANGED vars
    BY <1>6 DEF vars
<1> QED
    BY <1>1, <1>2, <1>3, <1>4, <1>5, <1>6 DEF Next, Handle

\* handler.go: a line reaches the writer whole.  Derived handlers lock
\* different mutexes, so that this rests on the writer's lock; a handler that
\* all goroutines share needs none.
THEOREM LinesStayWhole ==
    ASSUME WriterLocks \/ OneHandler
    PROVE  Spec => []LinesUnbroken
<1>1. Init => LineInv
    BY InitExclusion DEF Init, LineInv, WriterHeld, LinesUnbroken
<1>2. LineInv /\ [Next]_vars => LineInv'
    BY NextLines
<1>3. LineInv => LinesUnbroken
    BY DEF LineInv
<1> QED
    BY <1>1, <1>2, <1>3, PTL DEF Spec

-----------------------------------------------------------------------------
(* DefaultLogger.                                                          *)

Callers == Goroutines \cup {Main}

CallTypes ==
    /\ callPc \in [Callers -> {"call", "check", "create", "assign", "leave",
                               "read", "returned"}]
    /\ got \in [Callers -> Callers \cup {None}]

\* Nobody asks before main has configured the logger, and afterwards nobody finds
\* the global unset.
ConfiguredInv ==
    /\ CallTypes
    /\ callPc[Main] \in {"call", "returned"}
    /\ callPc[Main] = "call" =>
          /\ latest = None /\ defaultLogger = None
          /\ \A g \in Goroutines : callPc[g] = "call"
    /\ callPc[Main] = "returned" =>
          /\ latest = Main /\ defaultLogger = Main
          /\ \A g \in Goroutines : callPc[g] \notin {"create", "assign"}

\* Every step keeps it.
LEMMA NextConfigured == ConfiguredInv /\ [Configured!Next]_Configured!vars => ConfiguredInv'
<1> SUFFICES ASSUME ConfiguredInv, [Configured!Next]_Configured!vars PROVE ConfiguredInv'
    OBVIOUS
<1> USE MainAssumption DEF ConfiguredInv, CallTypes, Callers, Configured!Goto
<1>1. ASSUME NEW g \in Callers, Configured!New(g) PROVE ConfiguredInv'
    BY <1>1 DEF Configured!New
<1>2. ASSUME NEW g \in Callers, Configured!EnterOnce(g) PROVE ConfiguredInv'
    BY <1>2 DEF Configured!EnterOnce, Configured!Started
<1>3. ASSUME NEW g \in Callers, Configured!Check(g) PROVE ConfiguredInv'
    BY <1>3 DEF Configured!Check, Configured!Unset
<1>4. ASSUME NEW g \in Callers, Configured!Create(g) \/ Configured!Assign(g)
      PROVE  ConfiguredInv'
    BY <1>4 DEF Configured!Create, Configured!Assign
<1>5. ASSUME NEW g \in Callers, Configured!LeaveOnce(g) PROVE ConfiguredInv'
    BY <1>5 DEF Configured!LeaveOnce
<1>6. ASSUME NEW g \in Callers, Configured!Read(g) PROVE ConfiguredInv'
    BY <1>6 DEF Configured!Read
<1>7. CASE UNCHANGED Configured!vars
    BY <1>7 DEF Configured!vars
<1> QED
    BY <1>1, <1>2, <1>3, <1>4, <1>5, <1>6, <1>7 DEF Configured!Next

\* logger.go: once main has called New, Default returns main's logger to any number
\* of goroutines; the fallback never replaces it.
THEOREM ConfiguredStays == Configured!Spec => []DefaultIsLatest
<1>1. Configured!Init => ConfiguredInv
    BY DEF Configured!Init, ConfiguredInv, CallTypes, Callers
<1>2. ConfiguredInv => DefaultIsLatest
    BY DEF ConfiguredInv, CallTypes, Callers, DefaultIsLatest, Configured!DefaultIsLatest
<1> QED
    BY <1>1, <1>2, NextConfigured, PTL DEF Configured!Spec

Inside(g) == callPc[g] \in {"check", "create", "assign", "leave"}

\* sync.Once: its function runs in one goroutine, once; those who have passed it
\* find a global that no longer changes.
FallbackInv ==
    /\ CallTypes
    /\ defaultOnce \in {"new", "running", "done"}
    /\ defaultOnce = "new" => defaultLogger = None
    /\ defaultOnce = "done" => defaultLogger # None
    /\ \A g \in Callers :
          /\ Inside(g) => defaultOnce = "running"
          /\ callPc[g] \in {"check", "create"} => defaultLogger = None
          /\ callPc[g] \in {"assign", "leave"} => defaultLogger # None
          /\ callPc[g] \in {"read", "returned"} => defaultOnce = "done"
          /\ callPc[g] = "returned" => got[g] = defaultLogger
    /\ \A g, h \in Callers : Inside(g) /\ Inside(h) => g = h
    /\ defaultLogger \in Callers \cup {None}

\* Every step keeps it.
LEMMA NextFallback == FallbackInv /\ [Fallback!Next]_Fallback!vars => FallbackInv'
<1> SUFFICES ASSUME FallbackInv, [Fallback!Next]_Fallback!vars PROVE FallbackInv'
    OBVIOUS
<1> USE DEF FallbackInv, CallTypes, Inside, Fallback!Goto
<1>0. None \notin Callers /\ Callers = Goroutines \cup {Main}
    BY MainAssumption, HandlersAssumption DEF Callers
<1>1. ASSUME NEW g \in Callers, Fallback!New(g) PROVE FallbackInv'
    BY <1>1 DEF Fallback!New
<1>2. ASSUME NEW g \in Callers, Fallback!EnterOnce(g) PROVE FallbackInv'
    BY <1>2 DEF Fallback!EnterOnce
<1>3. ASSUME NEW g \in Callers, Fallback!Check(g) PROVE FallbackInv'
    BY <1>3 DEF Fallback!Check, Fallback!Unset
<1>4. ASSUME NEW g \in Callers, Fallback!Create(g) PROVE FallbackInv'
    BY <1>0, <1>4 DEF Fallback!Create
<1>5. ASSUME NEW g \in Callers, Fallback!Assign(g) PROVE FallbackInv'
    BY <1>0, <1>5 DEF Fallback!Assign
<1>6. ASSUME NEW g \in Callers, Fallback!LeaveOnce(g) PROVE FallbackInv'
    BY <1>6 DEF Fallback!LeaveOnce
<1>7. ASSUME NEW g \in Callers, Fallback!Read(g) PROVE FallbackInv'
    BY <1>7 DEF Fallback!Read
<1>8. CASE UNCHANGED Fallback!vars
    BY <1>8 DEF Fallback!vars
<1> QED
    BY <1>0, <1>1, <1>2, <1>3, <1>4, <1>5, <1>6, <1>7, <1>8 DEF Fallback!Next

\* logger.go: without a New, any number of first callers of Default get the same
\* logger, and none gets nil.
THEOREM FallbackIsShared == Fallback!Spec => []FallbackShared
<1>1. Fallback!Init => FallbackInv
    BY DEF Fallback!Init, FallbackInv, CallTypes, Callers, Inside
<1>2. FallbackInv => FallbackShared
    BY DEF FallbackInv, CallTypes, Callers, FallbackShared, Fallback!FallbackShared
<1> QED
    BY <1>1, <1>2, NextFallback, PTL DEF Fallback!Spec

-----------------------------------------------------------------------------
(* HttpAnswers.                                                            *)

\* http.StatusNoContent
NoContent == 204

Sendable == Statuses \cup {NoContent}

\* The wrapper has seen what was sent; that is nothing before the header is
\* written and the handler's decision afterwards.
AnswerInv ==
    /\ requestPc \in [Goroutines -> {"idle", "json", "no content", "encode", "log"}]
    /\ answer \in [Goroutines -> Statuses \cup {None}]
    /\ sent \in [Goroutines -> Sendable \cup {None}]
    /\ logged \in [Goroutines -> Sendable \cup {None}]
    /\ seen = sent
    /\ \A g \in Goroutines :
          /\ requestPc[g] \in {"json", "no content"} =>
                sent[g] = None /\ logged[g] = None /\ answer[g] \in Statuses
          /\ requestPc[g] = "no content" => answer[g] = NoContent
          /\ requestPc[g] \in {"encode", "log"} =>
                sent[g] = answer[g] /\ logged[g] = None
          /\ logged[g] # None => logged[g] = sent[g] /\ sent[g] = answer[g]

\* Every step of a request keeps it.
LEMMA NextAnswers == AnswerInv /\ [Answers!Next]_Answers!vars => AnswerInv'
<1> SUFFICES ASSUME AnswerInv, [Answers!Next]_Answers!vars PROVE AnswerInv'
    OBVIOUS
<1> USE StatusesAssumption DEF AnswerInv, Sendable, Answers!Goto
<1>1. ASSUME NEW g \in Goroutines, Answers!Begin(g) PROVE AnswerInv'
    <2>1. PICK s \in Statuses :
              /\ requestPc' = [requestPc EXCEPT ![g] = IF s = NoContent THEN "no content" ELSE "json"]
              /\ answer' = [answer EXCEPT ![g] = s]
        BY <1>1 DEF Answers!Begin, NoContent
    <2>2. /\ seen' = [seen EXCEPT ![g] = None]
          /\ sent' = [sent EXCEPT ![g] = None]
          /\ logged' = [logged EXCEPT ![g] = None]
        BY <1>1 DEF Answers!Begin
    <2> QED
        BY <2>1, <2>2
<1>2. ASSUME NEW g \in Goroutines, NEW s \in Sendable, answer[g] = s,
             requestPc[g] \in {"json", "no content"}, Answers!WriteHeader(g, s),
             \/ requestPc' = [requestPc EXCEPT ![g] = "encode"]
             \/ requestPc' = [requestPc EXCEPT ![g] = "log"],
             UNCHANGED <<answer, body, logged>>
      PROVE  AnswerInv'
    <2>1. sent[g] = None /\ seen = sent
        BY <1>2
    <2>2. sent' = [sent EXCEPT ![g] = s] /\ seen' = sent'
        BY <1>2, <2>1 DEF Answers!WriteHeader
    <2> QED
        BY <1>2, <2>2
<1>3. ASSUME NEW g \in Goroutines, Answers!WriteJSON(g) PROVE AnswerInv'
    BY <1>2, <1>3 DEF Answers!WriteJSON
<1>4. ASSUME NEW g \in Goroutines, Answers!WriteNoContent(g) PROVE AnswerInv'
    BY <1>2, <1>4 DEF Answers!WriteNoContent, NoContent
<1>5. ASSUME NEW g \in Goroutines, Answers!Encode(g) \/ Answers!Panic(g) PROVE AnswerInv'
    BY <1>5 DEF Answers!Encode, Answers!Panic
<1>6. ASSUME NEW g \in Goroutines, Answers!LogStatus(g) PROVE AnswerInv'
    BY <1>6 DEF Answers!LogStatus
<1>7. CASE UNCHANGED Answers!vars
    BY <1>7 DEF Answers!vars
<1> QED
    BY <1>1, <1>3, <1>4, <1>5, <1>6, <1>7 DEF Answers!Next

\* httpx.go, middleware.go: the logged status is the one that was sent and the one
\* that the handler decided on, for any number of requests and statuses, also when
\* the encoding of the body fails.
THEOREM LogTellsWhatWasSent == Answers!Spec => []LoggedAsSent
<1>1. Answers!Init => AnswerInv
    BY DEF Answers!Init, Answers!All, AnswerInv, Sendable
<1>2. AnswerInv => LoggedAsSent
    BY DEF AnswerInv, LoggedAsSent, Answers!LoggedAsSent
<1> QED
    BY <1>1, <1>2, NextAnswers, PTL DEF Answers!Spec

-----------------------------------------------------------------------------
(* LogAttributes: slices.                                                  *)

\* What the arrays hold: group names, attributes, and room.
Elements == Names \cup Attributes!Attrs \cup {Attributes!EmptyAttr}

Lists == Seq(Elements)

Heaps == Seq(Lists)

Slices == [array : Nat, len : Nat]

\* A slice lies within an array of the heap.
Fits(heap, s) ==
    /\ s \in Slices
    /\ s.array \in 1 .. Len(heap)
    /\ s.len \in 0 .. Len(heap[s.array])

\* The first elements of a concatenation.
LEMMA FrontOfConcat ==
    ASSUME NEW S, NEW a \in Seq(S), NEW b \in Seq(S)
    PROVE  SubSeq(a \o b, 1, Len(a)) = a
<1>1. /\ a \o b \in Seq(S) /\ Len(a) \in Nat /\ Len(b) \in Nat
      /\ Len(a \o b) = Len(a) + Len(b)
      /\ \A i \in 1 .. Len(a) : (a \o b)[i] = a[i]
    BY ConcatProperties, LenProperties
<1>2. \A i \in 1 .. Len(a) : (a \o b)[i] \in S
    BY <1>1, ElementOfSeq
<1> DEFINE f == SubSeq(a \o b, 1, Len(a))
<1>3. /\ f \in Seq(S)
      /\ Len(f) = IF 1 <= Len(a) THEN Len(a) - 1 + 1 ELSE 0
      /\ \A i \in 1 .. Len(a) - 1 + 1 : f[i] = (a \o b)[1 + i - 1]
    BY <1>1, <1>2, SubSeqProperties
<1>4. f \in Seq(S) /\ Len(f) = Len(a) /\ \A i \in 1 .. Len(f) : f[i] = a[i]
    BY <1>1, <1>3
<1> HIDE DEF f
<1>5. f = a
    BY <1>4, SeqEqual
<1> QED
    BY <1>5 DEF f

\* What a slice holds is a list of its length.
LEMMA ContentsList ==
    ASSUME NEW heap \in Heaps, NEW s, Fits(heap, s)
    PROVE  /\ Attributes!Contents(heap, s) \in Lists
           /\ Len(Attributes!Contents(heap, s)) = s.len
<1> DEFINE a == heap[s.array]
<1>1. a \in Lists /\ Len(a) \in Nat /\ s.len \in Nat /\ s.len <= Len(a)
    BY ElementOfSeq DEF Heaps, Fits, Slices, Lists
<1>2. \A i \in 1 .. s.len : a[i] \in Elements
    BY <1>1, ElementOfSeq DEF Lists
<1> HIDE DEF a
<1>3. /\ SubSeq(a, 1, s.len) \in Seq(Elements)
      /\ Len(SubSeq(a, 1, s.len)) = IF 1 <= s.len THEN s.len - 1 + 1 ELSE 0
    BY <1>1, <1>2, SubSeqProperties
<1> QED
    BY <1>1, <1>3 DEF Attributes!Contents, Lists, a

\* A further array changes no slice.
LEMMA AppendedHeap ==
    ASSUME NEW heap \in Heaps, NEW x \in Lists
    PROVE  /\ Append(heap, x) \in Heaps
           /\ Len(Append(heap, x)) = Len(heap) + 1
           /\ Append(heap, x)[Len(heap) + 1] = x
           /\ \A s : Fits(heap, s) =>
                 /\ Fits(Append(heap, x), s)
                 /\ Attributes!Contents(Append(heap, x), s) = Attributes!Contents(heap, s)
<1> DEFINE h == Append(heap, x)
<1>1. /\ h \in Heaps /\ Len(h) = Len(heap) + 1
      /\ h[Len(heap) + 1] = x
      /\ \A i \in 1 .. Len(heap) : h[i] = heap[i]
    BY AppendProperties DEF Heaps
<1>2. Len(heap) \in Nat
    BY LenProperties DEF Heaps
<1> HIDE DEF h
<1>3. ASSUME NEW s, Fits(heap, s)
      PROVE  Fits(h, s) /\ Attributes!Contents(h, s) = Attributes!Contents(heap, s)
    BY <1>1, <1>2, <1>3 DEF Fits, Attributes!Contents
<1> QED
    BY <1>1, <1>3 DEF h

\* c is a copy of slice s of heap, with more elements: it holds what s held and
\* what was added, and every slice keeps what it held.
CopyIs(c, heap, s, added) ==
    /\ c.heap \in Heaps
    /\ Fits(c.heap, c.slice)
    /\ Attributes!Contents(c.heap, c.slice) = Attributes!Contents(heap, s) \o added
    /\ \A t : Fits(heap, t) =>
          /\ Fits(c.heap, t)
          /\ Attributes!Contents(c.heap, t) = Attributes!Contents(heap, t)

\* append to an empty slice makes such a copy.
LEMMA CopyHolds ==
    ASSUME NEW heap \in Heaps, NEW s, Fits(heap, s), NEW added \in Lists, NEW n \in Nat
    PROVE  CopyIs(Attributes!CopyOf(heap, s, added, n), heap, s, added)
<1> DEFINE c == Attributes!CopyOf(heap, s, added, n)
           held == Attributes!Contents(heap, s)
           spare == Attributes!Spare(n)
           x == held \o added \o spare
<1>1. held \in Lists /\ Len(held) = s.len /\ s.len \in Nat
    BY ContentsList DEF Fits, Slices
<1>2. spare \in Lists
    BY DEF Attributes!Spare, Lists, Elements
<1> HIDE DEF held, spare
<1>3. held \o added \in Lists /\ Len(held \o added) = s.len + Len(added) /\ Len(added) \in Nat
    BY <1>1, ConcatProperties, LenProperties DEF Lists
<1>4. x \in Lists /\ Len(x) = Len(held \o added) + Len(spare) /\ Len(spare) \in Nat
    BY <1>2, <1>3, ConcatProperties, LenProperties DEF Lists
<1>5. SubSeq(x, 1, Len(held \o added)) = held \o added
    BY <1>2, <1>3, FrontOfConcat DEF Lists
<1> HIDE DEF x
<1>6. /\ c.heap = Append(heap, x)
      /\ c.slice = [array |-> Len(heap) + 1, len |-> s.len + Len(added)]
    BY DEF Attributes!CopyOf, Attributes!Slice, held, spare, x
<1> HIDE DEF c
<1>7. Len(heap) \in Nat
    BY LenProperties DEF Heaps
<1>8. /\ c.slice.array = Len(heap) + 1
      /\ c.slice.len = s.len + Len(added)
      /\ c.slice \in Slices
    BY <1>1, <1>3, <1>6, <1>7 DEF Slices
<1>9. c.heap \in Heaps /\ Len(c.heap) = Len(heap) + 1 /\ c.heap[c.slice.array] = x
    BY <1>4, <1>6, <1>8, AppendedHeap
<1>10. Fits(c.heap, c.slice)
    BY <1>1, <1>3, <1>4, <1>7, <1>8, <1>9 DEF Fits
<1>11. Attributes!Contents(c.heap, c.slice) = held \o added
    BY <1>3, <1>5, <1>8, <1>9 DEF Attributes!Contents
<1>12. \A t : Fits(heap, t) =>
              /\ Fits(c.heap, t)
              /\ Attributes!Contents(c.heap, t) = Attributes!Contents(heap, t)
    BY <1>4, <1>6, AppendedHeap
<1> QED
    BY <1>9, <1>10, <1>11, <1>12 DEF CopyIs, held, c

-----------------------------------------------------------------------------
(* LogAttributes: derived loggers.                                         *)

HandlerRecords == [groups : Slices, static : Slices]

GivenRecords == [groups : Lists, attrs : Lists]

\* Every slice of a logger lies in an array and holds what it was derived with.
Holds(heap, h, g) ==
    /\ Fits(heap, h.groups) /\ Fits(heap, h.static)
    /\ Attributes!Contents(heap, h.groups) = g.groups
    /\ Attributes!Contents(heap, h.static) = g.attrs

DerivedInv ==
    /\ arrays \in Heaps
    /\ handlers \in Seq(HandlerRecords)
    /\ given \in Seq(GivenRecords)
    /\ Len(handlers) = Len(given)
    /\ \A i \in 1 .. Len(handlers) : Holds(arrays, handlers[i], given[i])

\* A derivation adds a logger and leaves the others what they hold.
LEMMA DerivationKeeps ==
    ASSUME DerivedInv, NEW h \in DOMAIN handlers, NEW names \in Lists, NEW attrs \in Lists,
           Attributes!Derive(h, names, attrs), Attributes!Given(h, names, attrs)
    PROVE  DerivedInv'
<1>1. PICK m \in 0 .. MaxSpare, n \in 0 .. MaxSpare :
        LET groups == Attributes!CopyOf(arrays, handlers[h].groups, names, m)
            static == Attributes!CopyOf(groups.heap, handlers[h].static, attrs, n)
        IN  /\ arrays' = static.heap
            /\ handlers' = Append(handlers, [groups |-> groups.slice,
                                             static |-> static.slice])
    BY DEF Attributes!Derive
<1> DEFINE groups == Attributes!CopyOf(arrays, handlers[h].groups, names, m)
           static == Attributes!CopyOf(groups.heap, handlers[h].static, attrs, n)
           new == [groups |-> groups.slice, static |-> static.slice]
           ng == [groups |-> given[h].groups \o names, attrs |-> given[h].attrs \o attrs]
<1>2. arrays' = static.heap /\ handlers' = Append(handlers, new) /\ given' = Append(given, ng)
    BY <1>1 DEF Attributes!Given
<1>3. m \in Nat /\ n \in Nat
    BY SpareAssumption
<1>4. /\ h \in 1 .. Len(handlers) /\ Len(handlers) \in Nat /\ Len(given) = Len(handlers)
      /\ handlers[h] \in HandlerRecords /\ given[h] \in GivenRecords
      /\ Holds(arrays, handlers[h], given[h])
      /\ arrays \in Heaps
    BY ElementOfSeq, LenProperties DEF DerivedInv
<1>5. /\ groups.heap \in Heaps
      /\ Fits(groups.heap, groups.slice)
      /\ Attributes!Contents(groups.heap, groups.slice) = given[h].groups \o names
      /\ \A t : Fits(arrays, t) =>
            /\ Fits(groups.heap, t)
            /\ Attributes!Contents(groups.heap, t) = Attributes!Contents(arrays, t)
    <2>1. CopyIs(groups, arrays, handlers[h].groups, names)
        BY <1>3, <1>4, CopyHolds DEF Holds
    <2> HIDE DEF groups
    <2> QED
        BY <1>4, <2>1 DEF CopyIs, Holds
<1>6. Fits(groups.heap, handlers[h].static)
    BY <1>4, <1>5 DEF Holds
<1>7. /\ static.heap \in Heaps
      /\ Fits(static.heap, static.slice)
      /\ Attributes!Contents(static.heap, static.slice) =
            Attributes!Contents(groups.heap, handlers[h].static) \o attrs
      /\ \A t : Fits(groups.heap, t) =>
            /\ Fits(static.heap, t)
            /\ Attributes!Contents(static.heap, t) = Attributes!Contents(groups.heap, t)
    <2>1. CopyIs(static, groups.heap, handlers[h].static, attrs)
        BY <1>3, <1>5, <1>6, CopyHolds
    <2> HIDE DEF static
    <2> QED
        BY <2>1 DEF CopyIs
<1> HIDE DEF groups, static
<1>8. Holds(static.heap, new, ng)
    BY <1>4, <1>5, <1>7 DEF Holds
<1>9. \A i \in 1 .. Len(handlers) : Holds(static.heap, handlers[i], given[i])
    BY <1>5, <1>7 DEF DerivedInv, Holds
<1>10. new \in HandlerRecords /\ ng \in GivenRecords
    <2>1. groups.slice \in Slices /\ static.slice \in Slices
        BY <1>5, <1>7 DEF Fits
    <2>2. given[h].groups \o names \in Lists /\ given[h].attrs \o attrs \in Lists
        BY <1>4, ConcatProperties DEF GivenRecords, Lists
    <2> QED
        BY <2>1, <2>2 DEF HandlerRecords, GivenRecords
<1> HIDE DEF new, ng
<1>11. /\ handlers' \in Seq(HandlerRecords) /\ Len(handlers') = Len(handlers) + 1
       /\ handlers'[Len(handlers) + 1] = new
       /\ \A i \in 1 .. Len(handlers) : handlers'[i] = handlers[i]
    BY <1>2, <1>10, AppendProperties DEF DerivedInv
<1>12. /\ given' \in Seq(GivenRecords) /\ Len(given') = Len(handlers) + 1
       /\ given'[Len(handlers) + 1] = ng
       /\ \A i \in 1 .. Len(handlers) : given'[i] = given[i]
    BY <1>2, <1>4, <1>10, AppendProperties DEF DerivedInv
<1>13. \A i \in 1 .. Len(handlers') : Holds(arrays', handlers'[i], given'[i])
    BY <1>2, <1>4, <1>8, <1>9, <1>11, <1>12
<1> QED
    BY <1>2, <1>7, <1>11, <1>12, <1>13 DEF DerivedInv

\* Every step derives a logger.
LEMMA NextDerived == DerivedInv /\ [Attributes!Next]_Attributes!vars => DerivedInv'
<1> SUFFICES ASSUME DerivedInv, [Attributes!Next]_Attributes!vars PROVE DerivedInv'
    OBVIOUS
<1>1. ASSUME NEW h \in DOMAIN handlers, NEW name \in Names, Attributes!WithGroup(h, name)
      PROVE  DerivedInv'
    <2>1. <<name>> \in Lists /\ <<>> \in Lists
        BY DEF Lists, Elements
    <2> QED
        BY <1>1, <2>1, DerivationKeeps DEF Attributes!WithGroup
<1>2. ASSUME NEW h \in DOMAIN handlers,
             NEW a \in Attributes!Attrs \cup {Attributes!EmptyAttr},
             Attributes!WithAttrs(h, a)
      PROVE  DerivedInv'
    <2>1. <<a>> \in Lists /\ <<>> \in Lists
        BY DEF Lists, Elements
    <2> QED
        BY <1>2, <2>1, DerivationKeeps DEF Attributes!WithAttrs
<1>3. CASE UNCHANGED Attributes!vars
    BY <1>3 DEF Attributes!vars, DerivedInv
<1> QED
    BY <1>1, <1>2, <1>3 DEF Attributes!Next

\* The first logger has two empty slices.
LEMMA InitDerived == Attributes!Init => DerivedInv
<1> SUFFICES ASSUME Attributes!Init PROVE DerivedInv
    OBVIOUS
<1>1. arrays = << <<>>, <<>> >> /\ arrays \in Heaps /\ Len(arrays) = 2
    BY DEF Attributes!Init, Heaps, Lists
<1>2. /\ handlers = << [groups |-> [array |-> 1, len |-> 0],
                        static |-> [array |-> 2, len |-> 0]] >>
      /\ given = << [groups |-> <<>>, attrs |-> <<>>] >>
    BY DEF Attributes!Init, Attributes!Slice
<1>3. handlers \in Seq(HandlerRecords) /\ given \in Seq(GivenRecords)
    BY <1>2 DEF HandlerRecords, GivenRecords, Slices, Lists
<1>4. Holds(arrays, handlers[1], given[1])
    <2>1. Fits(arrays, handlers[1].groups) /\ Fits(arrays, handlers[1].static)
        BY <1>1, <1>2 DEF Fits, Slices
    <2>2. /\ Attributes!Contents(arrays, handlers[1].groups) = <<>>
          /\ Attributes!Contents(arrays, handlers[1].static) = <<>>
        BY <1>1, <1>2 DEF Attributes!Contents
    <2> QED
        BY <1>2, <2>1, <2>2 DEF Holds
<1> QED
    BY <1>1, <1>2, <1>3, <1>4 DEF DerivedInv

\* handler.go, WithAttrs and WithGroup: a logger keeps its groups and attributes
\* whatever is derived from it, its parents and its siblings, for any number and
\* depth of derivations and whatever room append leaves.
THEOREM DerivedLoggersAreTheirOwn == Attributes!Spec => []DerivationsIndependent
<1>1. DerivedInv => DerivationsIndependent
    BY DEF DerivedInv, Holds, DerivationsIndependent, Attributes!DerivationsIndependent,
           Attributes!GroupsOf, Attributes!StaticOf
<1> QED
    BY <1>1, InitDerived, NextDerived, PTL DEF Attributes!Spec

-----------------------------------------------------------------------------
(* LogAttributes: rendering.                                               *)

\* A set of natural numbers that is not empty has a least element.
LEMMA LeastElement ==
    ASSUME NEW S, S \subseteq Nat, S # {}
    PROVE  \E m \in S : \A n \in S : m <= n
<1> DEFINE R == OpToRel(<, Nat)
<1>1. IsWellFoundedOn(R, Nat)
    BY NatLessThanWellFounded, Zenon
<1>2. \A x, y \in Nat : x < y => <<x, y>> \in R
    BY DEF OpToRel
<1> HIDE DEF R
<1>3. PICK m \in S : \A n \in S : <<n, m>> \notin R
    BY <1>1, WFMin, Zenon
<1>4. \A n \in S : n \in Nat /\ m \in Nat /\ ~(n < m)
    BY <1>2, <1>3, Zenon
<1> QED
    BY <1>4

\* data gives what Handle holds after each of the first n attributes.
IsRun(data, groups, attrs, n) ==
    data = [i \in 0 .. n |->
              IF i = 0 THEN Attributes!RecordData
              ELSE Attributes!AddAttr(data[i - 1], groups, attrs[i])]

\* A run is continued by one more attribute, ...
LEMMA RunContinues ==
    ASSUME NEW groups, NEW attrs, NEW m \in Nat \ {0},
           NEW data, IsRun(data, groups, attrs, m - 1)
    PROVE  \E longer : IsRun(longer, groups, attrs, m)
<1> DEFINE longer == [i \in 0 .. m |->
                        IF i = m THEN Attributes!AddAttr(data[m - 1], groups, attrs[m])
                        ELSE data[i]]
<1>1. \A i \in 0 .. m - 1 : longer[i] = data[i]
    OBVIOUS
<1>2. \A i \in 0 .. m - 1 :
          data[i] = IF i = 0 THEN Attributes!RecordData
                    ELSE Attributes!AddAttr(data[i - 1], groups, attrs[i])
    BY DEF IsRun
<1>3. ASSUME NEW i \in 0 .. m
      PROVE  longer[i] = IF i = 0 THEN Attributes!RecordData
                         ELSE Attributes!AddAttr(longer[i - 1], groups, attrs[i])
    <2>1. CASE i = m
        <3>1. longer[m - 1] = data[m - 1] /\ m # 0
            BY <1>1
        <3> QED
            BY <2>1, <3>1
    <2>2. CASE i # m
        <3>1. i \in 0 .. m - 1
            BY <2>2
        <3>2. i # 0 => longer[i - 1] = data[i - 1]
            BY <1>1, <3>1
        <3> QED
            BY <1>1, <1>2, <3>1, <3>2
    <2> QED
        BY <2>1, <2>2
<1>4. longer = [i \in 0 .. m |-> longer[i]]
    OBVIOUS
<1> HIDE DEF longer
<1>5. IsRun(longer, groups, attrs, m)
    BY <1>3, <1>4 DEF IsRun
<1> QED
    BY <1>5

\* ... so that there is one over all attributes, however many they are.
LEMMA RunExists ==
    ASSUME NEW groups, NEW attrs, NEW n \in Nat
    PROVE  \E data : IsRun(data, groups, attrs, n)
<1> DEFINE Bad == {m \in Nat : ~ \E data : IsRun(data, groups, attrs, m)}
<1> SUFFICES ASSUME Bad # {} PROVE FALSE
    OBVIOUS
<1>1. PICK m \in Bad : \A k \in Bad : m <= k
    BY LeastElement
<1>2. m \in Nat /\ ~ \E data : IsRun(data, groups, attrs, m)
    OBVIOUS
<1>3. CASE m = 0
    <2> DEFINE data == [i \in 0 .. 0 |-> Attributes!RecordData]
    <2>1. data = [i \in 0 .. 0 |->
                    IF i = 0 THEN Attributes!RecordData
                    ELSE Attributes!AddAttr(data[i - 1], groups, attrs[i])]
        OBVIOUS
    <2> QED
        BY <1>2, <1>3, <2>1 DEF IsRun
<1>4. CASE m # 0
    <2>1. m - 1 \in Nat /\ m - 1 \notin Bad
        BY <1>1, <1>2, <1>4
    <2>2. PICK data : IsRun(data, groups, attrs, m - 1)
        BY <2>1
    <2> QED
        BY <1>2, <1>4, <2>2, RunContinues
<1> QED
    BY <1>3, <1>4

\* The result of Handle's loops is the end of such a run.
LEMMA RenderIsRun ==
    ASSUME NEW groups, NEW attrs \in Lists
    PROVE  \E data : /\ IsRun(data, groups, attrs, Len(attrs))
                     /\ Attributes!Render(groups, attrs) = data[Len(attrs)]
<1> DEFINE chosen == CHOOSE data : IsRun(data, groups, attrs, Len(attrs))
<1>1. Len(attrs) \in Nat
    BY LenProperties DEF Lists
<1>2. IsRun(chosen, groups, attrs, Len(attrs))
    BY <1>1, RunExists
<1>3. Attributes!Render(groups, attrs) = chosen[Len(attrs)]
    BY DEF Attributes!Render, IsRun
<1> QED
    BY <1>2, <1>3

-----------------------------------------------------------------------------
(* One addAttr.                                                            *)

Shown(data, groups, k) == groups \o <<k>> \in DOMAIN data

\* The paths that addAttr compares: those of two keys under the same groups are
\* prefixes of one another only if the keys are equal, and longer than the groups.
LEMMA Paths ==
    ASSUME NEW groups \in Lists, NEW j, NEW k
    PROVE  /\ Attributes!IsPrefix(groups \o <<j>>, groups \o <<k>>) => j = k
           /\ groups \o <<j>> = groups \o <<k>> => j = k
           /\ ~Attributes!IsPrefix(groups \o <<k>>, groups)
           /\ groups = <<>> => groups \o <<k>> = <<k>>
           /\ Attributes!IsPrefix(<<k>>, groups) => groups # <<>> /\ groups[1] = k
           /\ Attributes!IsPrefix(groups \o <<j>>, <<k>>) => groups = <<>> /\ j = k
           /\ groups \o <<j>> = <<k>> => groups = <<>> /\ j = k
<1> DEFINE S == Elements \cup {j, k}
<1>1. groups \in Seq(S) /\ <<j>> \in Seq(S) /\ <<k>> \in Seq(S) /\ Len(groups) \in Nat
    BY SeqMonotonic, LenProperties DEF Lists
<1> DEFINE p == groups \o <<j>>
           q == groups \o <<k>>
           n == Len(groups)
<1>2. /\ p \in Seq(S) /\ Len(p) = n + 1 /\ p[n + 1] = j
      /\ q \in Seq(S) /\ Len(q) = n + 1 /\ q[n + 1] = k
    BY <1>1, ConcatProperties
<1>3. Len(<<k>>) = 1 /\ <<k>>[1] = k
    OBVIOUS
<1>4. groups = <<>> <=> n = 0
    BY <1>1, EmptySeq
<1> HIDE DEF p, q
<1>5. SubSeq(p, 1, n + 1) = p /\ SubSeq(q, 1, n + 1) = q
    BY <1>2, SubSeqFull
<1>6. /\ Attributes!IsPrefix(p, q) => j = k
      /\ p = q => j = k
      /\ ~Attributes!IsPrefix(q, groups)
    BY <1>1, <1>2, <1>5 DEF Attributes!IsPrefix
<1>7. n = 0 => groups \o <<k>> = <<k>>
    BY <1>1, <1>4, ConcatEmptySeq
<1>8. ASSUME Attributes!IsPrefix(<<k>>, groups) PROVE n # 0 /\ groups[1] = k
    <2>1. 1 <= n /\ SubSeq(<<k>>, 1, 1) = SubSeq(groups, 1, 1)
        BY <1>3, <1>8 DEF Attributes!IsPrefix
    <2>2. \A i \in 1 .. 1 : groups[i] \in S /\ <<k>>[i] \in S
        BY <1>1, <1>3, <2>1, ElementOfSeq
    <2>3. SubSeq(<<k>>, 1, 1)[1] = k /\ SubSeq(groups, 1, 1)[1] = groups[1]
        BY <1>3, <2>2, SubSeqProperties
    <2> QED
        BY <2>1, <2>3, <1>1
<1>9. ASSUME Attributes!IsPrefix(p, <<k>>) PROVE n = 0 /\ j = k
    <2>1. n + 1 <= 1
        BY <1>2, <1>3, <1>9 DEF Attributes!IsPrefix
    <2>2. n = 0
        BY <2>1, <1>1
    <2>3. SubSeq(p, 1, 1) = SubSeq(<<k>>, 1, 1)
        BY <1>2, <1>9, <2>2 DEF Attributes!IsPrefix
    <2>4. p = <<k>>
        BY <1>3, <1>5, <2>2, <2>3, <1>1, SubSeqFull
    <2> QED
        BY <1>2, <1>3, <2>2, <2>4
<1>10. p = <<k>> => n = 0 /\ j = k
    BY <1>1, <1>2, <1>3
<1> QED
    BY <1>4, <1>6, <1>7, <1>8, <1>9, <1>10 DEF p, q

\* addAttr shows its attribute, leaves what other keys under the same groups show,
\* and those of the record whose name neither the group nor the key has.
LEMMA AddAttrShows ==
    ASSUME NEW groups \in Lists, NEW a, a # Attributes!EmptyAttr, NEW data,
           NEW new, new = Attributes!AddAttr(data, groups, a)
    PROVE  /\ Shown(new, groups, a.key) /\ new[groups \o <<a.key>>] = a.value
           /\ \A k : k # a.key /\ Shown(data, groups, k) =>
                 Shown(new, groups, k) /\ new[groups \o <<k>>] = data[groups \o <<k>>]
           /\ \A k : /\ <<k>> \in DOMAIN data
                     /\ IF groups = <<>> THEN a.key # k ELSE groups[1] # k
                     => <<k>> \in DOMAIN new /\ new[<<k>>] = data[<<k>>]
<1> DEFINE target == groups \o <<a.key>>
           kept == {p \in DOMAIN data : /\ ~Attributes!IsPrefix(p, groups)
                                        /\ ~Attributes!IsPrefix(target, p)}
<1>1. new = [p \in kept \cup {target} |-> IF p = target THEN a.value ELSE data[p]]
    BY DEF Attributes!AddAttr
<1> HIDE DEF kept
<1>2. /\ DOMAIN new = kept \cup {target}
      /\ new[target] = a.value
      /\ \A p \in kept : p # target => new[p] = data[p]
    BY <1>1
<1>3. ASSUME NEW k, k # a.key, Shown(data, groups, k)
      PROVE  Shown(new, groups, k) /\ new[groups \o <<k>>] = data[groups \o <<k>>]
    <2> DEFINE q == groups \o <<k>>
    <2>1. q # target /\ ~Attributes!IsPrefix(target, q) /\ ~Attributes!IsPrefix(q, groups)
        BY <1>3, Paths
    <2>2. q \in DOMAIN data
        BY <1>3 DEF Shown
    <2> HIDE DEF q, target
    <2>3. q \in kept
        BY <2>1, <2>2 DEF kept
    <2>4. q \in DOMAIN new /\ new[q] = data[q]
        BY <1>2, <2>1, <2>3
    <2> QED
        BY <2>4 DEF Shown, q
<1>4. ASSUME NEW k, <<k>> \in DOMAIN data,
             IF groups = <<>> THEN a.key # k ELSE groups[1] # k
      PROVE  <<k>> \in DOMAIN new /\ new[<<k>>] = data[<<k>>]
    <2>1. <<k>> # target /\ ~Attributes!IsPrefix(target, <<k>>)
        BY <1>4, Paths
    <2>2. ~Attributes!IsPrefix(<<k>>, groups)
        BY <1>4, Paths
    <2> HIDE DEF target
    <2>3. <<k>> \in kept
        BY <1>4, <2>1, <2>2 DEF kept
    <2> QED
        BY <1>2, <2>1, <2>3
<1> HIDE DEF target
<1>5. target \in DOMAIN new /\ new[target] = a.value
    BY <1>2
<1> QED
    BY <1>3, <1>4, <1>5 DEF Shown, target

-----------------------------------------------------------------------------
(* All attributes of a line.                                               *)

\* i is the last of the first n attributes to give its key a value.
IsLast(attrs, i, n) ==
    /\ attrs[i] # Attributes!EmptyAttr
    /\ \A j \in i + 1 .. n : attrs[j].key = attrs[i].key => attrs[j] = Attributes!EmptyAttr

\* One of the first n attributes takes the name k on the top level.
TakenBy(groups, attrs, k, n) ==
    \E i \in 1 .. n :
        /\ attrs[i] # Attributes!EmptyAttr
        /\ IF groups = <<>> THEN attrs[i].key = k ELSE groups[1] = k

\* What the data show after n attributes.
ShowsFirst(d, groups, attrs, n) ==
    /\ \A i \in 1 .. n : IsLast(attrs, i, n) =>
          Shown(d, groups, attrs[i].key) /\ d[groups \o <<attrs[i].key>>] = attrs[i].value
    /\ \A k \in RecordKeys : ~TakenBy(groups, attrs, k, n) =>
          <<k>> \in DOMAIN d /\ d[<<k>>] = k

\* Before any attribute they show the record's keys, ...
LEMMA RecordShown ==
    ASSUME NEW groups, NEW attrs
    PROVE  ShowsFirst(Attributes!RecordData, groups, attrs, 0)
<1>1. \A k \in RecordKeys : /\ <<k>> \in DOMAIN Attributes!RecordData
                            /\ Attributes!RecordData[<<k>>] = k
    BY DEF Attributes!RecordData
<1> QED
    BY <1>1 DEF ShowsFirst

\* ... and one more attribute shows itself.
LEMMA OneMoreShown ==
    ASSUME NEW groups \in Lists, NEW attrs, NEW n \in Nat \ {0}, NEW d,
           ShowsFirst(d, groups, attrs, n - 1)
    PROVE  ShowsFirst(Attributes!AddAttr(d, groups, attrs[n]), groups, attrs, n)
<1> DEFINE new == Attributes!AddAttr(d, groups, attrs[n])
<1>1. CASE attrs[n] = Attributes!EmptyAttr
    <2>1. new = d
        BY <1>1 DEF Attributes!AddAttr
    <2> HIDE DEF new
    <2>2. \A i \in 1 .. n : IsLast(attrs, i, n) => i \in 1 .. n - 1 /\ IsLast(attrs, i, n - 1)
        BY <1>1 DEF IsLast
    <2>3. \A k : TakenBy(groups, attrs, k, n - 1) => TakenBy(groups, attrs, k, n)
        BY DEF TakenBy
    <2>4. ShowsFirst(new, groups, attrs, n)
        BY <2>1, <2>2, <2>3 DEF ShowsFirst
    <2> QED
        BY <2>4 DEF new
<1>2. CASE attrs[n] # Attributes!EmptyAttr
    <2> DEFINE a == attrs[n]
    <2>1. /\ Shown(new, groups, a.key) /\ new[groups \o <<a.key>>] = a.value
          /\ \A k : k # a.key /\ Shown(d, groups, k) =>
                Shown(new, groups, k) /\ new[groups \o <<k>>] = d[groups \o <<k>>]
          /\ \A k : /\ <<k>> \in DOMAIN d
                    /\ IF groups = <<>> THEN a.key # k ELSE groups[1] # k
                    => <<k>> \in DOMAIN new /\ new[<<k>>] = d[<<k>>]
        BY <1>2, AddAttrShows
    <2> HIDE DEF new
    <2>2. ASSUME NEW i \in 1 .. n, IsLast(attrs, i, n)
          PROVE  /\ Shown(new, groups, attrs[i].key)
                 /\ new[groups \o <<attrs[i].key>>] = attrs[i].value
        <3>1. CASE i = n
            BY <2>1, <3>1
        <3>2. CASE i # n
            <4>1. i \in 1 .. n - 1 /\ IsLast(attrs, i, n - 1) /\ attrs[i].key # a.key
                BY <1>2, <2>2, <3>2 DEF IsLast
            <4> QED
                BY <2>1, <4>1 DEF ShowsFirst
        <3> QED
            BY <3>1, <3>2
    <2>3. ASSUME NEW k \in RecordKeys, ~TakenBy(groups, attrs, k, n)
          PROVE  <<k>> \in DOMAIN new /\ new[<<k>>] = k
        <3>1. ~TakenBy(groups, attrs, k, n - 1)
            BY <2>3 DEF TakenBy
        <3>2. IF groups = <<>> THEN a.key # k ELSE groups[1] # k
            BY <1>2, <2>3 DEF TakenBy
        <3> QED
            BY <2>1, <3>1, <3>2 DEF ShowsFirst
    <2>4. ShowsFirst(new, groups, attrs, n)
        BY <2>2, <2>3 DEF ShowsFirst
    <2> QED
        BY <2>4 DEF new
<1> QED
    BY <1>1, <1>2

\* So the line shows all.
LEMMA AllShown ==
    ASSUME NEW groups \in Lists, NEW attrs \in Lists
    PROVE  ShowsFirst(Attributes!Render(groups, attrs), groups, attrs, Len(attrs))
<1>1. PICK data : /\ IsRun(data, groups, attrs, Len(attrs))
                  /\ Attributes!Render(groups, attrs) = data[Len(attrs)]
    BY RenderIsRun
<1>2. Len(attrs) \in Nat
    BY LenProperties DEF Lists
<1>3. \A n \in 0 .. Len(attrs) :
          data[n] = IF n = 0 THEN Attributes!RecordData
                    ELSE Attributes!AddAttr(data[n - 1], groups, attrs[n])
    BY <1>1 DEF IsRun
<1> DEFINE Bad == {n \in 0 .. Len(attrs) : ~ShowsFirst(data[n], groups, attrs, n)}
<1>4. ASSUME Bad # {} PROVE FALSE
    <2>1. Bad \subseteq Nat
        BY <1>2
    <2>2. PICK n \in Bad : \A m \in Bad : n <= m
        BY <1>4, <2>1, LeastElement
    <2>3. n \in 0 .. Len(attrs) /\ ~ShowsFirst(data[n], groups, attrs, n)
        BY <2>2
    <2>4. n # 0
        BY <1>3, <2>3, RecordShown
    <2>5. n \in Nat \ {0} /\ n - 1 \in 0 .. Len(attrs) /\ n - 1 \notin Bad
        BY <1>2, <2>2, <2>3, <2>4
    <2>6. ShowsFirst(data[n - 1], groups, attrs, n - 1)
        BY <2>5
    <2>7. data[n] = Attributes!AddAttr(data[n - 1], groups, attrs[n])
        BY <1>3, <2>3, <2>4
    <2> QED
        BY <2>3, <2>5, <2>6, <2>7, OneMoreShown
<1>5. Len(attrs) \in 0 .. Len(attrs) /\ Len(attrs) \notin Bad
    BY <1>2, <1>4
<1> QED
    BY <1>1, <1>5

\* The last attribute of a key exists when one does.
LEMMA LastExists ==
    ASSUME NEW attrs \in Lists, NEW k, Attributes!GivenFor(attrs, k) # {}
    PROVE  \E i \in 1 .. Len(attrs) :
              /\ attrs[i].key = k /\ IsLast(attrs, i, Len(attrs))
              /\ attrs[i].value = Attributes!LastGiven(attrs, k)
<1> DEFINE given_k == Attributes!GivenFor(attrs, k)
           n == Len(attrs)
           distances == {n - i : i \in given_k}
<1>1. n \in Nat /\ DOMAIN attrs = 1 .. n
    BY LenProperties DEF Lists
<1>2. \A i : i \in given_k <=>
                i \in 1 .. n /\ attrs[i].key = k /\ attrs[i] # Attributes!EmptyAttr
    BY <1>1 DEF Attributes!GivenFor
<1> HIDE DEF n
<1>3. distances \subseteq Nat /\ distances # {}
    <2>1. \A i \in given_k : n - i \in Nat
        BY <1>1, <1>2
    <2> HIDE DEF given_k
    <2> QED
        BY <2>1 DEF given_k
<1>4. PICK m \in distances : \A d \in distances : m <= d
    BY <1>3, LeastElement
<1>5. PICK l \in given_k : m = n - l
    BY <1>4
<1>6. \A j \in given_k : j <= l
    <2>1. \A j \in given_k : n - l <= n - j
        BY <1>4, <1>5
    <2> QED
        BY <1>1, <1>2, <2>1
<1> DEFINE c == CHOOSE i \in given_k : \A j \in given_k : j <= i
<1>7. c \in given_k /\ \A j \in given_k : j <= c
    BY <1>5, <1>6
<1>8. Attributes!LastGiven(attrs, k) = attrs[c].value
    BY DEF Attributes!LastGiven
<1> HIDE DEF c, given_k
<1>9. c \in 1 .. n /\ attrs[c].key = k /\ attrs[c] # Attributes!EmptyAttr
    BY <1>2, <1>7
<1>10. IsLast(attrs, c, n)
    <2>1. ASSUME NEW j \in c + 1 .. n, attrs[j].key = k PROVE attrs[j] = Attributes!EmptyAttr
        BY <1>1, <1>2, <1>7, <1>9, <2>1
    <2> QED
        BY <1>9, <2>1 DEF IsLast
<1> QED
    BY <1>8, <1>9, <1>10 DEF n

\* The line of any logger and any record shows what it was given.
LEMMA LineShows ==
    ASSUME DerivedInv, NEW h \in DOMAIN handlers, NEW record \in Lists
    PROVE  LET groups == given[h].groups
               attrs == given[h].attrs \o record
           IN  /\ groups \in Lists /\ attrs \in Lists
               /\ ShowsFirst(Attributes!Line(h, record), groups, attrs, Len(attrs))
<1>1. /\ h \in 1 .. Len(handlers) /\ given[h] \in GivenRecords
      /\ Holds(arrays, handlers[h], given[h])
    BY ElementOfSeq, LenProperties DEF DerivedInv
<1>2. given[h].groups \in Lists /\ given[h].attrs \in Lists
    BY <1>1 DEF GivenRecords
<1>3. given[h].attrs \o record \in Lists
    BY <1>2, ConcatProperties DEF Lists
<1>4. Attributes!Line(h, record) =
          Attributes!Render(given[h].groups, given[h].attrs \o record)
    BY <1>1 DEF Attributes!Line, Attributes!GroupsOf, Attributes!StaticOf, Holds
<1> QED
    BY <1>2, <1>3, <1>4, AllShown

\* handler.go, Handle and addAttr: no attribute of a logger or a record is lost
\* from the line, whatever groups, keys and derivations there are: the last value
\* of a key is shown under the groups, and the record's own keys unless a group or
\* an ungrouped attribute has the name.
THEOREM AttributesReachTheLine == Attributes!Spec => []NothingLost
<1>1. DerivedInv => NothingLost
    <2> SUFFICES ASSUME DerivedInv, NEW h \in DOMAIN handlers, NEW record \in Attributes!Records
                 PROVE  LET groups == given[h].groups
                            attrs == given[h].attrs \o record
                            data == Attributes!Line(h, record)
                        IN  /\ \A k \in Keys :
                                 Attributes!GivenFor(attrs, k) # {} =>
                                    /\ groups \o <<k>> \in DOMAIN data
                                    /\ data[groups \o <<k>>] = Attributes!LastGiven(attrs, k)
                            /\ \A k \in RecordKeys :
                                 \/ Attributes!Taken(groups, attrs, k)
                                 \/ <<k>> \in DOMAIN data /\ data[<<k>>] = k
        BY DEF NothingLost, Attributes!NothingLost
    <2> DEFINE groups == given[h].groups
               attrs == given[h].attrs \o record
               data == Attributes!Line(h, record)
    <2>1. record \in Lists
        <3>1. CASE record = <<>>
            BY <3>1, EmptySeq DEF Lists
        <3>2. ASSUME NEW a \in Attributes!Attrs, record = <<a>> PROVE record \in Lists
            <4>1. a \in Elements
                BY DEF Elements
            <4> QED
                BY <3>2, <4>1 DEF Lists
        <3> QED
            BY <3>1, <3>2 DEF Attributes!Records
    <2>2. /\ groups \in Lists /\ attrs \in Lists
          /\ ShowsFirst(data, groups, attrs, Len(attrs))
        BY <2>1, LineShows
    <2>3. DOMAIN attrs = 1 .. Len(attrs)
        BY <2>2, LenProperties DEF Lists
    <2> HIDE DEF groups, attrs, data
    <2>4. ASSUME NEW k \in Keys, Attributes!GivenFor(attrs, k) # {}
          PROVE  /\ groups \o <<k>> \in DOMAIN data
                 /\ data[groups \o <<k>>] = Attributes!LastGiven(attrs, k)
        BY <2>2, <2>4, LastExists DEF ShowsFirst, Shown
    <2>5. ASSUME NEW k \in RecordKeys, TakenBy(groups, attrs, k, Len(attrs))
          PROVE  Attributes!Taken(groups, attrs, k)
        BY <2>3, <2>5 DEF TakenBy, Attributes!Taken, Attributes!GivenFor
    <2>6. ASSUME NEW k \in RecordKeys, ~TakenBy(groups, attrs, k, Len(attrs))
          PROVE  <<k>> \in DOMAIN data /\ data[<<k>>] = k
        BY <2>2, <2>6 DEF ShowsFirst
    <2> QED
        BY <2>4, <2>5, <2>6 DEF groups, attrs, data
<1> QED
    BY <1>1, InitDerived, NextDerived, PTL DEF Attributes!Spec

=============================================================================
