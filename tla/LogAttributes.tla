--------------------------- MODULE LogAttributes ---------------------------
(***************************************************************************)
(* What a line of libs/logger contains (handler.go): loggers are derived   *)
(* from one another by WithAttrs and WithGroup, and Handle renders the     *)
(* attributes of a logger and of a record into nested JSON objects.        *)
(*                                                                         *)
(* groups and static are Go slices: a length and an array that other       *)
(* slices may share, into which append writes while it has room.           *)
(***************************************************************************)
EXTENDS Naturals, Sequences, SequencesExt

CONSTANTS
    Names,          \* group names
    Keys,           \* attribute keys
    Values,
    RecordKeys,     \* the keys that Handle sets first: time, level, msg, ...
    MaxHandlers,    \* bound on the loggers derived
    MaxSpare        \* bound on the room append allocates beyond the length

VARIABLES
    arrays,    \* the backing arrays: sequences of their capacity
    handlers,  \* the colorJSONHandlers, in the order of their construction
    given      \* given[h]: what h was derived with, group names and attributes

vars == <<arrays, handlers, given>>

Attrs == [key : Keys, value : Values]

\* slog.Attr{}: addAttr drops it.
EmptyAttr == [key |-> "", value |-> 0]

-----------------------------------------------------------------------------
(* Slices.                                                                 *)

Slice(array, len) == [array |-> array, len |-> len]

Contents(heap, s) == SubSeq(heap[s.array], 1, s.len)

\* What a new array holds beyond the appended elements.
Spare(n) == [i \in 1 .. n |-> EmptyAttr]

\* append([]T{}, s...) followed by more appends: a new array in any case.
CopyOf(heap, s, added, spare) ==
    [heap |-> Append(heap, Contents(heap, s) \o added \o Spare(spare)),
     slice |-> Slice(Len(heap) + 1, s.len + Len(added))]

\* append(s, added...): in place while the array of s has room.
AppendTo(heap, s, added, spare) ==
    IF s.len + Len(added) > Len(heap[s.array]) THEN CopyOf(heap, s, added, spare)
    ELSE [heap |-> [heap EXCEPT ![s.array] =
                      [i \in DOMAIN @ |->
                         IF i \in s.len + 1 .. s.len + Len(added)
                         THEN added[i - s.len] ELSE @[i]]],
          slice |-> Slice(s.array, s.len + Len(added))]

-----------------------------------------------------------------------------
(* Rendering.  data maps the path of each JSON value to the value.         *)

\* Mutant: addAttr makes a map for each group anew.
AddAttrAfresh(data, groups, a) ==
    LET target == groups \o <<a.key>>
        kept == {p \in DOMAIN data : groups = <<>> \/ Head(groups) # Head(p)}
    IN  IF a = EmptyAttr THEN data
        ELSE [p \in kept \cup {target} |-> IF p = target THEN a.value ELSE data[p]]

\* A value in the place of one of the groups gives way to a map; the
\* attribute replaces what its key held, a map included.
AddAttr(data, groups, a) ==
    LET target == groups \o <<a.key>>
        kept == {p \in DOMAIN data : ~IsPrefix(p, groups) /\ ~IsPrefix(target, p)}
    IN  IF a = EmptyAttr THEN data
        ELSE [p \in kept \cup {target} |-> IF p = target THEN a.value ELSE data[p]]

\* The record's own keys, whose values are never those of an attribute.
RecordData == [p \in {<<k>> : k \in RecordKeys} |-> p[1]]

GroupsOf(h) == Contents(arrays, handlers[h].groups)
StaticOf(h) == Contents(arrays, handlers[h].static)

\* The data of a line after one addAttr for each attribute.
Render(groups, attrs) ==
    LET data[n \in 0 .. Len(attrs)] ==
          IF n = 0 THEN RecordData ELSE AddAttr(data[n - 1], groups, attrs[n])
    IN  data[Len(attrs)]

\* Handle: the attributes of the logger, then those of the record, all under
\* the groups of the logger.
Line(h, record) == Render(GroupsOf(h), StaticOf(h) \o record)

-----------------------------------------------------------------------------

\* newColorJSONHandler: nil slices, which behave as empty ones.
Init ==
    /\ arrays = << <<>>, <<>> >>
    /\ handlers = << [groups |-> Slice(1, 0), static |-> Slice(2, 0)] >>
    /\ given = << [groups |-> <<>>, attrs |-> <<>>] >>

\* Mutant: WithGroup and WithAttrs append to the slices of h.
DeriveInPlace(h, names, attrs) ==
    \E m, n \in 0 .. MaxSpare :
        LET groups == AppendTo(arrays, handlers[h].groups, names, m)
            static == AppendTo(groups.heap, handlers[h].static, attrs, n)
        IN  /\ arrays' = static.heap
            /\ handlers' = Append(handlers, [groups |-> groups.slice,
                                             static |-> static.slice])

\* A handler with copies of both slices of h, extended.
Derive(h, names, attrs) ==
    \E m, n \in 0 .. MaxSpare :
        LET groups == CopyOf(arrays, handlers[h].groups, names, m)
            static == CopyOf(groups.heap, handlers[h].static, attrs, n)
        IN  /\ arrays' = static.heap
            /\ handlers' = Append(handlers, [groups |-> groups.slice,
                                             static |-> static.slice])

Given(h, names, attrs) ==
    given' = Append(given, [groups |-> given[h].groups \o names,
                            attrs |-> given[h].attrs \o attrs])

\* Logger.WithGroup.
WithGroup(h, name) ==
    /\ Derive(h, <<name>>, <<>>)
    /\ Given(h, <<name>>, <<>>)

\* Logger.With; the empty attribute comes from a call with slog.Attr{}.
WithAttrs(h, a) ==
    /\ Derive(h, <<>>, <<a>>)
    /\ Given(h, <<>>, <<a>>)

Next ==
    /\ Len(handlers) < MaxHandlers
    /\ \E h \in DOMAIN handlers :
         \/ \E name \in Names : WithGroup(h, name)
         \/ \E a \in Attrs \cup {EmptyAttr} : WithAttrs(h, a)

Spec == Init /\ [][Next]_vars

-----------------------------------------------------------------------------
(* Properties.                                                             *)

\* A logger keeps the groups and attributes it was derived with, whatever is
\* derived from it, its parents and its siblings later: two requests may derive
\* from one logger.
DerivationsIndependent ==
    \A h \in DOMAIN handlers :
        /\ GroupsOf(h) = given[h].groups
        /\ StaticOf(h) = given[h].attrs

Records == {<<>>} \cup {<<a>> : a \in Attrs}

\* The attributes that give key k a value.
GivenFor(attrs, k) == {i \in DOMAIN attrs : attrs[i].key = k /\ attrs[i] # EmptyAttr}

LastGiven(attrs, k) ==
    attrs[CHOOSE i \in GivenFor(attrs, k) : \A j \in GivenFor(attrs, k) : j <= i].value

\* A group, or an attribute outside of all groups, has the name k.
Taken(groups, attrs, k) ==
    IF groups = <<>> THEN GivenFor(attrs, k) # {}
    ELSE groups[1] = k /\ \E i \in DOMAIN attrs : attrs[i] # EmptyAttr

\* A line shows every attribute of its logger and its record under the logger's
\* groups, the last value of a key that was given several, and the record's own
\* keys as long as no group and no ungrouped attribute has the name.
NothingLost ==
    \A h \in DOMAIN handlers : \A record \in Records :
        LET groups == given[h].groups
            attrs == given[h].attrs \o record
            data == Line(h, record)
        IN  /\ \A k \in Keys :
                 GivenFor(attrs, k) # {} =>
                    /\ groups \o <<k>> \in DOMAIN data
                    /\ data[groups \o <<k>>] = LastGiven(attrs, k)
            /\ \A k \in RecordKeys :
                 Taken(groups, attrs, k) \/ (<<k>> \in DOMAIN data /\ data[<<k>>] = k)

=============================================================================
