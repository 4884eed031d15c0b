----------------------------- MODULE MCServices -----------------------------
(***************************************************************************)
(* The parts in Services share no state, so a behaviour is of one part,    *)
(* chosen at the start, while the others stay as they are.                 *)
(***************************************************************************)
EXTENDS Services

VARIABLE part

startVars == <<startPc, pending, dbUp, versions, schema, writing, failures>>
nameVars == <<stored, request, inserted, namePc, shown>>

\* Names on both sides of the shortest one.
MCNames == {[length |-> 3, characters |-> "alphanumeric"],
            [length |-> 2, characters |-> "alphanumeric"]}

\* No secret, one too short, and two that are accepted.
Missing == [text |-> "", length |-> 0]
Weak == [text |-> "weak", length |-> 19]
First == [text |-> "first", length |-> 32]
Second == [text |-> "second", length |-> 40]

MCSecrets == {Missing, Weak, First, Second}

\* A key that the service never has.
Another == [text |-> "another", length |-> 40]

MCKeys == MCSecrets \cup {Another}

Signed(alg, key, exp) ==
    [form |-> "jwt", alg |-> alg, key |-> key,
     sub |-> CHOOSE u \in Users : TRUE, name |-> CHOOSE n \in MCNames : n.length = 3,
     exp |-> exp, iss |-> Issuer]

\* Whole tokens, expired or not, with every key but the accepted secrets; with
\* each kind of secret also another algorithm, another issuer, no claims; and
\* text that is no token.
MCForeignTokens ==
    NotJWTs
      \cup {Signed("HS256", key, exp) : key \in {Missing, Weak, Another}, exp \in {0, MaxTime + 1}}
      \cup UNION {{Signed("other", key, MaxTime + 1),
                   [Signed("HS256", key, 0) EXCEPT !.iss = "other-issuer"],
                   [Signed("HS256", key, MaxTime + 1) EXCEPT !.iss = "other-issuer"],
                   [Signed("HS256", key, MaxTime + 1) EXCEPT !.sub = None],
                   [Signed("HS256", key, MaxTime + 1) EXCEPT !.name = None]} :
                   key \in {Weak, First}}

MCInit ==
    /\ part \in {"pool", "start", "names", "tokens"}
    /\ Init
    /\ Start!Init
    /\ Named!Init
    /\ TokensInit
    /\ part # "pool" => limit = CHOOSE n \in Limits : TRUE
    /\ part # "names" => request = CHOOSE r \in [Workers -> Named!Requests] : TRUE
    /\ part # "tokens" => secret = First

MCNext ==
    /\ UNCHANGED part
    /\ \/ /\ part = "pool" /\ Next
          /\ UNCHANGED <<startVars, nameVars, tokenVars>>
       \/ /\ part = "start" /\ Start!Next
          /\ UNCHANGED <<vars, nameVars, tokenVars>>
       \/ /\ part = "names" /\ Named!Next
          /\ UNCHANGED <<vars, startVars, tokenVars>>
       \/ /\ part = "tokens" /\ TokensNext
          /\ UNCHANGED <<vars, startVars, nameVars>>

\* Requests are served, and processes that run go on.
MCFairness ==
    /\ \A w \in Workers : WF_vars(Serve(w))
    /\ part = "start" => Start!Fairness

MCSpec ==
    /\ MCInit
    /\ [][MCNext]_<<part, vars, startVars, nameVars, tokenVars>>
    /\ MCFairness

\* Every start ends (main).
EveryStartEnds == part = "start" => Start!EveryStartEnds

\* Of the processes that start against a running PostgreSQL one gets to listen
\* (main, RunMigrations).
SomeoneListens == part = "start" => Start!SomeoneListens
=============================================================================
