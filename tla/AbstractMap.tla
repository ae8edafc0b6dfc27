----------------------------- MODULE AbstractMap -----------------------------
(***************************************************************************)
(* What a map promises: a partial function from keys to values, and for    *)
(* each operation the result the interface of Map documents.  The result   *)
(* of an insertion tells that the key went in; the value the caller has.   *)
(***************************************************************************)
EXTENDS Functions

CONSTANTS Keys, Values

VARIABLES
    dict,     \* the function
    result    \* what the last operation returned

avars == <<dict, result>>

Answer(ok, k, d) == result' = [ok |-> ok, entry |-> [key |-> k, value |-> d[k]]]
Inserted(k) == result'.ok /\ result'.entry.key = k
NoAnswer == result' = [ok |-> FALSE, entry |-> <<>>]
With(k, v) == [x \in DOMAIN dict \cup {k} |-> IF x = k THEN v ELSE dict[x]]

Init ==
    /\ dict = [k \in {} |-> CHOOSE v \in Values : TRUE]
    /\ result = [ok |-> FALSE, entry |-> <<>>]

LookupKV(k) ==
    /\ IF k \in DOMAIN dict THEN Answer(TRUE, k, dict) ELSE NoAnswer
    /\ UNCHANGED dict

\* Does not insert if the key is already present.
InsertKV(k, v) ==
    IF k \in DOMAIN dict THEN Answer(FALSE, k, dict) /\ UNCHANGED dict
    ELSE Inserted(k) /\ dict' = With(k, v)

\* Inserts if the key is not present.
UpdateKV(k, v) ==
    /\ dict' = With(k, v)
    /\ IF k \in DOMAIN dict THEN Answer(TRUE, k, dict') ELSE Inserted(k)

RemoveAnswer(k) == IF k \in DOMAIN dict THEN Answer(TRUE, k, dict) ELSE NoAnswer

RemoveKV(k) ==
    /\ RemoveAnswer(k)
    /\ dict' = Restrict(dict, DOMAIN dict \ {k})

\* Not promised: a removal that loses other keys too.
RemoveLosing(k, lost) ==
    /\ RemoveAnswer(k)
    /\ dict' = Restrict(dict, DOMAIN dict \ ({k} \cup lost))

\* A multilookup returns nothing itself and leaves the contents alone.
MultiLookup == NoAnswer /\ UNCHANGED dict

Next ==
    \/ \E k \in Keys :
          \/ LookupKV(k)
          \/ \E v \in Values : InsertKV(k, v) \/ UpdateKV(k, v)
          \/ RemoveKV(k)
    \/ MultiLookup

Spec == Init /\ [][Next]_avars
=============================================================================
