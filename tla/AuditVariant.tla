---------------------------- MODULE AuditVariant ----------------------------
(***************************************************************************)
(* The ID/order audit of one batch: make_id_order_audit_variant and the    *)
(* comparison in run_id_order_audit.  Episodes are numbered 1..n in input  *)
(* order and their IDs are distinct (load_input rejects duplicates), so an *)
(* ID is the number of the episode that bears it in the input.  The two    *)
(* HMAC sorts depend on a secret: each may yield any permutation.          *)
(***************************************************************************)
EXTENDS Naturals, Sequences

Sorted(n) == {s \in [1..n -> 1..n] : \A i, j \in 1..n : s[i] = s[j] => i = j}

\* The element after place k of a cycle of length n.
Successor(k, n) == (k % n) + 1
PlaceOf(s, n, i) == CHOOSE k \in 1..n : s[k] = i

\* (A bug of the code: pairs of neighbours in the cycle swap their IDs.)
AssignBySwaps(s, n) ==
    [i \in 1..n |->
        LET k == PlaceOf(s, n, i)
        IN IF k % 2 = 0 THEN s[k - 1] ELSE IF k < n THEN s[k + 1] ELSE s[k]]

\* Every index gets the ID of its successor in the cycle; a batch of one keeps
\* its ID.
Assign(s, n) ==
    IF n > 1 THEN [i \in 1..n |-> s[Successor(PlaceOf(s, n, i), n)]]
    ELSE [i \in 1..n |-> i]

\* The sorted rows, rotated by one if they happen to be in input order.
\* (A bug of the code: the input order is left as it is.)
ReorderedAsSorted(s, n) == s
Reordered(s, n) ==
    IF n > 1 /\ s = [i \in 1..n |-> i]
    THEN [k \in 1..n |-> s[Successor(k, n)]]
    ELSE s

-----------------------------------------------------------------------------
\* A batch is a sequence of [id, asks]; a router answers each row with a model.
Batch(content) ==
    [i \in 1..Len(content) |-> [id |-> i, asks |-> content[i]]]
Variant(content, assigned, place) ==
    [k \in 1..Len(content) |->
        [id |-> assigned[place[k]], asks |-> content[place[k]]]]

\* The answer for the row with this ID, wherever it is in the batch.
AnswerFor(batch, answers, id) ==
    answers[CHOOSE k \in DOMAIN batch : batch[k].id = id]

\* The episodes whose answer differs between the two runs.
Mismatches(content, assigned, place, first, second) ==
    {i \in 1..Len(content) :
        AnswerFor(Batch(content), first, i)
            # AnswerFor(Variant(content, assigned, place), second, assigned[i])}

\* What a router that looks at nothing but what is asked, or at nothing but the
\* ID, answers.
ByContent(choice, batch) == [k \in DOMAIN batch |-> choice[batch[k].asks]]
ById(choice, batch) == [k \in DOMAIN batch |-> choice[batch[k].id]]
=============================================================================
