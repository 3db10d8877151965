----------------------------- MODULE MCLinkQoS -----------------------------
(* A few network files and updates; times in ms, rates in kbit/s.           *)
EXTENDS LinkQoS, TLC

Q(delay, jitter, rate) ==
    [NoQoS EXCEPT !["delay"] = delay, !["jitter"] = jitter, !["rate"] = rate]

Both(q) == [e \in Ends |-> q]

MCFiles == {[all |-> NoQoS, end |-> Both(NoQoS)],
            [all |-> Q(100, 10, 4096), end |-> Both(NoQoS)],
            [all |-> Q(100, 10, 1), end |-> Both(NoQoS)],
            [all |-> NoQoS, end |-> <<Q(100, 10, 4096), Q(200, 0, 0)>>],
            [all |-> Q(100, 10, 4096), end |-> <<NoQoS, Q(0, 0, 2048)>>]}

MCAsks == {<<Q(50, 5, 0), Q(0, 0, 0)>>, Both(NoQoS)}

Symmetry == Permutations(Updates)

=============================================================================
