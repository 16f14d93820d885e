---------------------------- MODULE MCRemoteState ----------------------------
(* Instances of RemoteState. *)
EXTENDS RemoteState, TLC

R(k, v) == [key |-> k, value |-> v]
A(n, v, storage) == [address |-> n, fields |-> [f \in Field |-> v], storage |-> storage]

\* States of up to four accounts, whose storages go up to the last page allowed.
Storages == {SubSeq(<<R(1, 1), R(2, 1), R(3, 1), R(4, 1)>>, 1, n) : n \in 0 .. 4}

PagedStates ==
    UNION {{[i \in 1 .. n |-> A(i, 1, s[i])] : s \in [1 .. n -> Storages]} : n \in 0 .. 3}
    \cup {[i \in 1 .. n |-> A(i, 1, << >>)] : n \in 4 .. 5}

NoExpectation == << >>

\* One account whose storage is compared in every way, beside another one.
SmallStorages ==
    {<< >>} \cup {<<R(k, v)>> : k \in 1 .. 2, v \in 0 .. 1}
            \cup {<<R(1, v), R(2, w)>> : v, w \in 0 .. 1}

ExpectedStorages ==
    UNION {{{R(k, f[k]) : k \in ks} : f \in [ks -> {0, 1, AnyValue}]} : ks \in SUBSET (1 .. 3)}

E(absent, fields, hasStorage, storage) ==
    [absent |-> absent, fields |-> fields, hasStorage |-> hasStorage, storage |-> storage]

Expectations ==
    {E(TRUE, << >>, FALSE, {}), E(FALSE, << >>, FALSE, {})}
    \cup {E(FALSE, [f \in fs |-> v], FALSE, {}) : fs \in SUBSET Field, v \in 0 .. 1}
    \cup {E(FALSE, << >>, TRUE, s) : s \in ExpectedStorages}

ComparedInputs ==
    {[remote |-> <<A(1, 1, s), A(2, 1, << >>)>>, expect |-> (1 :> e @@ 2 :> d)] :
        s \in SmallStorages, e \in Expectations,
        d \in {E(TRUE, << >>, FALSE, {}), E(FALSE, << >>, TRUE, {})}}
    \cup {[remote |-> <<A(2, 1, << >>)>>, expect |-> (1 :> e)] : e \in Expectations}

AllInputs == {[remote |-> s, expect |-> NoExpectation] : s \in PagedStates} \cup ComparedInputs
=============================================================================
