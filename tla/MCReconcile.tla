---------------------------- MODULE MCReconcile ----------------------------
(* Two partitions, the first with two sources; small trees.                *)
EXTENDS Reconcile

Sources == {<<1, 1>>, <<1, 2>>, <<2, 1>>}

Scalar(size) == [leaves |-> (<<>> :> size), text |-> {}]

\* A source envelope: a result of structured content in two parts and its
\* text, exact or not, and metadata.
Envelope(size, text) ==
    [leaves |-> (<<1, 1, 1>> :> 1) @@ (<<1, 1, 2>> :> size) @@ (<<1, 2>> :> 1) @@ (<<2>> :> 1),
     text |-> text]

SourceTrees ==
    [s \in Sources |->
       IF s = <<1, 1>> THEN {Envelope(2, {}), Envelope(1, {<<1, 2>>})}
       ELSE IF s = <<1, 2>> THEN {Scalar(9), Envelope(2, {<<1, 2>>})}
       ELSE {Scalar(1), Scalar(9)}]
=============================================================================
