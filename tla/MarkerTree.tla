----------------------------- MODULE MarkerTree -----------------------------
(***************************************************************************)
(* rdc_passdiff.marker_passes: the marker scopes of a frame that have a    *)
(* call inside them, from a stack over the one stream of both marker       *)
(* families.  The same walk counts what the report's marker balance reads. *)
(***************************************************************************)
EXTENDS Frame

VARIABLES stack,        \* the open markers, innermost last: [name, chunk, last, calls]
          passes,       \* the closed ones with a call inside, in the order they closed
          strayPops     \* the closes that had nothing to close

markerVars == <<stack, passes, strayPops>>

Names(frames) == [i \in 1..Len(frames) |-> frames[i].name]

\* A scope nothing was drawn in is a heading, not a pass.
Closed(frames) ==
    LET top == frames[Len(frames)]
    IN  IF top.calls = 0 THEN <<>>
        ELSE <<[path |-> Names(frames), depth |-> Len(frames) - 1, chunk |-> top.chunk,
                last |-> top.last, calls |-> top.calls]>>

Marker(c) ==
    \/ /\ c.op = "push"
       /\ stack' = Append(stack, [name |-> c.name, chunk |-> Now, last |-> Now, calls |-> 0])
       /\ UNCHANGED <<passes, strayPops>>
    \/ /\ c.op = "pop" /\ stack # <<>>
       /\ passes' = passes \o Closed(stack)
       /\ stack' = SubSeq(stack, 1, Len(stack) - 1)
       /\ UNCHANGED strayPops
    \/ c.op = "pop" /\ stack = <<>> /\ strayPops' = strayPops + 1 /\ UNCHANGED <<stack, passes>>

CountCall(c) ==
    /\ c.op = "draw"
    /\ stack' = [i \in DOMAIN stack |-> [stack[i] EXCEPT !.calls = @ + 1, !.last = Now]]
    /\ UNCHANGED <<passes, strayPops>>

MarkerPassesClosedOnly == passes

\* A marker still open where the stream ends is still a pass, innermost first.
MarkerPasses ==
    FoldLeft(LAMBDA found, k : found \o Closed(SubSeq(stack, 1, k)), passes,
             [i \in 1..Len(stack) |-> Len(stack) + 1 - i])

MarkerInit == stack = <<>> /\ passes = <<>> /\ strayPops = 0

(***************************************************************************)
(* Every pass is one push to the close that balances it, or to the cut     *)
(* end of the frame: its calls are all the calls in between, its path the  *)
(* markers open around it.  A stray close takes nothing from a later       *)
(* scope, and no scope with a call is lost (rdc_passdiff.py:95).           *)
(***************************************************************************)
PassesAreTheScopes ==
    LET n == Len(stream)
        depth[k \in 0..n] ==
            IF k = 0 THEN 0
            ELSE CASE stream[k].op = "push" -> depth[k - 1] + 1
                   [] stream[k].op = "pop" /\ depth[k - 1] > 0 -> depth[k - 1] - 1
                   [] OTHER -> depth[k - 1]
        pushes == {i \in 1..n : stream[i].op = "push"}
        inside(i) == {j \in i..n : \A k \in i..j : depth[k] >= depth[i]}
        calls(i) == {j \in inside(i) : stream[j].op = "draw"}
        around(i) == {j \in pushes : i \in inside(j)}
        latest(S) == CHOOSE x \in S : \A y \in S : y <= x
    IN  ToSet(MarkerPasses) =
            {[path |-> [d \in 1..Cardinality(around(i)) |->
                            stream[CHOOSE j \in around(i) : depth[j] = d].name],
              depth |-> depth[i] - 1, chunk |-> i, last |-> latest(calls(i)),
              calls |-> Cardinality(calls(i))] : i \in {i \in pushes : calls(i) # {}}}
=============================================================================
