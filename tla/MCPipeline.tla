------------------------------ MODULE MCPipeline ------------------------------
(***************************************************************************)
(* Pipeline on a small instance: records of every make in a few orders of  *)
(* time, conversations enough to overflow the windows and the index, and   *)
(* packets and records while something else goes on beside the pipeline.   *)
(***************************************************************************)
EXTENDS Pipeline

\* two conversations of one pair, its reverse, a host with itself, and two more pairs
From == <<1, 1, 2, 3, 4, 1>>
To   == <<2, 2, 1, 3, 5, 3>>
Serv == <<1, 2, 1, 1, 3, 3>>
Shapes == <<[width |-> 1, len |-> 2], [width |-> 2, len |-> 2]>>

Record(i, c, t, closed, n) == [number |-> i, mode |-> "flow", conv |-> c, ts |-> t, terminal |-> closed, bytes |-> n]
Feed(cs, ts, ends) == [i \in DOMAIN cs |-> Record(i, cs[i], ts[i], ends[i], i)]
Setup(feed, n, seq, may) == [feed |-> feed, packets |-> n, convs |-> {1, 4}, seq |-> seq, may |-> may]

T == TRUE
F == FALSE
Mixed == {Setup(Feed(<<c1, c2, c3>>, ts, ends), 0, F, {}) :
            c1 \in {1, 5}, c2 \in 1..6, c3 \in 1..6,
            ts \in {<<2, 3, 4>>, <<4, 2, 3>>, <<2, 5, 3>>},
            ends \in {<<T, T, T>>, <<F, T, T>>, <<T, F, T>>}}
Crowded == {Setup(Feed(cs, ts, <<T, T, T, T, T, T>>), 0, T, {}) :
            cs \in {<<1, 2, 3, 4, 5, 6>>, <<1, 2, 1, 1, 2, 1>>, <<1, 6, 5, 1, 3, 1>>, <<4, 5, 6, 3, 2, 1>>},
            ts \in {<<2, 3, 4, 5, 5, 5>>, <<2, 2, 3, 4, 4, 5>>, <<3, 3, 3, 3, 3, 3>>, <<5, 4, 3, 2, 4, 5>>}}
\* more conversations than the windows hold, all of one moment, and all but one heard of again
Tied == {Setup(Feed(<<1, 2, 3, 4, 5, 1, 2, 3, 4, 6>>, <<3, 3, 3, 3, 3, 4, 4, 4, 4, 4>>, [i \in 1..10 |-> T]), 0, T, {})}
One == Feed(<<5>>, <<3>>, <<T>>)
Odd == <<Record(1, 1, 2, T, 1), [Record(2, 1, 2, T, 1) EXCEPT !.mode = "neither"], Record(3, 1, 3, T, 2)>>
Beside == {Setup(Odd, 0, F, {"stop"}), Setup(One, 1, F, {"stop"}), Setup(Odd, 1, F, {"end"}),
           Setup(One, 1, T, {"close", "stop"}), Setup(Odd, 0, F, {"models"}), Setup(<<>>, 2, F, {"stop"}),
           Setup(Odd, 0, F, {"sweep"}), [Setup(<<>>, 3, F, {"sweep", "end"}) EXCEPT !.convs = {1}]}
AllSetups == Mixed \cup Crowded \cup Tied \cup Beside
=============================================================================
