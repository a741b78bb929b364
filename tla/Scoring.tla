------------------------------ MODULE Scoring ------------------------------
(***************************************************************************)
(* Runtime.score (internal/inference) beside the requests that activate    *)
(* and deactivate models.  The pipeline's goroutine asks whether a sequence*)
(* model is live, then reads the supervised, the sequence and the anomaly  *)
(* models under the runtime's lock, one role at a time.                    *)
(***************************************************************************)
EXTENDS ModelActivation, Naturals, Sequences

CONSTANTS
    Primary, Sequence, Anomaly,   \* the roles a bundle's family gives a model
    ClassOf,                      \* the top class of each supervised and sequence model; None is the heuristic
    MaxSwaps,                     \* bound: swaps a score remembers
    AnyTime                       \* bound: whether a score may also begin when no request is about
                                  \* to swap, and other steps than swaps and stops come amid it

ASSUME ScoringAssumption ==
    /\ {Primary, Sequence, Anomaly} = Roles
    /\ Primary # Sequence /\ Primary # Anomaly /\ Sequence # Anomaly
    /\ MaxSwaps \in Nat /\ MaxSwaps > 1 /\ AnyTime \in BOOLEAN
    /\ DOMAIN ClassOf = Models \cup {None}

VARIABLES
    score   \* the score under way, with what was live when it began (began) and
            \* how often the runtime has changed since (swaps)

scoringVars == <<vars, score>>

NoScore ==
    [pc |-> "idle", window |-> FALSE, outputs |-> <<>>, verdict |-> <<>>, disagreement |-> FALSE,
     anomaly |-> None, began |-> [r \in Roles |-> None], swaps |-> 0]

ScoringInit == Init /\ score = NoScore

\* A model's verdict for the flow.
Output(m, r) == [model |-> m, role |-> r, class |-> ClassOf[m]]

\* The supervised set of the daemon is one model, or the heuristic it falls back to.
Live(r) ==
    IF runtime[r] = None /\ r # Primary THEN <<>> ELSE <<Output(runtime[r], r)>>

\* The output that decides: the first primary, else the first that is not experimental,
\* else the first.
Driver(outputs) ==
    LET primaries == {i \in DOMAIN outputs : outputs[i].role = Primary}
        peers == {i \in DOMAIN outputs : outputs[i].role # "experimental"}
        best == IF primaries # {} THEN primaries ELSE IF peers # {} THEN peers ELSE DOMAIN outputs
    IN IF outputs = <<>> THEN <<>> ELSE <<outputs[CHOOSE i \in best : \A j \in best : i <= j]>>

\* SliceStable by roleRank: the supervised outputs before the sequence outputs.
Ranked(outputs) ==
    LET Before(i) == {j \in DOMAIN outputs :
            \/ outputs[j].role = Primary /\ outputs[i].role # Primary
            \/ (outputs[j].role = Primary <=> outputs[i].role = Primary) /\ j < i}
    IN [k \in 1 .. Len(outputs) |->
            outputs[CHOOSE i \in DOMAIN outputs : Cardinality(Before(i)) = k - 1]]

\* More than one top class among the outputs that may raise an alert.
Disagreement(outputs) ==
    Cardinality({outputs[i].class : i \in {j \in DOMAIN outputs : outputs[j].role # "experimental"}}) > 1

ScoreBegins ==
    /\ phase = "serving" /\ score.pc = "idle"
    /\ AnyTime \/ \E p \in Procs : req[p].pc = "swap"
    /\ score' = [NoScore EXCEPT !.pc = "supervised", !.began = runtime,
                                !.window = runtime[Sequence] # None]
    /\ UNCHANGED vars

ScoreSupervised ==
    /\ score.pc = "supervised"
    /\ score' = [score EXCEPT !.pc = "sequence", !.outputs = Live(Primary),
                              !.verdict = Driver(Live(Primary))]
    /\ UNCHANGED vars

ScoreAgain ==   \* mutant: the verdict is looked up once more, after the sequence models
    /\ score.pc = "sequence"
    /\ LET all == score.outputs \o (IF score.window THEN Live(Sequence) ELSE <<>>)
       IN score' = [score EXCEPT !.pc = "anomaly", !.outputs = all,
                                 !.verdict = Driver(Live(Primary)), !.disagreement = Disagreement(all)]
    /\ UNCHANGED vars

\* Without a window the sequence models are not asked.
ScoreSequences ==
    /\ score.pc = "sequence"
    /\ LET all == score.outputs \o (IF score.window THEN Live(Sequence) ELSE <<>>)
       IN score' = [score EXCEPT !.pc = "anomaly", !.outputs = all,
                                 !.disagreement = Disagreement(all)]
    /\ UNCHANGED vars

ScoreAnomaly ==
    /\ score.pc = "anomaly"
    /\ score' = [score EXCEPT !.pc = "done", !.anomaly = runtime[Anomaly],
                              !.outputs = Ranked(@)]
    /\ UNCHANGED vars

\* The pipeline stores the verdict and goes on to the next row.
Stored ==
    /\ score.pc = "done" /\ score' = NoScore
    /\ UNCHANGED vars

\* Every other step of the daemon; a stop takes the score with it.
Elsewhere ==
    /\ Next
    /\ AnyTime \/ score.pc = "idle" \/ runtime' # runtime \/ phase' = "down"
    /\ score' = IF phase' = "down" THEN NoScore
                ELSE IF score.pc = "idle" \/ runtime' = runtime THEN score
                ELSE IF score.swaps + 1 >= MaxSwaps
                THEN [score EXCEPT !.swaps = MaxSwaps, !.began = NoScore.began]
                ELSE [score EXCEPT !.swaps = @ + 1]

ScoringNext ==
    \/ ScoreBegins \/ ScoreSupervised \/ ScoreSequences \/ ScoreAnomaly \/ Stored
    \/ Elsewhere

ScoringSpec == ScoringInit /\ [][ScoringNext]_scoringVars

-----------------------------------------------------------------------------

\* What one set of live models says of the flow.
Whole(set) ==
    LET peers == IF set[Sequence] = None THEN <<>> ELSE <<Output(set[Sequence], Sequence)>>
        all == <<Output(set[Primary], Primary)>> \o peers
    IN [outputs |-> all, disagreement |-> Disagreement(all), anomaly |-> set[Anomaly]]

\* A score during which one role changes hands answers as the whole set before the
\* change or the whole set after it (inference.go:218, "either sees the whole previous
\* set or the whole new one, never a mix"), although the roles are read one by one; and
\* its verdict is always that of the supervised model it records.
NeverAMix ==
    score.pc = "done" =>
        /\ score.verdict = SubSeq(score.outputs, 1, 1) /\ score.verdict[1].role = Primary
        /\ score.swaps <= 1 =>
              [outputs |-> score.outputs, disagreement |-> score.disagreement, anomaly |-> score.anomaly]
                  \in {Whole(score.began), Whole(runtime)}
=============================================================================
