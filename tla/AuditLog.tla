------------------------------ MODULE AuditLog ------------------------------
(***************************************************************************)
(* The audit log (internal/audit): one line per accepted change, appended  *)
(* after the store that made the change has let its lock go.  An append    *)
(* that fails is logged and forgotten; what it left of its line stays in   *)
(* the file, and the next line is written right behind it.                 *)
(***************************************************************************)
EXTENDS Integers, Sequences, FiniteSets, SequencesExt, FiniteSetsExt

CONSTANTS Operators,      \* concurrent API requests
          MaxFailures     \* bound on the appends that fail

ASSUME AuditAssumption == MaxFailures \in Nat

VARIABLES auditFile,    \* the lines of the file; a line is the appends glued in it
          newline,      \* whether the file ends in a newline
          appended,     \* every append tried, oldest first
          owed,         \* per request: the line it has yet to append
          lost          \* history: the lines a stop came before

auditVars == <<auditFile, newline, appended, owed, lost>>
NoLine == [event |-> "none"]
Outcomes == {"whole", "unterminated", "torn", "none"}
Failures == Cardinality({i \in DOMAIN appended : appended[i].how # "whole"})

AuditInit ==
    /\ auditFile = <<>> /\ newline = TRUE /\ appended = <<>>
    /\ owed = [o \in Operators |-> NoLine] /\ lost = {}

Free(o) == owed[o] = NoLine

\* A line about a change; nth is history, it tells the changes of one subject apart.
Line(event, subject, nth) == [event |-> event, subject |-> subject, nth |-> nth]

Owe(o, line) ==
    /\ owed' = [owed EXCEPT ![o] = line]
    /\ UNCHANGED <<auditFile, newline, appended, lost>>

WithPiece(piece) ==
    IF newline THEN Append(auditFile, <<piece>>)
    ELSE [auditFile EXCEPT ![Len(auditFile)] = Append(@, piece)]

LogSubjectRetried(o, how) ==   \* mutant: what a failed append cut short is appended again
    /\ owed[o] # NoLine
    /\ how = "whole" \/ Failures < MaxFailures
    /\ IF how = "none" THEN UNCHANGED <<auditFile, newline>>
       ELSE /\ auditFile' = WithPiece([line |-> owed[o], how |-> how])
            /\ newline' = (how = "whole")
    /\ appended' = Append(appended, [line |-> owed[o], how |-> how])
    /\ owed' = IF how = "whole" THEN [owed EXCEPT ![o] = NoLine] ELSE owed
    /\ lost' = lost

\* LogSubject, with the write cut short or refused by a full disk
LogSubject(o, how) ==
    /\ owed[o] # NoLine
    /\ how = "whole" \/ Failures < MaxFailures
    /\ IF how = "none" THEN UNCHANGED <<auditFile, newline>>
       ELSE /\ auditFile' = WithPiece([line |-> owed[o], how |-> how])
            /\ newline' = (how = "whole")
    /\ appended' = Append(appended, [line |-> owed[o], how |-> how])
    /\ owed' = [owed EXCEPT ![o] = NoLine] /\ lost' = lost

\* a line that is one entire object is a record, anything else is passed over
DecodeLine(line) == Len(line) = 1 /\ line[1].how \in {"whole", "unterminated"}

\* Tail without a filter: the lines it reads back, the newest first
Readable == {i \in DOMAIN auditFile : DecodeLine(auditFile[i])}

\* The requests in flight die with the daemon, their lines unwritten.
AuditRestart ==
    /\ owed' = [o \in Operators |-> NoLine]
    /\ lost' = lost \cup ({owed[o] : o \in Operators} \ {NoLine})
    /\ UNCHANGED <<auditFile, newline, appended>>

-----------------------------------------------------------------------------
Appended == {appended[i].line : i \in DOMAIN appended}
Lines == (Appended \cup {owed[o] : o \in Operators} \cup lost) \ {NoLine}

\* A line is in one place: appended once, still owed by one request, or lost.
LinesOnce ==
    /\ \A i, j \in DOMAIN appended : appended[i].line = appended[j].line => i = j
    /\ \A o \in Operators : ~Free(o) =>
          /\ owed[o] \notin Appended \cup lost
          /\ \A q \in Operators : owed[q] = owed[o] => q = o
    /\ Appended \cap lost = {}

\* Every line read back is one that was appended, and they come in the order of the appends.
ReadInOrder ==
    \E at \in [Readable -> DOMAIN appended] :
        /\ \A i \in Readable : appended[at[i]].line = auditFile[i][1].line
        /\ \A i, j \in Readable : i < j => at[i] < at[j]

\* those of the first n appends that ended so
Ended(hows, n) == {i \in 1 .. n : appended[i].how \in hows}

\* The log read back is the appends in their order, and a failed append costs at
\* most itself and the one line written behind its fragment: the trail never loses
\* more than that, whatever was cut short and whenever the daemon started again
\* (audit.go:137, read.go:83).
AuditReadable ==
    /\ ReadInOrder
    /\ Len(appended) - Cardinality(Readable) <=
        Cardinality(Ended({"none", "torn"}, Len(appended)))
        + Cardinality(Ended({"torn"}, Len(appended) - 1))
        + 2 * Cardinality(Ended({"unterminated"}, Len(appended) - 1))
=============================================================================
