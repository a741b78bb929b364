----------------------------- MODULE MCSources -----------------------------
(* Capture sources: two interfaces captured one after the other or side by side, and a
   tcpdump child.  A behaviour is about one of them (focus). *)
EXTENDS LiveCapture, Subprocess

CONSTANT Focuses

VARIABLE focus   \* the sources that are opened; none when the behaviour is about a child

mcVars == <<captureVars, subVars, focus>>

FourSources == {1, 2, 3, 4}
Kinds == <<"recv", "recv", "bpf", "ring">>
Arrivals == <<2, 1, 4, 4>>
Numbers == {1, 2, 3}
Linux == {1, 2, 4}
Second == {2}
Everything == {{1, 2}, {3}, {4}, {}}
Streams == {<<"header", "rec", "odd", "rec">>, <<"foreign", "rec", "rec">>,
            <<"header", "rec", "absurd", "rec">>, <<"header", "rec", "half">>}

\* Where the child stays as it is there is one of it.
MCInit ==
    /\ CaptureInit /\ SubInit /\ focus \in Focuses
    /\ focus # {} => child.script = CHOOSE s \in Scripts : TRUE
    /\ focus # {} => ~child.forks

MCNext ==
    /\ UNCHANGED focus
    /\ \/ /\ focus # {} /\ CaptureNext /\ UNCHANGED subVars
          /\ \A s \in Captures \ focus : src'[s].pc = "none"
          /\ src'[2].pc # "none" => Over(1)   \* the second comes after the first
       \/ focus = {} /\ SubNext /\ UNCHANGED captureVars

MCSpec == MCInit /\ [][MCNext]_mcVars /\ CaptureFairness /\ SubFairness

\* Whatever ends a source, its goroutine ends and its child is reaped.
SourcesLetGo == SourceLetsGo /\ ChildReaped
=============================================================================
