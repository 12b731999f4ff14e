----------------------- MODULE MCAcquisitionBenchmark -----------------------
(***************************************************************************)
(* The table has two workloads instead of four, of few hypotheses.  Calls  *)
(* select one workload, both, all of them, one twice, or an unknown one.   *)
(* Two workloads are run where SME2 is unavailable, which keeps the        *)
(* orders of six tasks instead of nine.                                    *)
(***************************************************************************)
EXTENDS AcquisitionBenchmark, TLC

MCWorkloads == "small"  :> [iq |-> 5, preamble |-> 2, timings |-> 4, cfos |-> 3]
            @@ "medium" :> [iq |-> 6, preamble |-> 2, timings |-> 5, cfos |-> 5]

One == [names |-> <<"small">>, warmup_rounds |-> 1, samples |-> 3,
        duration_valid |-> TRUE]

Two == [One EXCEPT !.names = <<"medium", "small">>, !.warmup_rounds = 0]

Call(o, h) == [options |-> o, host |-> h]

MCCalls ==
  {Call(One, {}), Call(One, {"neon"}), Call(One, {"neon", "sme2"}),
   Call(Two, {"neon"}),
   Call([Two EXCEPT !.names = << >>], {"neon"}),
   Call([One EXCEPT !.names = <<"small", "small">>], {}),
   Call([One EXCEPT !.names = <<"tiny">>], {}),
   Call([One EXCEPT !.samples = 2], {}),
   Call([One EXCEPT !.duration_valid = FALSE], {})}

=============================================================================
