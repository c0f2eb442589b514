---------------------------- MODULE IcServicesMC ----------------------------
(* What the host sends in the run: up to three requests of any kinds; or     *)
(* samples of its time, once it has negotiated, which starts the timer.      *)
EXTENDS IcServices

SampleOfTime == [type |-> "timesync", data |-> Sample]

InAnyOrder(past) == Len(past) < 3

NegotiatedAndSamples(past, m) ==
  /\ m = SampleOfTime
  /\ past # <<>> /\ past[1] = [type |-> "negotiate", data |-> 3]
  /\ \A k \in 2 .. Len(past) : past[k] = SampleOfTime

AskedInRun(past, m) == InAnyOrder(past) \/ NegotiatedAndSamples(past, m)
=============================================================================
