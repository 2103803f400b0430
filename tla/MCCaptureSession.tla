-------------------------- MODULE MCCaptureSession --------------------------
(***************************************************************************)
(* Every runner with every option that changes what it does.               *)
(***************************************************************************)
EXTENDS CaptureSession

AllSetups ==
    {s \in Setup : /\ s.reset \/ s.runner = "android"
                   /\ s.http3 \/ s.runner \in {"safari", "ios"}}
=============================================================================
