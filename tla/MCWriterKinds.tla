---------------------------- MODULE MCWriterKinds ----------------------------
(***************************************************************************)
(* A writer of either reliability kind in one run: a reliable writer whose *)
(* readers stay, or a best-effort writer whose readers come and go.        *)
(***************************************************************************)
EXTENDS MCWriterPipeline

VARIABLE kind

BestEffort == INSTANCE WriterPipeline WITH WriterQos <- MCBestEffort, ReadersLeave <- TRUE

ByKind(reliable, best_effort) == \/ kind = "Reliable" /\ reliable
                                 \/ kind = "BestEffort" /\ best_effort

KindsInit == Init /\ kind \in {"Reliable", "BestEffort"}

KindsNext == ByKind(Next, BestEffort!Next) /\ UNCHANGED kind

\* The fairness of FairSpec; a best-effort writer has neither heartbeats nor
\* acknowledgements.
KindsFairSpec ==
  /\ KindsInit
  /\ [][KindsNext]_<<vars, kind>>
  /\ WF_vars(ByKind(DataWriterStep, BestEffort!DataWriterStep) /\ ~panicked /\ UNCHANGED kind)
  /\ WF_vars(ByKind(HandlerStep, BestEffort!HandlerStep) /\ ~panicked /\ UNCHANGED kind)
  /\ SF_vars(RecvCmd /\ ~panicked /\ UNCHANGED kind)
  /\ SF_vars(kind = "Reliable" /\ HeartbeatTimer /\ ~panicked /\ UNCHANGED kind)
  /\ \A r \in Readers :
       SF_vars(kind = "Reliable" /\ AcknowledgeAll(r) /\ ~panicked /\ UNCHANGED kind)
=============================================================================
