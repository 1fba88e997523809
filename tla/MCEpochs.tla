------------------------------ MODULE MCEpochs -----------------------------
(* The two readers of the performance tracker's books, in two parts that    *)
(* share no variable: who owns an epoch (ProducerEpochs) and who reports the *)
(* publisher's counters (PublisherTelemetry, under the names below).        *)
EXTENDS ProducerEpochs

CONSTANT MaxCount

VARIABLES part, counts, asked, tracked, shown, reporter, receipt, failed, closer, snap

reports == <<counts, asked, tracked, shown, reporter, receipt, failed, closer, snap>>

Reports == INSTANCE PublisherTelemetry WITH
  stop <- asked, tracker <- tracked, mode <- shown, worker <- reporter, error <- failed,
  proc <- closer

MCInit == part \in {"epochs", "reports"} /\ Init /\ Reports!Init

MCNext ==
  \/ part = "epochs" /\ Next /\ UNCHANGED <<part, reports>>
  \/ part = "reports" /\ Reports!Next /\ UNCHANGED <<part, vars>>

MCSpec == MCInit /\ [][MCNext]_<<part, vars, reports>>

\* PublisherTelemetry's property, under the names above.
FinalReportExact == Reports!FinalReportExact
=============================================================================
