------------------------------ MODULE MCRelay ------------------------------
(* The lines TLC lets the peers send: each shape of line whose way through  *)
(* the relay differs, single and as a member of a batch.                    *)
EXTENDS Relay

Plain == [id |-> "ok", method |-> "other", body |-> "none", tool |-> "none", threat |-> FALSE]

Request       == Plain
Allowed       == [Plain EXCEPT !.method = "call", !.tool = "allowed"]
DeniedCall    == [Allowed EXCEPT !.tool = "denied"]
DeniedNotify  == [DeniedCall EXCEPT !.id = "none"]
DeniedBadId   == [DeniedCall EXCEPT !.id = "bad"]
Threat        == [Allowed EXCEPT !.threat = TRUE]
ThreatNotify  == [Threat EXCEPT !.id = "none"]
Garbage       == [Plain EXCEPT !.id = "none", !.method = "none", !.threat = TRUE]
Answer        == [Plain EXCEPT !.method = "none", !.body = "result"]
ThreatAnswer  == [Answer EXCEPT !.threat = TRUE]

ClientLines == {
    Single(Allowed), Single(DeniedNotify), Single(DeniedBadId), Single(Threat),
    Single(ThreatNotify), Batch(<<Request, DeniedCall>>),
    Batch(<<DeniedNotify, ThreatNotify>>),
    Batch(<<Threat, ThreatNotify, Request>>), OversizedLine }

ServerLines == {
    Single(Answer), Single(ThreatAnswer), Single(Garbage),
    Batch(<<Answer, ThreatAnswer>>), BlankLine }

MCFrames == [d \in Dirs |-> IF d = "c2s" THEN ClientLines ELSE ServerLines]
MCMaxFrames == [d \in Dirs |-> IF d = "c2s" THEN 2 ELSE 1]
=============================================================================
