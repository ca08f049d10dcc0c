-------------------------- MODULE MCPaperCampaign ---------------------------
(* One token, one executable price, an operator and crashes.               *)
EXTENDS PaperCampaign

CONSTANT m1

CampaignCandidates == { <<>> } \cup
    { <<[mint |-> m1, approved |-> a]>> : a \in BOOLEAN }

CampaignQuotes ==
    { [age |-> 0, ref |-> 2, price |-> 2, avail |-> 8, state |-> "EXECUTABLE"] }

CampaignObservations ==
    { [price |-> p, halt |-> h, signals |-> {}] : p \in {1, 2}, h \in BOOLEAN }

CampaignLevels == <<>>
=============================================================================
