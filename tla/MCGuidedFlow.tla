---------------------------- MODULE MCGuidedFlow ----------------------------
(* Instances of GuidedFlow for TLC. *)
EXTENDS GuidedFlow, TLC

(* Decisions; the card's answer and an empty card; a code, a code in a     *)
(* question, an own wish; words of an option; a plain message.             *)
MCMessages ==
    {{"approve"}, {"reject"}, {"structured", "value"}, {"structured"}, {"code", "question"},
     {"prefix"}, {"prefix", "mention", "question"}, {}}

Budget(vague, rag, artifact, revision) ==
    [r \in Requests |-> CASE r = "vague request" -> vague
                          [] r = "RAG request" -> rag
                          [] r = "artifact request" -> artifact
                          [] r = "revision" -> revision]

(* Two plans and their actions; a plan beside an artifact; artifacts and a *)
(* revision against a quota of one.                                        *)
MCBudgets == {Budget(1, 1, 0, 0), Budget(0, 1, 1, 0), Budget(0, 0, 2, 1)}
=============================================================================
