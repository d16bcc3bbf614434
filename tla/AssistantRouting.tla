--------------------------- MODULE AssistantRouting ---------------------------
(***************************************************************************)
(* The legacy engine of backend/app/routes/assistant.py: which of its      *)
(* answers a message gets.  A message is the set of the phrase groups that *)
(* are found in its normalized text.                                       *)
(***************************************************************************)
EXTENDS Sequences, SequencesExt

(* Of the small talk a message must begin with the phrase, of the others   *)
(* it may hold the phrase anywhere.                                        *)
Talk == {"greeting", "wellbeing", "activity", "thanks", "goodbye", "capability"}
Phrases ==
    Talk \cup {"followup", "previous term", "workflow term", "execution", "command word",
               "document", "web"}

is_casual_smalltalk(says) == says \cap {"greeting", "wellbeing", "activity"} # {}

get_direct_response(says) ==
    CASE says \cap {"thanks", "goodbye"} # {} -> {"casual_chat"}
      [] says \cap {"thanks", "goodbye"} = {} /\ "capability" \in says -> {"capability_help"}
      [] OTHER -> {}

is_workflow_followup(says) == "followup" \in says \/ {"previous term", "workflow term"} \subseteq says

is_execution_request(says) == "execution" \in says \/ says = {"command word"}

is_document_request(says) == "document" \in says

is_web_request(says) == "web" \in says

(* The first of them that matches, in the order of the code. *)
classify_message(says) ==
    LET routes == SelectSeq(
            <<<<is_workflow_followup(says), "workflow_followup">>,
              <<is_execution_request(says), "execution_workflow">>,
              <<is_document_request(says), "document_research">>,
              <<is_web_request(says), "web_research">>,
              <<TRUE, "general_answer">>>>, LAMBDA c : c[1])
    IN  Head(routes)[2]

(* handle_single_assistant_task: only "execution_workflow" runs tools. *)
Route(says) ==
    IF is_casual_smalltalk(says) THEN "casual_chat"
    ELSE IF get_direct_response(says) # {} THEN CHOOSE r \in get_direct_response(says) : TRUE
    ELSE classify_message(says)
=============================================================================
