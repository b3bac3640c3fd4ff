---------------------------- MODULE GuardResponse ----------------------------
(***************************************************************************)
(* internal/guard/openai.go: what HTTP.Evaluate makes of the provider's    *)
(* answer to one classification request.                                   *)
(*                                                                         *)
(* The answer passes a series of checks, its output items are walked for   *)
(* the one verdict they may hold, and the classification in it is turned   *)
(* into a decision, a reason and data classes that are validated once      *)
(* more.  Whatever goes wrong is an error, on which the mailbox fails the  *)
(* call closed (see Mailbox).                                              *)
(*                                                                         *)
(* Abstracted: transport, HTTP status, size and JSON checks are whether    *)
(* the answer is well formed; an item is its type and, in a proper verdict *)
(* message, the classification.                                            *)
(***************************************************************************)
EXTENDS Integers, Sequences

CONSTANTS
    Classified,   \* classifications a provider answers with
    MaxItems      \* bound: output items

\* "none" stands for no text at all.
GuardResponseAssumption ==
    /\ "none" \notin Classified
    /\ MaxItems \in Nat

VARIABLES
    response,     \* the answer
    at,           \* items inspected
    found,        \* the verdict text found among them, or "none"
    outcome       \* "none", "error", or the decision

vars == <<response, at, found, outcome>>

\* A proper verdict message, one with a tool call or refusal in it, the
\* provider's reasoning, and a type of item nobody asked for.
Item ==
    [type : {"message"}, proper : BOOLEAN, text : Classified]
    \cup [type : {"reasoning", "function_call"}]

Init ==
    /\ response \in
           [formed : BOOLEAN, completed : BOOLEAN, identified : BOOLEAN,
            output : UNION {[1..n -> Item] : n \in 0..MaxItems}]
    /\ at = 0
    /\ found = "none"
    /\ outcome = "none"

-----------------------------------------------------------------------------
(* Verdicts.                                                               *)

Verdict(decision, reason, class) ==
    [decision |-> decision, reason |-> reason, class |-> class]

\* verdictForClassification.
VerdictFor ==
    [allow_public            |-> Verdict("allow", "allowed", "public"),
     allow_coordination      |-> Verdict("allow", "allowed", "coordination"),
     review_personal         |-> Verdict("review", "ambiguous", "personal"),
     review_work_internal    |-> Verdict("review", "work_internal", "work_internal"),
     review_security         |-> Verdict("review", "ambiguous", "security"),
     review_ambiguous        |-> Verdict("review", "ambiguous", "coordination"),
     deny_secret             |-> Verdict("deny", "secret", "secret"),
     deny_credential         |-> Verdict("deny", "credential", "credential"),
     deny_personal_sensitive |-> Verdict("deny", "personal_sensitive", "personal"),
     deny_work_internal      |-> Verdict("deny", "work_internal", "work_internal"),
     deny_regulated          |-> Verdict("deny", "regulated", "regulated"),
     deny_policy_violation   |-> Verdict("deny", "policy_violation", "security"),
     deny_prompt_injection   |-> Verdict("deny", "prompt_injection", "security")]

classificationNames == DOMAIN VerdictFor

\* consistentVerdict, behind validateVerdict's lists of reasons and classes.
Consistent(v) ==
    CASE v.decision = "allow" ->
             v.reason = "allowed" /\ v.class \in {"public", "coordination"}
      [] v.decision = "review" ->
             /\ v.reason \in {"personal_sensitive", "work_internal", "ambiguous"}
             /\ v.class \notin {"credential", "secret", "regulated"}
      [] v.decision = "deny" -> v.reason # "allowed"

-----------------------------------------------------------------------------
(* Evaluate.                                                               *)

\* A malformed answer, one that did not complete, or one of another model or
\* without the identifiers the audit asks for.
Refuse ==
    /\ outcome = "none"
    /\ ~ (response.formed /\ response.completed /\ response.identified)
    /\ outcome' = "error"
    /\ UNCHANGED <<response, at, found>>

Inspecting ==
    /\ outcome = "none"
    /\ response.formed /\ response.completed /\ response.identified
    /\ at < Len(response.output)

\* Mutant of Inspect: the first verdict is as good as the only one.
InspectFirst ==
    LET item == response.output[at + 1] IN
    /\ Inspecting
    /\ IF item.type = "reasoning" \/ found # "none" THEN UNCHANGED <<found, outcome>>
       ELSE IF item.type # "message" \/ ~ item.proper
       THEN outcome' = "error" /\ UNCHANGED found
       ELSE found' = item.text /\ UNCHANGED outcome
    /\ at' = at + 1
    /\ UNCHANGED response

\* One turn of verdictOutputText: every item is looked at, and anything beside
\* reasoning and one verdict message is an error.
Inspect ==
    LET item == response.output[at + 1] IN
    /\ Inspecting
    /\ IF item.type = "reasoning" THEN UNCHANGED <<found, outcome>>
       ELSE IF item.type # "message" \/ ~ item.proper \/ found # "none"
       THEN outcome' = "error" /\ UNCHANGED found
       ELSE found' = item.text /\ UNCHANGED outcome
    /\ at' = at + 1
    /\ UNCHANGED response

\* The text is decoded and its classification translated and validated.
Decide ==
    /\ outcome = "none"
    /\ response.formed /\ response.completed /\ response.identified
    /\ at = Len(response.output)
    /\ outcome' = IF found \in classificationNames /\ Consistent(VerdictFor[found])
                  THEN VerdictFor[found].decision ELSE "error"
    /\ UNCHANGED <<response, at, found>>

Next == Refuse \/ Inspect \/ Decide

Spec == Init /\ [][Next]_vars

-----------------------------------------------------------------------------
(* Reference and property.                                                 *)

\* What the schema offers as reasons to let a message pass and to ask a human.
AllowNames == {"allow_public", "allow_coordination"}
ReviewNames == {"review_personal", "review_work_internal", "review_security", "review_ambiguous"}

\* Evaluate and verdictOutputText: a decision comes only from a complete answer
\* of the configured model whose items, reasoning aside, are one proper verdict
\* with a classification of the schema, and it is the decision the name of that
\* classification promises; everything else is an error, wherever in the answer
\* it stands.
FailsClosed ==
    LET verdicts == {i \in 1..Len(response.output) : response.output[i].type # "reasoning"}
        usable(i) ==
            /\ response.output[i].type = "message" /\ response.output[i].proper
            /\ response.output[i].text \in classificationNames
        only == CHOOSE i \in verdicts : TRUE
        sound == /\ response.formed /\ response.completed /\ response.identified
                 /\ verdicts # {} /\ \A i, j \in verdicts : i = j
                 /\ usable(only)
    IN  outcome # "none" =>
            outcome = IF ~ sound THEN "error"
                      ELSE IF response.output[only].text \in AllowNames THEN "allow"
                      ELSE IF response.output[only].text \in ReviewNames THEN "review"
                      ELSE "deny"
=============================================================================
