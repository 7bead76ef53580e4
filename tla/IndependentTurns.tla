--------------------------- MODULE IndependentTurns ---------------------------
(***************************************************************************)
(* What NeedleClient promises (needle.h:42-49): each ask is an independent *)
(* turn, answered from the asker's own session facts and the tools it      *)
(* passed, as if the engine had been set up for it alone.  There is no     *)
(* engine here, no record of how it was last configured and no             *)
(* conversation: NeedleClient has those and implements this module.        *)
(***************************************************************************)
EXTENDS Sequences

CONSTANTS Clients, Prompts, Tools, Replies

VARIABLES mLoaded, mSystemPrompt, answer

vars == <<mLoaded, mSystemPrompt, answer>>

Errors == {"ToolsRejected", "CompletionFailed", "ResponseTruncated",
           "MalformedResponse", "ModelReportedError"}

Unset     == [set |-> FALSE]
Key(p, t) == [set |-> TRUE, prompt |-> p, tools |-> t]

Answer(c, t, outcome, saw, calls) ==
    [client |-> c, prompt |-> mSystemPrompt[c], tools |-> t, outcome |-> outcome,
     saw |-> saw, earlier |-> FALSE, calls |-> calls]

Init ==
    /\ mLoaded = [c \in Clients |-> FALSE]
    /\ mSystemPrompt \in [Clients -> Prompts]
    /\ answer = [outcome |-> "none"]

(***************************************************************************)
(* A client is built, loaded, unloaded or moved: whatever becomes of it,   *)
(* nothing is answered.                                                    *)
(***************************************************************************)
Change ==
    /\ mLoaded' \in [Clients -> BOOLEAN]
    /\ mSystemPrompt' \in [Clients -> Prompts]
    /\ UNCHANGED answer

(***************************************************************************)
(* The reply a client hands on is all of what the model said.              *)
(***************************************************************************)
Ask(c, t) ==
    /\ \/ /\ ~mLoaded[c]
          /\ answer' = Answer(c, t, "NotLoaded", Unset, <<>>)
       \/ /\ mLoaded[c]
          /\ \E e \in Errors : answer' = Answer(c, t, e, Unset, <<>>)
       \/ /\ mLoaded[c]
          /\ \E r \in Replies :
                answer' = Answer(c, t, "reply", Key(mSystemPrompt[c], t), r.calls)
    /\ UNCHANGED <<mLoaded, mSystemPrompt>>

Next == Change \/ \E c \in Clients, t \in Tools : Ask(c, t)

Spec == Init /\ [][Next]_vars

===============================================================================
