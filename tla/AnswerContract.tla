--------------------------- MODULE AnswerContract ---------------------------
(***************************************************************************)
(* What a run of the agent promises to who asked: one outcome, once.  An   *)
(* answer called grounded rests on retrieved sources and cites some; an    *)
(* abstention or small talk cites none; sources attached to the message    *)
(* are the only ones used when there are any.                              *)
(***************************************************************************)
CONSTANTS Sources,    \* what an answer can rest on
          Attachment  \* the source attached to the message, one of them

VARIABLES attached,  \* the sources that the message carries: none, or this one
          outcome,   \* "pending", "grounded", "abstained", "smalltalk" or "failed"
          basis,     \* the sources given to the language model
          cites      \* "yes" if the answer carries citations, else "no"

contractVars == <<attached, outcome, basis, cites>>

ContractInit == /\ attached \in {{}, {Attachment}}
                /\ outcome = "pending"
                /\ basis = {}
                /\ cites = "no"

Ground == /\ outcome = "pending"
          /\ outcome' = "grounded"
          /\ basis' \in (SUBSET Sources) \ {{}}
          /\ attached # {} => basis' = attached
          /\ cites' = "yes"
          /\ UNCHANGED attached

\* Nothing was found, or the language model was not sure of its answer.
Abstain == /\ outcome = "pending"
           /\ outcome' = "abstained"
           /\ basis' \in SUBSET Sources
           /\ attached # {} => basis' = attached
           /\ UNCHANGED <<attached, cites>>

SmallTalk == /\ outcome = "pending"
             /\ attached = {}
             /\ outcome' = "smalltalk"
             /\ UNCHANGED <<attached, basis, cites>>

Fail == /\ outcome = "pending"
        /\ outcome' = "failed"
        /\ UNCHANGED <<attached, basis, cites>>

ContractNext == Ground \/ Abstain \/ SmallTalk \/ Fail

ContractSpec == ContractInit /\ [][ContractNext]_contractVars
=============================================================================
