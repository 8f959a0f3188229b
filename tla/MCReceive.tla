------------------------------- MODULE MCReceive -------------------------------
(***************************************************************************)
(* What comes in with a request, for TLC: the file (UploadHandler), a form *)
(* field that arrives in pieces (FormFields), the name of a file on its    *)
(* way (FileNames), and the text of an answer (JsonText).  Each abstracts  *)
(* from the others, so that a behaviour exercises one of them, chosen at   *)
(* its start.                                                              *)
(***************************************************************************)
EXTENDS MCUploadHandler

CONSTANTS
    Bytes, NUL, dest_size, MaxLength, MaxValues,
    InitialCapacity, TokenLength, MaxMessage,
    name_size, TimeLength, RandomLength, NAME_MAX, MaxName, MaxNodes

VARIABLES
    about,
    dest, value, values, written,
    message, buffer, capacity, building,
    filename, original_name, staged, committed, node, step

C == INSTANCE FormFields
J == INSTANCE JsonText WITH phase <- building
F == INSTANCE FileNames WITH dest_size <- name_size, MaxLength <- MaxName, phase <- step

ASSUME ParametersAssumption == C!ParametersOK /\ J!ParametersOK /\ F!ParametersOK

fieldVars == <<dest, value, values, written>>
answerVars == <<message, buffer, capacity, building>>
nameVars == <<filename, original_name, staged, committed, node, step>>

ReceiveInit ==
    /\ about \in {"file", "field", "answer", "name"}
    /\ Init /\ C!Init /\ J!Init /\ F!Init

ReceiveNext ==
    /\ UNCHANGED about
    /\ \/ about = "file" /\ Next /\ UNCHANGED <<fieldVars, answerVars, nameVars>>
       \/ about = "field" /\ C!Next /\ UNCHANGED <<vars, answerVars, nameVars>>
       \/ about = "answer" /\ J!Next /\ UNCHANGED <<vars, fieldVars, nameVars>>
       \/ about = "name" /\ F!Next /\ UNCHANGED <<vars, fieldVars, answerVars>>

ReceiveSpec ==
    ReceiveInit /\ [][ReceiveNext]_<<about, vars, fieldVars, answerVars, nameVars>>
-----------------------------------------------------------------------------
(* The properties of the texts, as this module sees them.                  *)

\* A form field holds what fits of its value, and nothing is written outside it.
FieldIsCopied == C!FieldIsCopied
\* An answer fits its buffer, a JSON reader gets its message back, and the
\* search in its text finds the token.
AnswerIsUnderstood == J!AnswerIsUnderstood
\* The name of a file is plain wherever it comes, and what could be staged can
\* be committed.
NameIsUsable == F!NameIsUsable
===============================================================================
