------------------------------- MODULE JsonText -------------------------------
(***************************************************************************)
(* An answer as text: src/json_utils.c appends raw and escaped text to a   *)
(* buffer that grows, the builders of src/server.c put an answer with a    *)
(* message and a token together, and src/transfer.c on the other node      *)
(* searches the answer for the token.                                      *)
(*                                                                         *)
(* A byte stands for its class: "newline" for those with a short escape,   *)
(* "control" for the other control characters, "token" and "colon" for     *)
(* what the search looks for, "x" for the rest.                            *)
(***************************************************************************)
EXTENDS Integers, Sequences

CONSTANTS
    InitialCapacity,  \* 256
    TokenLength,      \* 64; token_size is one more
    MaxMessage        \* bound on the length of the message

\* What is assumed of the constants.
ParametersOK ==
    InitialCapacity \in Nat \ {0} /\ TokenLength \in Nat \ {0} /\ MaxMessage \in Nat

Chars == {"quote", "backslash", "newline", "control", "n", "u", "0", "token", "colon",
          "comma", "brace", "x"}
Token == [i \in 1 .. TokenLength |-> "x"]

VARIABLES
    message,    \* what was escaped of the message so far
    buffer,     \* *buffer up to its NUL
    capacity,   \* *capacity; 0 while *buffer is NULL
    phase

vars == <<message, buffer, capacity, phase>>
-----------------------------------------------------------------------------
(* json_utils.c                                                            *)

\* ensure_capacity doubles until more than n bytes fit; n doublings always do.
Grown(n) ==
    LET doubled[k \in 0 .. n] ==
            IF k = 0 THEN IF capacity > 0 THEN capacity ELSE InitialCapacity
            ELSE 2 * doubled[k - 1] IN
    doubled[CHOOSE k \in 0 .. n : doubled[k] > n /\ \A j \in 0 .. k - 1 : doubled[j] <= n]

\* What json_buffer_append and json_buffer_appendf ask for: the text and its NUL.
Required(text) == Len(buffer) + Len(text) + 1

json_buffer_append(text) ==
    /\ capacity' = IF capacity > Required(text) THEN capacity ELSE Grown(Required(text))
    /\ buffer' = buffer \o text

Mut_escaped_but_quote(c) ==
    CASE c = "backslash" -> <<"backslash", c>>
      [] c = "newline" -> <<"backslash", "n">>
      [] c = "control" -> <<"backslash", "u", "0", "0", "0", "0">>
      [] OTHER -> <<c>>
\* json_buffer_append_escaped, for one byte.
Escaped(c) ==
    CASE c \in {"quote", "backslash"} -> <<"backslash", c>>
      [] c = "newline" -> <<"backslash", "n">>
      [] c = "control" -> <<"backslash", "u", "0", "0", "0", "0">>
      [] OTHER -> <<c>>
-----------------------------------------------------------------------------
(* server.c: queue_json_pair_response.                                     *)

Opening == <<"brace", "quote", "x", "quote", "colon", "quote">>
TokenKey == <<"quote", "token", "quote", "colon", "quote">>
Ending == <<"quote", "comma", "quote", "x", "quote", "colon", "x", "brace">>

\* {"...":"
open ==
    /\ phase = "empty"
    /\ json_buffer_append(Opening)
    /\ phase' = "message"
    /\ UNCHANGED message

escape(c) ==
    /\ phase = "message" /\ Len(message) < MaxMessage
    /\ json_buffer_append(Escaped(c))
    /\ message' = Append(message, c)
    /\ UNCHANGED phase

\* ","token":"
key ==
    /\ phase = "message"
    /\ json_buffer_append(<<"quote", "comma">> \o TokenKey)
    /\ phase' = "token"
    /\ UNCHANGED message

\* The token, which is hexadecimal and needs no escapes, and ","expires_at":...}
close ==
    /\ phase = "token"
    /\ json_buffer_append(Token \o Ending)
    /\ phase' = "sent"
    /\ UNCHANGED message

\* realloc fails: the handler frees the buffer and the connection is closed.
out_of_memory ==
    /\ phase \in {"empty", "message", "token"}
    /\ buffer' = << >> /\ capacity' = 0
    /\ phase' = "failed"
    /\ UNCHANGED message
-----------------------------------------------------------------------------
(* transfer.c                                                              *)

\* Where strstr finds a pattern.
Matches(i, pattern) == SubSeq(buffer, i, i + Len(pattern) - 1) = pattern
FoundAt(i, pattern) == Matches(i, pattern) /\ \A j \in 1 .. i - 1 : ~Matches(j, pattern)

\* The pattern that extract_json_string_field builds.
Pattern == TokenKey

\* The bytes that are copied of a value of n bytes.
Copied(n) == IF n >= TokenLength + 1 THEN TokenLength ELSE n

\* extract_json_string_field: from behind the pattern to the next quote.
extract_json_string_field ==
    LET i == CHOOSE i \in 1 .. Len(buffer) : FoundAt(i, Pattern)
        start == i + Len(Pattern)
        end == CHOOSE e \in start .. Len(buffer) :
                 buffer[e] = "quote" /\ \A j \in start .. e - 1 : buffer[j] # "quote" IN
    SubSeq(buffer, start, start + Copied(end - start) - 1)
-----------------------------------------------------------------------------
Init ==
    /\ message = << >> /\ buffer = << >> /\ capacity = 0
    /\ phase = "empty"

Next ==
    \/ open \/ key \/ close
    \/ \E c \in Chars : escape(c)
    \/ out_of_memory

Spec == Init /\ [][Next]_vars
-----------------------------------------------------------------------------
(* Properties.                                                             *)

TypeOK ==
    /\ message \in Seq(Chars) /\ buffer \in Seq(Chars)
    /\ capacity \in Nat
    /\ phase \in {"empty", "message", "token", "sent", "failed"}

\* However the text falls on the doublings, the text and its NUL fit into the
\* buffer.
FitsBuffer == buffer # << >> => Len(buffer) + 1 <= capacity

\* One step of a JSON reader in a string: what it has read and whether the last
\* byte was a backslash, how many digits of a \u are to come, or the string ended.
Reads(r, b) ==
    CASE r.mode = "end" -> r
      [] r.mode = "escape" ->
           CASE b = "u" -> [mode |-> "hex", left |-> 4, text |-> r.text]
             [] b = "n" -> [mode |-> "text", left |-> 0, text |-> Append(r.text, "newline")]
             [] OTHER -> [mode |-> "text", left |-> 0, text |-> Append(r.text, b)]
      [] r.mode = "hex" ->
           IF r.left > 1 THEN [r EXCEPT !.left = @ - 1]
           ELSE [mode |-> "text", left |-> 0, text |-> Append(r.text, "control")]
      [] r.mode = "text" ->
           CASE b = "backslash" -> [r EXCEPT !.mode = "escape"]
             [] b = "quote" -> [r EXCEPT !.mode = "end"]
             [] OTHER -> [r EXCEPT !.text = Append(@, b)]

\* A JSON reader behind the i-th byte of an answer; a string starts after the opening.
reader[i \in Len(Opening) .. Len(buffer)] ==
    IF i = Len(Opening) THEN [mode |-> "text", left |-> 0, text |-> << >>]
    ELSE Reads(reader[i - 1], buffer[i])

\* A JSON reader gets back every message that was escaped, whatever it contains
\* (names and error messages come from other nodes), and finds its end.
MessageReadsBack ==
    phase \in {"token", "sent"} =>
        reader[Len(buffer)].mode = "end" /\ reader[Len(buffer)].text = message

\* The search in the raw text of an answer finds the token, all of it, and never
\* part of the message, whatever the message is.
TokenIsFound == phase = "sent" => extract_json_string_field = Token

\* An answer survives the way from one node to the other: it fits the buffer it
\* is built in, a JSON reader gets the message back and the search the token.
AnswerIsUnderstood == FitsBuffer /\ MessageReadsBack /\ TokenIsFound
=============================================================================
